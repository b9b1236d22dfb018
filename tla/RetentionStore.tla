--------------------------- MODULE RetentionStore ---------------------------
(***************************************************************************)
(* Retained evidence: put_source_blob, release_source_blob and             *)
(* reclassify_source_blob of StoreWrite, as sqlite.rs and postgres.rs      *)
(* implement them, under concurrent transactions.                          *)
(*                                                                         *)
(* A row is an address (the digest of the bytes); its value is the         *)
(* retention class of the blob filed there, or Absent.  The audit table is *)
(* append-only; the model keeps how many entries of each kind an address   *)
(* has.                                                                    *)
(***************************************************************************)
EXTENDS Naturals, Transactions

CONSTANTS
  TooLarge,      \* addresses of originals over max_blob_bytes
  MaxCalls,      \* bound on calls in one transaction
  MaxTxns        \* bound on transactions

Addresses == Rows
Absent    == "absent"
Classes   == {"standard", "hold", "transient"}

(* RetentionAction.  "void" is a Released entry whose reason says that     *)
(* nothing was retained at the address.                                    *)
Actions == {"stored", "deduplicated", "refused", "released", "void",
            "reclassified"}

ASSUME RetentionAssumption ==
  /\ Values = Classes \union {Absent}
  /\ TooLarge \subseteq Addresses
  /\ MaxCalls \in Nat /\ MaxTxns \in Nat

VARIABLES
  audit,         \* committed audit entries, per address and action
  log,           \* the entries the transaction has added
  call,          \* the call the transaction is executing
  calls,         \* calls this transaction has completed
  begun,         \* transactions begun
  refusals       \* history: blobs refused for their size

vars == <<txnVars, audit, log, call, calls, begun, refusals>>

NoEntries == [a \in Addresses |-> [k \in Actions |-> 0]]

Idle == [op |-> "none", addr |-> Absent, class |-> Absent, seen |-> Absent]
Looked(op, a, class, seen) ==
  [op |-> op, addr |-> a, class |-> class, seen |-> seen]

(* Mutant: every class may be swept.                                       *)
MayAlwaysBeSwept(class) == class \in Classes

(* RetentionClass::may_be_swept                                            *)
MayBeSwept(class) == class \in {"standard", "transient"}

-----------------------------------------------------------------------------
Begin(c) ==
  /\ begun < MaxTxns
  /\ BeginTxn(c)
  /\ begun' = begun + 1
  /\ UNCHANGED <<audit, log, call, calls, refusals>>

(* The transaction may make its next call.                                 *)
Ready(c) == IsOpen(c) /\ call[c].op = "none" /\ calls[c] < MaxCalls

Returned(c) ==
  /\ call' = [call EXCEPT ![c] = Idle]
  /\ calls' = [calls EXCEPT ![c] = @ + 1]
  /\ UNCHANGED <<audit, begun, refusals>>

Audited(c, a, action) ==
  log' = [log EXCEPT ![c] = [log[c] EXCEPT ![a] = [log[c][a] EXCEPT ![action] = @ + 1]]]

(* An UPDATE or a DELETE waits for the lock of a row it finds; one that     *)
(* finds none takes no lock.                                               *)
MayChange(c, a) == IF Latest(c, a) = Absent THEN CanAppend(c) ELSE CanWrite(c, a)

ChangesTo(c, a, class) ==
  WriteTxn(c, IF Latest(c, a) = Absent THEN NoRows ELSE [row \in {a} |-> class])

(* A call that returns Err takes its whole transaction with it.            *)
Abandoned(c) ==
  /\ RollbackTxn(c)
  /\ log' = [log EXCEPT ![c] = NoEntries]
  /\ call' = [call EXCEPT ![c] = Idle]
  /\ calls' = [calls EXCEPT ![c] = 0]
  /\ UNCHANGED <<audit, begun>>

-----------------------------------------------------------------------------
(* put_source_blob.                                                        *)

(* The refusal is audited in the transaction that the refusal rolls back.  *)
PutTooLarge(c, a) ==
  /\ Ready(c)
  /\ a \in TooLarge
  /\ Abandoned(c)
  /\ refusals' = [refusals EXCEPT ![a] = @ + 1]

(* Mutant: an import is told "deduplicated" without looking.               *)
PutDeduplicatesBlindly(c) ==
  LET a == call[c].addr IN
  /\ call[c].op = "put"
  /\ CanAppend(c)
  /\ WriteTxn(c, NoRows)
  /\ Audited(c, a, "deduplicated")
  /\ Returned(c)

PutLooks(c, a, class) ==
  /\ Ready(c)
  /\ a \notin TooLarge
  /\ ReadTxn(c)
  /\ call' = [call EXCEPT ![c] = Looked("put", a, class, Sees(c, a))]
  /\ UNCHANGED <<audit, log, calls, begun, refusals>>

PutDeduplicates(c) ==
  LET a == call[c].addr IN
  /\ call[c].op = "put" /\ call[c].seen # Absent
  /\ CanAppend(c)
  /\ WriteTxn(c, NoRows)
  /\ Audited(c, a, "deduplicated")
  /\ Returned(c)

PutStores(c) ==
  LET a == call[c].addr IN
  /\ call[c].op = "put" /\ call[c].seen = Absent
  /\ CanWrite(c, a)
  /\ Latest(c, a) = Absent
  /\ WriteTxn(c, [row \in {a} |-> call[c].class])
  /\ Audited(c, a, "stored")
  /\ Returned(c)

(* Another transaction filed the blob first: a plain INSERT collides.      *)
PutCollides(c) ==
  LET a == call[c].addr IN
  /\ call[c].op = "put" /\ call[c].seen = Absent
  /\ CanWrite(c, a)
  /\ Latest(c, a) # Absent
  /\ Abandoned(c)
  /\ UNCHANGED refusals

-----------------------------------------------------------------------------
(* release_source_blob.                                                    *)

ReleaseLooks(c, a) ==
  /\ Ready(c)
  /\ ReadTxn(c)
  /\ call' = [call EXCEPT ![c] = Looked("release", a, Absent, Sees(c, a))]
  /\ UNCHANGED <<audit, log, calls, begun, refusals>>

(* Mutant: a release of nothing is recorded like any other.                *)
ReleaseOfNothingAsReleased(c) ==
  LET a == call[c].addr IN
  /\ call[c].op = "release" /\ call[c].seen = Absent
  /\ CanAppend(c)
  /\ WriteTxn(c, NoRows)
  /\ Audited(c, a, "released")
  /\ Returned(c)

ReleaseOfNothing(c) ==
  LET a == call[c].addr IN
  /\ call[c].op = "release" /\ call[c].seen = Absent
  /\ CanAppend(c)
  /\ WriteTxn(c, NoRows)
  /\ Audited(c, a, "void")
  /\ Returned(c)

ReleaseRefused(c) ==
  /\ call[c].op = "release" /\ call[c].seen # Absent
  /\ ~MayBeSwept(call[c].seen)
  /\ Abandoned(c)
  /\ UNCHANGED refusals

(* DELETE .. WHERE content_hash = ?: by address, whatever the class is by  *)
(* now, and without looking at how many rows went.                         *)
ReleaseDeletes(c) ==
  LET a == call[c].addr IN
  /\ call[c].op = "release" /\ call[c].seen # Absent
  /\ MayBeSwept(call[c].seen)
  /\ MayChange(c, a)
  /\ ChangesTo(c, a, Absent)
  /\ Audited(c, a, "released")
  /\ Returned(c)

-----------------------------------------------------------------------------
(* reclassify_source_blob: one UPDATE that reports whether it hit a row.   *)

Reclassify(c, a, class) ==
  /\ Ready(c)
  /\ MayChange(c, a)
  /\ ChangesTo(c, a, class)
  /\ IF Latest(c, a) = Absent THEN UNCHANGED log ELSE Audited(c, a, "reclassified")
  /\ Returned(c)

-----------------------------------------------------------------------------
(* The database refuses a blocked write: busy, a stale snapshot, a         *)
(* deadlock.                                                               *)
OnlyAudits(c) ==
  \/ call[c].op = "put" /\ call[c].seen # Absent
  \/ call[c].op = "release" /\ call[c].seen = Absent

Refused(c) ==
  /\ \/ OnlyAudits(c) /\ ~CanAppend(c)
     \/ call[c].op = "put" /\ call[c].seen = Absent /\ ~CanWrite(c, call[c].addr)
     \/ /\ call[c].op = "release" /\ MayBeSwept(call[c].seen)
        /\ ~MayChange(c, call[c].addr)
     \/ Ready(c) /\ \E a \in Addresses : ~MayChange(c, a)
  /\ Abandoned(c)
  /\ UNCHANGED refusals

Commit(c) ==
  /\ IsOpen(c)
  /\ call[c].op = "none"
  /\ calls[c] > 0
  /\ CommitTxn(c)
  /\ audit' = [a \in Addresses |->
                [k \in Actions |-> audit[a][k] + log[c][a][k]]]
  /\ log' = [log EXCEPT ![c] = NoEntries]
  /\ calls' = [calls EXCEPT ![c] = 0]
  /\ UNCHANGED <<call, begun, refusals>>

(* The closure returns an error of its own, or the process dies.           *)
Abort(c) ==
  /\ IsOpen(c)
  /\ Abandoned(c)
  /\ UNCHANGED refusals

Init ==
  /\ TransactionsInit([a \in Addresses |-> Absent])
  /\ audit = NoEntries
  /\ log = [c \in Conns |-> NoEntries]
  /\ call = [c \in Conns |-> Idle]
  /\ calls = [c \in Conns |-> 0]
  /\ begun = 0
  /\ refusals = [a \in Addresses |-> 0]

Put(c) ==
  \/ \E a \in Addresses : PutTooLarge(c, a)
  \/ \E a \in Addresses, class \in Classes : PutLooks(c, a, class)
  \/ PutDeduplicates(c) \/ PutStores(c) \/ PutCollides(c)

Release(c) ==
  \/ \E a \in Addresses : ReleaseLooks(c, a)
  \/ ReleaseOfNothing(c) \/ ReleaseRefused(c) \/ ReleaseDeletes(c)

Next ==
  \E c \in Conns :
    \/ Begin(c) \/ Put(c) \/ Release(c)
    \/ \E a \in Addresses, class \in Classes : Reclassify(c, a, class)
    \/ Refused(c) \/ Commit(c) \/ Abort(c)

Spec == Init /\ [][Next]_vars

-----------------------------------------------------------------------------
TypeOK ==
  /\ TransactionsTypeOK
  /\ audit \in [Addresses -> [Actions -> Nat]]
  /\ log \in [Conns -> [Addresses -> [Actions -> Nat]]]
  /\ call \in [Conns ->
       [op : {"none", "put", "release"}, addr : Addresses \union {Absent},
        class : Classes \union {Absent}, seen : Classes \union {Absent}]]
  /\ calls \in [Conns -> Nat]
  /\ begun \in Nat
  /\ refusals \in [Addresses -> Nat]

(* A blob committed as held is gone, and nothing reclassified it first.     *)
HoldBroken(a) ==
  /\ table[a] = "hold" /\ table'[a] = Absent
  /\ audit'[a]["reclassified"] = audit[a]["reclassified"]

(* blob.rs: "a sweep must not remove it".  A blob that is committed as     *)
(* held disappears only in a transaction that first reclassified it.       *)
HeldEvidenceKept ==
  [][\A a \in Addresses : ~HoldBroken(a)]_<<table, audit>>

(* The same where the database runs one writer at a time (SQLite).         *)
HeldEvidenceKeptInFile ==
  [][Serial => \A a \in Addresses : ~HoldBroken(a)]_<<table, audit>>

Filed(class) == IF class = Absent THEN 0 ELSE 1

(* "Retention decisions are auditable": in a SQLite file the trail         *)
(* accounts for what is on the shelf, one effective store more than        *)
(* releases exactly when a blob is there.  On either backend every store   *)
(* is answered by a release, or is of the blob that is there: two imports  *)
(* of the same bytes never both store them, also when neither transaction  *)
(* saw the other's row.                                                    *)
AuditBalances ==
  \A a \in Addresses :
    /\ audit[a]["stored"] <= audit[a]["released"] + Filed(table[a])
    /\ Serial => audit[a]["stored"] = audit[a]["released"] + Filed(table[a])

(* pipeline.rs takes BlobOutcome::Deduplicated to mean that the evidence   *)
(* is held: in a SQLite file a transaction that commits such an outcome    *)
(* leaves the blob there, unless it released the blob itself.              *)
DeduplicatedIsHeld ==
  [][Serial =>
       \A a \in Addresses :
         audit'[a]["deduplicated"] > audit[a]["deduplicated"] =>
           \/ table'[a] # Absent
           \/ audit'[a]["released"] > audit[a]["released"]]_<<table, audit>>

(* blob.rs: "every store, refusal, and release is appended to an audit     *)
(* log".                                                                   *)
RefusalIsAudited ==
  \A a \in Addresses : refusals[a] = audit[a]["refused"]
=============================================================================
