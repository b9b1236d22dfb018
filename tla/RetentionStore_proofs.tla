----------------------- MODULE RetentionStore_proofs ------------------------
(***************************************************************************)
(* Proofs about retained evidence, for any addresses, any number of        *)
(* processes and every bound, over either database.                        *)
(***************************************************************************)
EXTENDS RetentionStore, Transactions_proofs

(* A call in progress is of an open transaction and about an address; an   *)
(* import brings a class.                                                  *)
CallsOpen ==
  \A c \in Conns :
    call[c].op # "none" =>
      /\ IsOpen(c) /\ call[c].addr \in Addresses
      /\ call[c].op = "put" => call[c].class \in Classes

(* In a SQLite file what a call looked at is still what its transaction    *)
(* sees.                                                                   *)
SeenStands ==
  Serial =>
    \A c \in Conns :
      call[c].op # "none" =>
        mode[c] # "open" /\ call[c].seen = Sees(c, call[c].addr)

(* Only a transaction that writes has entries to commit.                   *)
WritersLog == \A c \in Conns : mode[c] # "writing" => log[c] = NoEntries

(* What the trail will say of an address if the transaction commits.       *)
WillBalance(c, a) ==
  LET stored   == log[c][a]["stored"]
      released == log[c][a]["released"] IN
  /\ own[c][a] = Untouched =>
       stored = 0 /\ (Serial => released = 0)
  /\ own[c][a] # Untouched =>
       /\ audit[a]["stored"] + stored <=
            audit[a]["released"] + released + Filed(own[c][a])
       /\ Serial =>
            audit[a]["stored"] + stored =
              audit[a]["released"] + released + Filed(own[c][a])

(* In a SQLite file a transaction that did not reclassify held evidence    *)
(* has not written its row.                                                *)
HoldStands(c, a) ==
  Serial /\ table[a] = "hold" /\ log[c][a]["reclassified"] = 0 =>
    own[c][a] = Untouched

(* In a SQLite file what a transaction found to be there is there, unless  *)
(* it released it since.                                                   *)
FoundStands(c, a) ==
  Serial /\ log[c][a]["deduplicated"] > 0 =>
    Latest(c, a) # Absent \/ log[c][a]["released"] > 0

IInv ==
  /\ TypeOK /\ TxnInv
  /\ CallsOpen /\ SeenStands /\ WritersLog
  /\ AuditBalances
  /\ \A c \in Conns, a \in Addresses :
       WillBalance(c, a) /\ HoldStands(c, a) /\ FoundStands(c, a)

-----------------------------------------------------------------------------
LEMMA ClassFacts ==
  /\ Values = Classes \union {Absent} /\ Absent \notin Classes
  /\ Untouched \notin Values /\ "hold" \in Classes
  BY RetentionAssumption, TransactionsAssumption DEF Classes, Absent

LEMMA NoEntriesType ==
  /\ NoEntries \in [Addresses -> [Actions -> Nat]]
  /\ \A a \in Addresses, k \in Actions : NoEntries[a][k] = 0
  BY DEF NoEntries

LEMMA InitSound == Init => IInv
<1> SUFFICES ASSUME Init PROVE IInv
  OBVIOUS
<1> USE ClassFacts
<1>1. TxnInv
  <2>1. [a \in Addresses |-> Absent] \in [Rows -> Values]
    BY DEF Addresses
  <2>2. QED
    BY <2>1, TransactionsStartSound DEF Init
<1>2. TypeOK
  BY <1>1, NoEntriesType DEF TxnInv, TypeOK, Init, Idle
<1>3. /\ \A a \in Addresses : table[a] = Absent
      /\ audit = NoEntries
      /\ \A c \in Conns : /\ log[c] = NoEntries /\ call[c] = Idle
                          /\ \A a \in Addresses : own[c][a] = Untouched
  BY DEF Init, TransactionsInit, Blank, Addresses
<1>4. CallsOpen /\ SeenStands /\ WritersLog
  BY <1>3 DEF CallsOpen, SeenStands, WritersLog, Idle
<1>5. AuditBalances
  BY <1>3, NoEntriesType DEF AuditBalances, Filed, Actions
<1>6. ASSUME NEW c \in Conns, NEW a \in Addresses
      PROVE  WillBalance(c, a) /\ HoldStands(c, a) /\ FoundStands(c, a)
  BY <1>3, NoEntriesType DEF WillBalance, HoldStands, FoundStands, Actions
<1>7. QED
  BY <1>1, <1>2, <1>4, <1>5, <1>6 DEF IInv

LEMMA BeginSound ==
  ASSUME IInv, NEW c \in Conns, Begin(c)
  PROVE  IInv'
<1> USE DEF IInv
<1>1. /\ mode[c] = "closed" /\ mode' = [mode EXCEPT ![c] = "open"]
      /\ begun' = begun + 1
      /\ UNCHANGED <<backend, table, snap, own, audit, log, call, calls,
                     refusals>>
  BY DEF Begin, BeginTxn
<1>2. TxnInv'
  BY BeginKeeps DEF Begin
<1>3. TypeOK'
  BY <1>1, <1>2 DEF TxnInv, TypeOK
<1>4. CallsOpen' /\ SeenStands'
  BY <1>1 DEF CallsOpen, SeenStands, IsOpen, Sees, Serial, TypeOK,
              TransactionsTypeOK
<1>5. WritersLog'
  BY <1>1 DEF WritersLog, TypeOK, TransactionsTypeOK
<1>6. AuditBalances'
  BY <1>1 DEF AuditBalances, Serial
<1>7. ASSUME NEW d \in Conns, NEW a \in Addresses
      PROVE  WillBalance(d, a)' /\ HoldStands(d, a)' /\ FoundStands(d, a)'
  BY <1>1 DEF WillBalance, HoldStands, FoundStands, Latest, Serial
<1>8. QED
  BY <1>2, <1>3, <1>4, <1>5, <1>6, <1>7

LEMMA AbandonedSound ==
  ASSUME IInv, NEW c \in Conns, Abandoned(c),
         refusals' \in [Addresses -> Nat]
  PROVE  IInv'
<1> USE DEF IInv
<1>1. /\ mode' = [mode EXCEPT ![c] = "closed"]
      /\ snap' = [snap EXCEPT ![c] = Blank]
      /\ own' = [own EXCEPT ![c] = Blank]
      /\ log' = [log EXCEPT ![c] = NoEntries]
      /\ call' = [call EXCEPT ![c] = Idle]
      /\ calls' = [calls EXCEPT ![c] = 0]
      /\ UNCHANGED <<backend, table, audit, begun>>
  BY DEF Abandoned, RollbackTxn, CloseTxn
<1>2. TxnInv'
  BY RollbackKeeps DEF Abandoned
<1>3. TypeOK'
  BY <1>1, <1>2, NoEntriesType DEF TxnInv, TypeOK, Idle
<1>4. CallsOpen' /\ SeenStands'
  BY <1>1 DEF CallsOpen, SeenStands, IsOpen, Sees, Serial, TypeOK,
              TransactionsTypeOK, Idle
<1>5. WritersLog'
  BY <1>1 DEF WritersLog, TypeOK, TransactionsTypeOK
<1>6. AuditBalances'
  BY <1>1 DEF AuditBalances, Serial
<1>7. ASSUME NEW d \in Conns, NEW a \in Addresses
      PROVE  WillBalance(d, a)' /\ HoldStands(d, a)' /\ FoundStands(d, a)'
  <2>1. CASE d = c
    <3>1. own'[c][a] = Untouched /\ log'[c] = NoEntries
      BY <1>1 DEF Blank, Addresses, TypeOK, TransactionsTypeOK
    <3>2. QED
      BY <2>1, <3>1, NoEntriesType
         DEF WillBalance, HoldStands, FoundStands, Actions
  <2>2. CASE d # c
    <3>1. own'[d] = own[d] /\ log'[d] = log[d]
      BY <1>1, <2>2 DEF TypeOK, TransactionsTypeOK
    <3>2. QED
      BY <1>1, <3>1 DEF WillBalance, HoldStands, FoundStands, Latest, Serial
  <2>3. QED
    BY <2>1, <2>2
<1>8. QED
  BY <1>2, <1>3, <1>4, <1>5, <1>6, <1>7

(* A look at the shelf before the call that acts on it.                    *)
LEMMA LooksSound ==
  ASSUME IInv, NEW c \in Conns, NEW a \in Addresses,
         NEW op \in {"put", "release"}, NEW class \in Classes \union {Absent},
         op = "put" => class \in Classes,
         Ready(c), ReadTxn(c),
         call' = [call EXCEPT ![c] = Looked(op, a, class, Sees(c, a))],
         UNCHANGED <<audit, log, calls, begun, refusals>>
  PROVE  IInv'
<1> USE DEF IInv
<1>1. /\ IsOpen(c) /\ call[c].op = "none"
      /\ mode' = [mode EXCEPT ![c] =
                    IF Serial /\ mode[c] = "open" THEN "reading" ELSE mode[c]]
      /\ snap' = [snap EXCEPT ![c] = Snapshot(c)]
      /\ UNCHANGED <<backend, table, own>>
  BY DEF Ready, ReadTxn
<1>2. TxnInv'
  BY <1>1, ReadKeeps
<1>3. Sees(c, a) \in Classes \union {Absent}
  BY <1>1, SeesAValue, ClassFacts DEF Addresses
<1>4. TypeOK'
  BY <1>1, <1>2, <1>3 DEF TxnInv, TypeOK, Looked
<1>5. CallsOpen'
  BY <1>1 DEF CallsOpen, IsOpen, TypeOK, TransactionsTypeOK, Looked
<1>6. SeenStands'
  <2>1. Serial => Sees(c, a)' = Sees(c, a)
    BY <1>1 DEF Sees, Snapshot, Serial, IsOpen, TypeOK, TransactionsTypeOK
  <2>2. \A d \in Conns \ {c}, b \in Addresses : Sees(d, b)' = Sees(d, b)
    BY <1>1 DEF Sees, Serial, TypeOK, TransactionsTypeOK
  <2>3. /\ call'[c].addr = a /\ call'[c].seen = Sees(c, a)
        /\ \A d \in Conns \ {c} : call'[d] = call[d] /\ mode'[d] = mode[d]
        /\ Serial => mode'[c] # "open"
    BY <1>1 DEF TypeOK, TransactionsTypeOK, Looked
  <2>4. Serial' = Serial
    BY <1>1 DEF Serial
  <2>5. QED
    BY <2>1, <2>2, <2>3, <2>4 DEF SeenStands, CallsOpen
<1>7. WritersLog'
  BY <1>1 DEF WritersLog, TypeOK, TransactionsTypeOK
<1>8. AuditBalances'
  BY <1>1 DEF AuditBalances, Serial
<1>9. ASSUME NEW d \in Conns, NEW b \in Addresses
      PROVE  WillBalance(d, b)' /\ HoldStands(d, b)' /\ FoundStands(d, b)'
  BY <1>1 DEF WillBalance, HoldStands, FoundStands, Latest, Serial
<1>10. QED
  BY <1>2, <1>4, <1>5, <1>6, <1>7, <1>8, <1>9

-----------------------------------------------------------------------------
(* One more entry for an address, among those the transaction has.         *)
LEMMA AuditedLog ==
  ASSUME TypeOK, NEW c \in Conns, NEW a \in Addresses, NEW action \in Actions,
         Audited(c, a, action)
  PROVE  /\ log' \in [Conns -> [Addresses -> [Actions -> Nat]]]
         /\ \A d \in Conns, b \in Addresses, k \in Actions :
              log'[d][b][k] =
                IF d = c /\ b = a /\ k = action THEN log[d][b][k] + 1
                ELSE log[d][b][k]
<1> DEFINE entries == [log[c][a] EXCEPT ![action] = log[c][a][action] + 1]
           mine == [log[c] EXCEPT ![a] = entries]
<1>1. log \in [Conns -> [Addresses -> [Actions -> Nat]]]
  BY DEF TypeOK
<1>2. log' = [log EXCEPT ![c] = mine]
  BY DEF Audited
<1>3. /\ entries \in [Actions -> Nat]
      /\ \A k \in Actions :
           entries[k] = IF k = action THEN log[c][a][k] + 1 ELSE log[c][a][k]
  BY <1>1
<1> HIDE DEF entries
<1>4. /\ mine \in [Addresses -> [Actions -> Nat]]
      /\ \A b \in Addresses : mine[b] = IF b = a THEN entries ELSE log[c][b]
  BY <1>1, <1>3
<1> HIDE DEF mine
<1>5. \A d \in Conns : log'[d] = IF d = c THEN mine ELSE log[d]
  BY <1>1, <1>2
<1>6. QED
  BY <1>1, <1>2, <1>3, <1>4, <1>5

(* What the connection's own entries about the address are afterwards.     *)
LEMMA AuditedHere ==
  ASSUME TypeOK, NEW c \in Conns, NEW a \in Addresses, NEW action \in Actions,
         Audited(c, a, action)
  PROVE  \A k \in Actions :
           log'[c][a][k] = IF k = action THEN log[c][a][k] + 1
                           ELSE log[c][a][k]
BY AuditedLog

(* A call that writes and returns: it keeps the invariant if it keeps the  *)
(* three promises about the address it is about.                           *)
LEMMA WrittenSound ==
  ASSUME IInv, NEW c \in Conns, NEW a \in Addresses, NEW values,
         IsOpen(c), HasLocks(c, DOMAIN values), WriteTxn(c, values),
         DOMAIN values \subseteq {a},
         \A b \in DOMAIN values : values[b] \in Values,
         Returned(c),
         \/ UNCHANGED log
         \/ \E action \in Actions : Audited(c, a, action),
         WillBalance(c, a)', HoldStands(c, a)', FoundStands(c, a)'
  PROVE  IInv'
<1> USE DEF IInv
<1>1. /\ mode' = [mode EXCEPT ![c] = "writing"]
      /\ snap' = [snap EXCEPT ![c] = Snapshot(c)]
      /\ \A d \in Conns, b \in Addresses :
           own'[d][b] = IF d = c /\ b \in DOMAIN values THEN values[b]
                        ELSE own[d][b]
      /\ UNCHANGED <<backend, table>>
  BY DEF WriteTxn, Addresses, TypeOK, TransactionsTypeOK
<1>2. /\ call' = [call EXCEPT ![c] = Idle]
      /\ calls' = [calls EXCEPT ![c] = calls[c] + 1]
      /\ UNCHANGED <<audit, begun, refusals>>
  BY DEF Returned
<1>3. TxnInv'
  <2>1. \A b \in DOMAIN values : b \in Rows /\ values[b] \in Values
    BY DEF Addresses
  <2>2. QED
    BY <2>1, WriteKeeps
<1>4. /\ log' \in [Conns -> [Addresses -> [Actions -> Nat]]]
      /\ \A d \in Conns, b \in Addresses, k \in Actions :
           d # c \/ b # a => log'[d][b][k] = log[d][b][k]
      /\ \A d \in Conns \ {c} : log'[d] = log[d]
  <2>1. CASE UNCHANGED log
    BY <2>1 DEF TypeOK
  <2>2. ASSUME NEW action \in Actions, Audited(c, a, action)
        PROVE  \A d \in Conns \ {c} : log'[d] = log[d]
    BY <2>2 DEF Audited, TypeOK
  <2>3. QED
    BY <2>1, <2>2, AuditedLog
<1>5. TypeOK'
  <2>1. log' \in [Conns -> [Addresses -> [Actions -> Nat]]]
    BY <1>4
  <2>2. call' \in [Conns ->
          [op : {"none", "put", "release"}, addr : Addresses \union {Absent},
           class : Classes \union {Absent}, seen : Classes \union {Absent}]]
    BY <1>2 DEF TypeOK, Idle
  <2>3. calls' \in [Conns -> Nat]
    BY <1>2 DEF TypeOK
  <2>4. QED
    BY <1>2, <1>3, <2>1, <2>2, <2>3 DEF TxnInv, TypeOK
<1>6. CallsOpen'
  BY <1>1, <1>2 DEF CallsOpen, IsOpen, TypeOK, TransactionsTypeOK, Idle
<1>7. SeenStands'
  <2>1. \A d \in Conns \ {c}, b \in Addresses : Sees(d, b)' = Sees(d, b)
    BY <1>1 DEF Sees, Serial, TypeOK, TransactionsTypeOK
  <2>2. /\ call'[c].op = "none" /\ Serial' = Serial
        /\ \A d \in Conns \ {c} : call'[d] = call[d] /\ mode'[d] = mode[d]
    BY <1>1, <1>2 DEF Serial, TypeOK, TransactionsTypeOK, Idle
  <2>3. QED
    BY <2>1, <2>2 DEF SeenStands, CallsOpen
<1>8. WritersLog'
  BY <1>1, <1>4 DEF WritersLog, TypeOK, TransactionsTypeOK
<1>9. AuditBalances'
  BY <1>1, <1>2 DEF AuditBalances, Serial
<1>10. ASSUME NEW d \in Conns, NEW b \in Addresses
       PROVE  WillBalance(d, b)' /\ HoldStands(d, b)' /\ FoundStands(d, b)'
  <2>1. CASE d = c /\ b = a
    BY <2>1
  <2>2. CASE ~(d = c /\ b = a)
    <3>1. /\ own'[d][b] = own[d][b]
          /\ \A k \in Actions : log'[d][b][k] = log[d][b][k]
      BY <1>1, <1>4, <2>2
    <3>2. {"stored", "released", "reclassified", "deduplicated"}
            \subseteq Actions
      BY DEF Actions
    <3>3. WillBalance(d, b) /\ HoldStands(d, b) /\ FoundStands(d, b)
      OBVIOUS
    <3>4. QED
      BY <1>1, <1>2, <3>1, <3>2, <3>3
         DEF WillBalance, HoldStands, FoundStands, Latest, Serial
  <2>3. QED
    BY <2>1, <2>2
<1>11. QED
  BY <1>3, <1>5, <1>6, <1>7, <1>8, <1>9, <1>10

(* The locks an entry needs, and those a change of a row needs.            *)
LEMMA AppendLocks ==
  ASSUME NEW c \in Conns, CanAppend(c)
  PROVE  HasLocks(c, DOMAIN NoRows) /\ DOMAIN NoRows = {}
  BY DEF CanAppend, HasLocks, NoRows

LEMMA RowLocks ==
  ASSUME NEW c \in Conns, NEW a \in Addresses, CanWrite(c, a)
  PROVE  HasLocks(c, {a})
  BY DEF CanWrite, HasLocks

(* With the write lock of a SQLite file within reach, what was looked at   *)
(* is what an UPDATE finds.                                                *)
LEMMA SeenIsLatest ==
  ASSUME IInv, NEW c \in Conns, call[c].op # "none",
         Serial, MayTakeLock(c)
  PROVE  call[c].seen = Latest(c, call[c].addr)
<1>1. IsOpen(c) /\ call[c].addr \in Rows
  BY DEF IInv, CallsOpen, Addresses
<1>2. mode[c] # "stale"
  BY DEF MayTakeLock
<1>3. Sees(c, call[c].addr) = Latest(c, call[c].addr)
  BY <1>1, <1>2, SeesTheLatest DEF IInv
<1>4. QED
  BY <1>3 DEF IInv, SeenStands

(* The numbers the three promises about an address are made of.            *)
LEMMA Entries ==
  ASSUME TypeOK, NEW c \in Conns, NEW a \in Addresses
  PROVE  /\ {"stored", "released", "reclassified", "deduplicated", "void"}
              \subseteq Actions
         /\ \A k \in Actions : log[c][a][k] \in Nat /\ audit[a][k] \in Nat
         /\ own[c][a] \in Values \union {Untouched}
         /\ table[a] \in Values
  BY DEF TypeOK, TransactionsTypeOK, Actions, Addresses

LEMMA PutDeduplicatesSound ==
  ASSUME IInv, NEW c \in Conns, PutDeduplicates(c)
  PROVE  IInv'
<1>1. PICK a \in Addresses :
        /\ call[c].addr = a
        /\ call[c].op = "put" /\ call[c].seen # Absent /\ IsOpen(c)
        /\ CanAppend(c) /\ WriteTxn(c, NoRows)
        /\ Audited(c, a, "deduplicated") /\ Returned(c)
  BY DEF PutDeduplicates, IInv, CallsOpen
<1>2. Serial => Latest(c, a) # Absent
  BY <1>1, SeenIsLatest DEF CanAppend
<1>3. /\ own'[c][a] = own[c][a] /\ table' = table /\ backend' = backend
      /\ audit' = audit
  BY <1>1 DEF WriteTxn, NoRows, Returned, Addresses, IInv, TypeOK,
              TransactionsTypeOK
<1>4. \A k \in Actions :
        log'[c][a][k] = IF k = "deduplicated" THEN log[c][a][k] + 1
                        ELSE log[c][a][k]
  <2>1. TypeOK /\ "deduplicated" \in Actions /\ Audited(c, a, "deduplicated")
    BY <1>1 DEF Actions, IInv
  <2>2. QED
    BY <2>1, AuditedHere
<1>5. WillBalance(c, a) /\ HoldStands(c, a) /\ FoundStands(c, a) /\ TypeOK
  BY DEF IInv
<1>6. WillBalance(c, a)' /\ HoldStands(c, a)' /\ FoundStands(c, a)'
  BY <1>2, <1>3, <1>4, <1>5, Entries
     DEF WillBalance, HoldStands, FoundStands, Latest, Serial
<1>7. "deduplicated" \in Actions
  BY DEF Actions
<1>8. QED
  BY <1>1, <1>6, <1>7, AppendLocks, WrittenSound

LEMMA ReleaseOfNothingSound ==
  ASSUME IInv, NEW c \in Conns, ReleaseOfNothing(c)
  PROVE  IInv'
<1>1. PICK a \in Addresses :
        /\ call[c].op = "release" /\ IsOpen(c)
        /\ CanAppend(c) /\ WriteTxn(c, NoRows)
        /\ Audited(c, a, "void") /\ Returned(c)
  BY DEF ReleaseOfNothing, IInv, CallsOpen
<1>2. /\ own'[c][a] = own[c][a] /\ table' = table /\ backend' = backend
      /\ audit' = audit
  BY <1>1 DEF WriteTxn, NoRows, Returned, Addresses, IInv, TypeOK,
              TransactionsTypeOK
<1>3. \A k \in Actions :
        log'[c][a][k] = IF k = "void" THEN log[c][a][k] + 1
                        ELSE log[c][a][k]
  <2>1. TypeOK /\ "void" \in Actions /\ Audited(c, a, "void")
    BY <1>1 DEF Actions, IInv
  <2>2. QED
    BY <2>1, AuditedHere
<1>4. WillBalance(c, a) /\ HoldStands(c, a) /\ FoundStands(c, a) /\ TypeOK
  BY DEF IInv
<1>5. WillBalance(c, a)' /\ HoldStands(c, a)' /\ FoundStands(c, a)'
  BY <1>2, <1>3, <1>4, Entries
     DEF WillBalance, HoldStands, FoundStands, Latest, Serial
<1>6. "void" \in Actions
  BY DEF Actions
<1>7. QED
  BY <1>1, <1>5, <1>6, AppendLocks, WrittenSound

(* What the balance says of a row at the moment a transaction changes it.  *)
LEMMA BalanceOfLatest ==
  ASSUME IInv, NEW c \in Conns, NEW a \in Addresses
  PROVE  LET stored   == log[c][a]["stored"]
             released == log[c][a]["released"] IN
         /\ audit[a]["stored"] + stored <=
              audit[a]["released"] + released + Filed(Latest(c, a))
         /\ Serial =>
              audit[a]["stored"] + stored =
                audit[a]["released"] + released + Filed(Latest(c, a))
<1>1. WillBalance(c, a) /\ TypeOK
  BY DEF IInv
<1>2. /\ audit[a]["stored"] <= audit[a]["released"] + Filed(table[a])
      /\ Serial => audit[a]["stored"] = audit[a]["released"] + Filed(table[a])
  BY DEF IInv, AuditBalances
<1>3. /\ log[c][a]["stored"] \in Nat /\ log[c][a]["released"] \in Nat
      /\ audit[a]["stored"] \in Nat /\ audit[a]["released"] \in Nat
  BY <1>1, Entries
<1>4. Filed(table[a]) \in Nat
  BY DEF Filed
<1>5. QED
  BY <1>1, <1>2, <1>3, <1>4 DEF WillBalance, Latest

LEMMA PutStoresSound ==
  ASSUME IInv, NEW c \in Conns, PutStores(c)
  PROVE  IInv'
<1>1. PICK a \in Addresses, class \in Classes :
        /\ IsOpen(c) /\ CanWrite(c, a) /\ Latest(c, a) = Absent
        /\ WriteTxn(c, [row \in {a} |-> class])
        /\ Audited(c, a, "stored") /\ Returned(c)
  BY DEF PutStores, IInv, CallsOpen
<1>2. /\ own'[c][a] = class /\ table' = table /\ backend' = backend
      /\ audit' = audit /\ Serial' = Serial
  BY <1>1 DEF WriteTxn, Returned, Addresses, IInv, TypeOK, TransactionsTypeOK,
              Serial
<1>3. \A k \in Actions :
        log'[c][a][k] = IF k = "stored" THEN log[c][a][k] + 1
                        ELSE log[c][a][k]
  <2>1. TypeOK /\ "stored" \in Actions /\ Audited(c, a, "stored")
    BY <1>1 DEF Actions, IInv
  <2>2. QED
    BY <2>1, AuditedHere
<1>4. WillBalance(c, a) /\ HoldStands(c, a) /\ TypeOK
  BY DEF IInv
<1>5. class # Untouched /\ Filed(class) = 1 /\ Filed(Absent) = 0
  BY ClassFacts DEF Filed
<1>6. WillBalance(c, a)'
  BY <1>1, <1>2, <1>3, <1>4, <1>5, Entries, BalanceOfLatest DEF WillBalance
<1>7. HoldStands(c, a)'
  <2>1. table[a] = "hold" => own[c][a] = Absent /\ own[c][a] # Untouched
    BY <1>1, ClassFacts DEF Latest
  <2>2. log'[c][a]["reclassified"] = log[c][a]["reclassified"]
    BY <1>3, <1>4, Entries
  <2>3. QED
    BY <1>2, <1>4, <2>1, <2>2 DEF HoldStands
<1>8. FoundStands(c, a)'
  BY <1>2, <1>5, ClassFacts DEF FoundStands, Latest
<1>9. /\ DOMAIN [row \in {a} |-> class] = {a}
      /\ [row \in {a} |-> class][a] \in Values /\ "stored" \in Actions
  BY ClassFacts DEF Actions
<1>10. QED
  BY <1>1, <1>6, <1>7, <1>8, <1>9, RowLocks, WrittenSound

(* An UPDATE or a DELETE of an address, whether it finds a row or not.     *)
LEMMA ChangeRows ==
  ASSUME IInv, NEW c \in Conns, NEW a \in Addresses, NEW class \in Values,
         MayChange(c, a), ChangesTo(c, a, class), Returned(c)
  PROVE  \E values :
           /\ WriteTxn(c, values) /\ HasLocks(c, DOMAIN values)
           /\ DOMAIN values \subseteq {a}
           /\ \A b \in DOMAIN values : values[b] \in Values
           /\ own'[c][a] = IF Latest(c, a) = Absent THEN own[c][a] ELSE class
           /\ table' = table /\ audit' = audit /\ Serial' = Serial
<1>1. CASE Latest(c, a) = Absent
  <2>1. WriteTxn(c, NoRows) /\ HasLocks(c, DOMAIN NoRows) /\ DOMAIN NoRows = {}
    BY <1>1, AppendLocks DEF MayChange, ChangesTo
  <2>2. /\ own'[c][a] = own[c][a] /\ table' = table /\ audit' = audit
        /\ Serial' = Serial
    BY <2>1 DEF WriteTxn, NoRows, Returned, Addresses, IInv, TypeOK,
                TransactionsTypeOK, Serial
  <2>3. QED
    BY <1>1, <2>1, <2>2
<1>2. CASE Latest(c, a) # Absent
  <2> DEFINE values == [row \in {a} |-> class]
  <2>1. /\ WriteTxn(c, values) /\ HasLocks(c, {a}) /\ DOMAIN values = {a}
        /\ values[a] \in Values
    BY <1>2, RowLocks DEF MayChange, ChangesTo
  <2>2. /\ own'[c][a] = class /\ table' = table /\ audit' = audit
        /\ Serial' = Serial
    BY <2>1 DEF WriteTxn, Returned, Addresses, IInv, TypeOK,
                TransactionsTypeOK, Serial
  <2> HIDE DEF values
  <2>3. QED
    BY <1>2, <2>1, <2>2
<1>3. QED
  BY <1>1, <1>2

LEMMA ReleaseDeletesSound ==
  ASSUME IInv, NEW c \in Conns, ReleaseDeletes(c)
  PROVE  IInv'
<1>1. PICK a \in Addresses :
        /\ call[c].addr = a /\ call[c].op = "release"
        /\ call[c].seen # Absent /\ MayBeSwept(call[c].seen)
        /\ IsOpen(c) /\ MayChange(c, a) /\ ChangesTo(c, a, Absent)
        /\ Audited(c, a, "released") /\ Returned(c)
  BY DEF ReleaseDeletes, IInv, CallsOpen
<1>2. Absent \in Values /\ Absent # Untouched
  BY ClassFacts
<1>3. PICK values :
        /\ WriteTxn(c, values) /\ HasLocks(c, DOMAIN values)
        /\ DOMAIN values \subseteq {a}
        /\ \A b \in DOMAIN values : values[b] \in Values
        /\ own'[c][a] = IF Latest(c, a) = Absent THEN own[c][a] ELSE Absent
        /\ table' = table /\ audit' = audit /\ Serial' = Serial
  BY <1>1, <1>2, ChangeRows
<1>4. \A k \in Actions :
        log'[c][a][k] = IF k = "released" THEN log[c][a][k] + 1
                        ELSE log[c][a][k]
  <2>1. TypeOK /\ "released" \in Actions /\ Audited(c, a, "released")
    BY <1>1 DEF Actions, IInv
  <2>2. QED
    BY <2>1, AuditedHere
<1>5. WillBalance(c, a) /\ HoldStands(c, a) /\ FoundStands(c, a) /\ TypeOK
  BY DEF IInv
<1>6. Serial => Latest(c, a) # Absent /\ Latest(c, a) # "hold"
  <2> SUFFICES ASSUME Serial
               PROVE  Latest(c, a) # Absent /\ Latest(c, a) # "hold"
    OBVIOUS
  <2>1. MayTakeLock(c)
    BY <1>1 DEF MayChange, CanAppend, CanWrite
  <2>2. call[c].seen = Latest(c, a)
    BY <1>1, <2>1, SeenIsLatest
  <2>3. QED
    BY <1>1, <2>2 DEF MayBeSwept
<1>7. WillBalance(c, a)'
  <2>1. Filed(Absent) = 0 /\ (Latest(c, a) # Absent => Filed(Latest(c, a)) = 1)
    BY DEF Filed
  <2>2. /\ log'[c][a]["stored"] = log[c][a]["stored"]
        /\ log'[c][a]["released"] = log[c][a]["released"] + 1
        /\ log[c][a]["stored"] \in Nat /\ log[c][a]["released"] \in Nat
        /\ audit[a]["stored"] \in Nat /\ audit[a]["released"] \in Nat
    BY <1>4, <1>5, Entries
  <2>3. CASE Latest(c, a) = Absent
    <3>1. own'[c][a] = own[c][a] /\ ~Serial
      BY <1>3, <1>6, <2>3
    <3>2. own[c][a] # Untouched => own[c][a] = Absent
      BY <2>3 DEF Latest
    <3>3. QED
      BY <1>3, <1>5, <2>1, <2>2, <3>1, <3>2 DEF WillBalance
  <2>4. CASE Latest(c, a) # Absent
    <3>1. own'[c][a] = Absent
      BY <1>3, <2>4
    <3>2. QED
      BY <1>2, <1>3, <2>1, <2>2, <2>4, <3>1, BalanceOfLatest DEF WillBalance
  <2>5. QED
    BY <2>3, <2>4
<1>8. HoldStands(c, a)'
  <2>1. log'[c][a]["reclassified"] = log[c][a]["reclassified"]
    BY <1>4, <1>5, Entries
  <2>2. HoldStands(c, a) /\ (Serial => Latest(c, a) # "hold")
    BY <1>5, <1>6
  <2>3. QED
    BY <1>3, <2>1, <2>2 DEF HoldStands, Latest
<1>9. FoundStands(c, a)'
  <2>1. log'[c][a]["released"] > 0
    BY <1>4, <1>5, Entries
  <2>2. QED
    BY <2>1 DEF FoundStands
<1>10. "released" \in Actions
  BY DEF Actions
<1>11. QED
  BY <1>1, <1>3, <1>7, <1>8, <1>9, <1>10, WrittenSound

LEMMA ReclassifySound ==
  ASSUME IInv, NEW c \in Conns, NEW a \in Addresses, NEW class \in Classes,
         Reclassify(c, a, class)
  PROVE  IInv'
<1>1. /\ IsOpen(c) /\ MayChange(c, a) /\ ChangesTo(c, a, class)
      /\ Latest(c, a) = Absent => log' = log
      /\ Latest(c, a) # Absent => Audited(c, a, "reclassified")
      /\ Returned(c)
  BY DEF Reclassify, Ready
<1>2. class \in Values /\ class # Untouched /\ Filed(class) = 1
  BY ClassFacts DEF Filed
<1>3. PICK values :
        /\ WriteTxn(c, values) /\ HasLocks(c, DOMAIN values)
        /\ DOMAIN values \subseteq {a}
        /\ \A b \in DOMAIN values : values[b] \in Values
        /\ own'[c][a] = IF Latest(c, a) = Absent THEN own[c][a] ELSE class
        /\ table' = table /\ audit' = audit /\ Serial' = Serial
  BY <1>1, <1>2, ChangeRows
<1>4. WillBalance(c, a) /\ HoldStands(c, a) /\ FoundStands(c, a) /\ TypeOK
  BY DEF IInv
<1>5. "reclassified" \in Actions
  BY DEF Actions
<1>6. CASE Latest(c, a) = Absent
  <2>1. own'[c][a] = own[c][a] /\ log' = log
    BY <1>1, <1>3, <1>6
  <2>2. WillBalance(c, a)' /\ HoldStands(c, a)' /\ FoundStands(c, a)'
    BY <1>3, <1>4, <2>1
       DEF WillBalance, HoldStands, FoundStands, Latest
  <2>3. QED
    BY <1>1, <1>3, <2>1, <2>2, WrittenSound
<1>7. CASE Latest(c, a) # Absent
  <2>1. own'[c][a] = class /\ Audited(c, a, "reclassified")
    BY <1>1, <1>3, <1>7
  <2>2. /\ log'[c][a]["stored"] = log[c][a]["stored"]
        /\ log'[c][a]["released"] = log[c][a]["released"]
        /\ log'[c][a]["reclassified"] = log[c][a]["reclassified"] + 1
        /\ log[c][a]["reclassified"] \in Nat
    BY <1>4, <1>5, <2>1, AuditedLog, Entries
  <2>3. Filed(Latest(c, a)) = 1
    BY <1>7 DEF Filed
  <2>4. WillBalance(c, a)'
    BY <1>2, <1>3, <2>1, <2>2, <2>3, BalanceOfLatest DEF WillBalance
  <2>5. HoldStands(c, a)'
    BY <2>2 DEF HoldStands
  <2>6. FoundStands(c, a)'
    BY <1>2, <2>1, ClassFacts DEF FoundStands, Latest
  <2>7. QED
    BY <1>1, <1>3, <1>5, <2>1, <2>4, <2>5, <2>6, WrittenSound
<1>8. QED
  BY <1>6, <1>7

-----------------------------------------------------------------------------
(* What a commit publishes, and that it publishes nothing behind the back  *)
(* of another writer of a SQLite file.                                     *)
LEMMA CommitPublishes ==
  ASSUME IInv, NEW c \in Conns, Commit(c)
  PROVE  /\ \A a \in Addresses : table'[a] = Latest(c, a)
         /\ \A a \in Addresses, k \in Actions :
              audit'[a][k] = audit[a][k] + log[c][a][k]
         /\ \A d \in Conns \ {c} :
              Serial /\ mode[d] = "writing" =>
                /\ table' = table
                /\ \A a \in Addresses, k \in Actions :
                     audit'[a][k] = audit[a][k]
<1>1. CommitTxn(c)
  BY DEF Commit
<1>2. \A a \in Addresses : table'[a] = Latest(c, a)
  BY <1>1 DEF CommitTxn, Addresses
<1>3. \A a \in Addresses, k \in Actions :
        audit'[a][k] = audit[a][k] + log[c][a][k]
  BY DEF Commit
<1>4. ASSUME NEW d \in Conns \ {c}, Serial, mode[d] = "writing"
      PROVE  /\ table' = table
             /\ \A a \in Addresses, k \in Actions : audit'[a][k] = audit[a][k]
  <2>1. mode[c] # "writing"
    BY <1>4 DEF IInv, TxnInv, OneWriter
  <2>2. table' = table
    BY <1>1, <2>1, CommitChanges DEF IInv
  <2>3. log[c] = NoEntries
    BY <2>1 DEF IInv, WritersLog
  <2>4. \A a \in Addresses, k \in Actions : audit[a][k] \in Nat
    BY DEF IInv, TypeOK
  <2>5. QED
    BY <1>3, <2>2, <2>3, <2>4, NoEntriesType
<1>5. QED
  BY <1>2, <1>3, <1>4

LEMMA CommitSound ==
  ASSUME IInv, NEW c \in Conns, Commit(c)
  PROVE  IInv'
<1>1. /\ CommitTxn(c)
      /\ audit' = [a \in Addresses |->
                     [k \in Actions |-> audit[a][k] + log[c][a][k]]]
      /\ log' = [log EXCEPT ![c] = NoEntries]
      /\ calls' = [calls EXCEPT ![c] = 0]
      /\ call[c].op = "none"
      /\ UNCHANGED <<call, begun, refusals>>
  BY DEF Commit
<1>2. /\ snap' = [snap EXCEPT ![c] = Blank]
      /\ own' = [own EXCEPT ![c] = Blank]
      /\ \A d \in Conns :
           /\ d = c => mode'[d] = "closed"
           /\ d # c => \/ mode'[d] = mode[d]
                       \/ mode[d] = "reading" /\ mode'[d] = "stale"
      /\ Serial' = Serial
  BY <1>1 DEF CommitTxn, CloseTxn, Serial
<1>3. TypeOK /\ TxnInv /\ TransactionsTypeOK
  BY DEF IInv, TxnInv
<1>4. TxnInv'
  BY <1>1, <1>3, CommitKeeps
<1>5. TypeOK'
  <2>1. audit' \in [Addresses -> [Actions -> Nat]]
    BY <1>1, <1>3 DEF TypeOK
  <2>2. log' \in [Conns -> [Addresses -> [Actions -> Nat]]]
    BY <1>1, <1>3, NoEntriesType DEF TypeOK
  <2>3. QED
    BY <1>1, <1>3, <1>4, <2>1, <2>2 DEF TxnInv, TypeOK
<1>6. \A d \in Conns \ {c} : own'[d] = own[d] /\ log'[d] = log[d]
  BY <1>1, <1>2, <1>3 DEF TypeOK, TransactionsTypeOK
<1>7. /\ log'[c] = NoEntries
      /\ \A a \in Addresses : own'[c][a] = Untouched
  BY <1>1, <1>2, <1>3 DEF TypeOK, TransactionsTypeOK, Blank, Addresses
<1>8. CallsOpen'
  BY <1>1, <1>2 DEF IInv, CallsOpen, IsOpen
<1>9. SeenStands'
  <2> SUFFICES ASSUME Serial, NEW d \in Conns, call[d].op # "none"
               PROVE  /\ mode'[d] # "open"
                      /\ call[d].seen = Sees(d, call[d].addr)'
    BY <1>1, <1>2 DEF SeenStands
  <2>1. d # c
    BY <1>1
  <2>2. /\ own'[d] = own[d] /\ snap'[d] = snap[d]
        /\ mode[d] # "open" /\ mode'[d] # "open"
    BY <1>2, <1>3, <2>1
       DEF IInv, SeenStands, TypeOK, TransactionsTypeOK
  <2>3. QED
    BY <1>1, <1>2, <2>2 DEF IInv, SeenStands, Sees
<1>10. WritersLog'
  <2> SUFFICES ASSUME NEW d \in Conns, mode'[d] # "writing"
               PROVE  log'[d] = NoEntries
    BY DEF WritersLog
  <2>1. d # c => mode[d] # "writing"
    BY <1>2
  <2>2. QED
    BY <1>6, <1>7, <2>1 DEF IInv, WritersLog
<1>11. AuditBalances'
  <2> SUFFICES ASSUME NEW a \in Addresses
               PROVE  /\ audit'[a]["stored"] <=
                           audit'[a]["released"] + Filed(table'[a])
                      /\ Serial =>
                           audit'[a]["stored"] =
                             audit'[a]["released"] + Filed(table'[a])
    BY <1>2 DEF AuditBalances
  <2>1. /\ table'[a] = Latest(c, a)
        /\ audit'[a]["stored"] = audit[a]["stored"] + log[c][a]["stored"]
        /\ audit'[a]["released"] = audit[a]["released"] + log[c][a]["released"]
    BY <1>3, CommitPublishes, Entries
  <2>2. QED
    BY <2>1, BalanceOfLatest
<1>12. ASSUME NEW d \in Conns, NEW a \in Addresses
       PROVE  WillBalance(d, a)' /\ HoldStands(d, a)' /\ FoundStands(d, a)'
  <2>1. CASE d = c
    BY <1>3, <1>7, <2>1, NoEntriesType, Entries
       DEF WillBalance, HoldStands, FoundStands
  <2>2. CASE d # c
    <3>1. own'[d] = own[d] /\ log'[d] = log[d]
      BY <1>6, <2>2
    <3>2. WillBalance(d, a) /\ HoldStands(d, a) /\ FoundStands(d, a)
      BY DEF IInv
    <3>3. mode[d] # "writing" => own[d][a] = Untouched /\ log[d] = NoEntries
      BY DEF IInv, TxnInv, OwnsWhatItWrote, WritersLog, Blank, Addresses
    <3>4. Serial /\ mode[d] = "writing" =>
            /\ table'[a] = table[a]
            /\ audit'[a]["stored"] = audit[a]["stored"]
            /\ audit'[a]["released"] = audit[a]["released"]
      BY <1>3, <2>2, CommitPublishes, Entries
    <3>5. ~Serial /\ own[d][a] # Untouched =>
            /\ audit'[a]["stored"] = audit[a]["stored"]
            /\ audit'[a]["released"] >= audit[a]["released"]
      <4> SUFFICES ASSUME ~Serial, own[d][a] # Untouched
                   PROVE  /\ audit'[a]["stored"] = audit[a]["stored"]
                          /\ audit'[a]["released"] >= audit[a]["released"]
        OBVIOUS
      <4>1. own[c][a] = Untouched
        BY <1>3, <2>2 DEF TxnInv, OneWriterPerRow, Addresses
      <4>2. log[c][a]["stored"] = 0
        BY <4>1 DEF IInv, WillBalance
      <4>3. QED
        BY <1>3, <4>2, CommitPublishes, Entries
    <3>6. /\ \A k \in Actions : log[d][a][k] \in Nat /\ audit[a][k] \in Nat
          /\ {"stored", "released", "deduplicated"} \subseteq Actions
          /\ audit'[a]["stored"] \in Nat /\ audit'[a]["released"] \in Nat
      BY <1>3, <1>5, Entries DEF TypeOK, Actions
    <3>7. WillBalance(d, a)'
      <4> DEFINE n == Filed(own[d][a])
      <4>1. n \in Nat
        BY DEF Filed
      <4> HIDE DEF n
      <4>2. CASE own[d][a] = Untouched
        BY <1>2, <3>1, <3>2, <4>2 DEF WillBalance
      <4>3. CASE own[d][a] # Untouched
        BY <1>2, <3>1, <3>2, <3>3, <3>4, <3>5, <3>6, <4>1, <4>3
           DEF WillBalance, n
      <4>4. QED
        BY <4>2, <4>3
    <3>8. HoldStands(d, a)'
      BY <1>2, <3>1, <3>2, <3>3, <3>4 DEF HoldStands
    <3>9. FoundStands(d, a)'
      BY <1>2, <3>1, <3>2, <3>3, <3>4, <3>6, NoEntriesType
         DEF FoundStands, Latest
    <3>10. QED
      BY <3>7, <3>8, <3>9
  <2>3. QED
    BY <2>1, <2>2
<1>13. QED
  BY <1>4, <1>5, <1>8, <1>9, <1>10, <1>11, <1>12 DEF IInv

-----------------------------------------------------------------------------
LEMMA StepSound ==
  ASSUME IInv, Next
  PROVE  IInv'
<1> PICK c \in Conns :
      \/ Begin(c) \/ Put(c) \/ Release(c)
      \/ \E a \in Addresses, class \in Classes : Reclassify(c, a, class)
      \/ Refused(c) \/ Commit(c) \/ Abort(c)
  BY DEF Next
<1>1. refusals \in [Addresses -> Nat]
  BY DEF IInv, TypeOK
<1>2. CASE Begin(c)
  BY <1>2, BeginSound
<1>3. CASE Put(c)
  <2>1. CASE \E a \in Addresses : PutTooLarge(c, a)
    BY <1>1, <2>1, AbandonedSound DEF PutTooLarge
  <2>2. CASE \E a \in Addresses, class \in Classes : PutLooks(c, a, class)
    BY <2>2, LooksSound DEF PutLooks
  <2>3. CASE PutDeduplicates(c)
    BY <2>3, PutDeduplicatesSound
  <2>4. CASE PutStores(c)
    BY <2>4, PutStoresSound
  <2>5. CASE PutCollides(c)
    BY <1>1, <2>5, AbandonedSound DEF PutCollides
  <2>6. QED
    BY <1>3, <2>1, <2>2, <2>3, <2>4, <2>5 DEF Put
<1>4. CASE Release(c)
  <2>1. CASE \E a \in Addresses : ReleaseLooks(c, a)
    BY <2>1, LooksSound DEF ReleaseLooks
  <2>2. CASE ReleaseOfNothing(c)
    BY <2>2, ReleaseOfNothingSound
  <2>3. CASE ReleaseRefused(c)
    BY <1>1, <2>3, AbandonedSound DEF ReleaseRefused
  <2>4. CASE ReleaseDeletes(c)
    BY <2>4, ReleaseDeletesSound
  <2>5. QED
    BY <1>4, <2>1, <2>2, <2>3, <2>4 DEF Release
<1>5. CASE \E a \in Addresses, class \in Classes : Reclassify(c, a, class)
  BY <1>5, ReclassifySound
<1>6. CASE Refused(c) \/ Abort(c)
  BY <1>1, <1>6, AbandonedSound DEF Refused, Abort
<1>7. CASE Commit(c)
  BY <1>7, CommitSound
<1>8. QED
  BY <1>2, <1>3, <1>4, <1>5, <1>6, <1>7

LEMMA StutterSound ==
  ASSUME IInv, UNCHANGED vars
  PROVE  IInv'
<1>1. /\ UNCHANGED <<backend, table, mode, snap, own>>
      /\ UNCHANGED <<audit, log, call, calls, begun, refusals>>
  BY DEF vars, txnVars
<1>2. TxnInv'
  BY StutterKeeps DEF IInv, vars
<1>3. TypeOK'
  BY <1>1, <1>2 DEF TxnInv, IInv, TypeOK
<1>4. CallsOpen' /\ SeenStands' /\ WritersLog' /\ AuditBalances'
  BY <1>1 DEF IInv, CallsOpen, IsOpen, SeenStands, Sees, Serial, WritersLog,
              AuditBalances
<1>5. ASSUME NEW d \in Conns, NEW a \in Addresses
      PROVE  WillBalance(d, a)' /\ HoldStands(d, a)' /\ FoundStands(d, a)'
  BY <1>1 DEF IInv, WillBalance, HoldStands, FoundStands, Latest, Serial
<1>6. QED
  BY <1>2, <1>3, <1>4, <1>5 DEF IInv

(* The inductive invariant of the shelf, its trail and the transactions.   *)
THEOREM InvHolds == Spec => []IInv
<1>1. IInv /\ [Next]_vars => IInv'
  BY StepSound, StutterSound
<1>2. QED
  BY <1>1, InitSound, PTL DEF Spec

(* Every variable keeps its type; counts of the trail are numbers.         *)
THEOREM TypesHold == Spec => []TypeOK
<1>1. IInv => TypeOK
  BY DEF IInv
<1>2. QED
  BY <1>1, InvHolds, PTL

(* put_source_blob and release_source_blob: two imports of the same bytes  *)
(* never both store them, over either database, and in a SQLite file the   *)
(* trail accounts for what is on the shelf.                                *)
THEOREM TrailBalances == Spec => []AuditBalances
<1>1. IInv => AuditBalances
  BY DEF IInv
<1>2. QED
  BY <1>1, InvHolds, PTL

(* Only a commit touches the shelf or the trail.                           *)
LEMMA OnlyCommits ==
  ASSUME IInv, Next
  PROVE  \/ \E c \in Conns : Commit(c)
         \/ UNCHANGED <<table, audit>>
<1> PICK c \in Conns :
      \/ Begin(c) \/ Put(c) \/ Release(c)
      \/ \E a \in Addresses, class \in Classes : Reclassify(c, a, class)
      \/ Refused(c) \/ Commit(c) \/ Abort(c)
  BY DEF Next
<1>1. CASE Begin(c)
  BY <1>1 DEF Begin, BeginTxn
<1>2. CASE Put(c)
  BY <1>2 DEF Put, PutTooLarge, PutLooks, PutDeduplicates, PutStores,
              PutCollides, Abandoned, RollbackTxn, ReadTxn, WriteTxn, Returned
<1>3. CASE Release(c)
  BY <1>3 DEF Release, ReleaseLooks, ReleaseOfNothing, ReleaseRefused,
              ReleaseDeletes, ChangesTo, Abandoned, RollbackTxn, ReadTxn,
              WriteTxn, Returned
<1>4. CASE \E a \in Addresses, class \in Classes : Reclassify(c, a, class)
  BY <1>4 DEF Reclassify, ChangesTo, WriteTxn, Returned
<1>5. CASE Refused(c) \/ Abort(c)
  BY <1>5 DEF Refused, Abort, Abandoned, RollbackTxn
<1>6. QED
  BY <1>1, <1>2, <1>3, <1>4, <1>5

(* release_source_blob over SQLite: held evidence disappears only in a     *)
(* transaction that reclassified it, whatever runs beside it.              *)
THEOREM HeldIsKept == Spec => HeldEvidenceKeptInFile
<1> DEFINE Kept == Serial => \A a \in Addresses : ~HoldBroken(a)
<1>1. IInv /\ [Next]_vars => [Kept]_<<table, audit>>
  <2> SUFFICES ASSUME IInv, Next, <<table, audit>>' # <<table, audit>>, Serial,
                      NEW a \in Addresses, HoldBroken(a)
               PROVE  FALSE
    BY DEF vars, txnVars
  <2>1. PICK c \in Conns : Commit(c)
    BY OnlyCommits
  <2>2. TypeOK /\ HoldStands(c, a)
    BY DEF IInv
  <2>3. /\ table'[a] = Latest(c, a)
        /\ audit'[a]["reclassified"] =
             audit[a]["reclassified"] + log[c][a]["reclassified"]
        /\ audit[a]["reclassified"] \in Nat
        /\ log[c][a]["reclassified"] \in Nat
    BY <2>1, <2>2, CommitPublishes, Entries
  <2>4. own[c][a] = Untouched
    BY <2>2, <2>3 DEF HoldBroken, HoldStands
  <2>5. QED
    BY <2>3, <2>4, ClassFacts DEF HoldBroken, Latest
<1>2. QED
  BY <1>1, InvHolds, PTL DEF Spec, HeldEvidenceKeptInFile

(* put_source_blob over SQLite: an import that is told "deduplicated"      *)
(* leaves the blob on the shelf, unless its own transaction released it.   *)
THEOREM FoundIsHeld == Spec => DeduplicatedIsHeld
<1> DEFINE Held ==
      Serial =>
        \A a \in Addresses :
          audit'[a]["deduplicated"] > audit[a]["deduplicated"] =>
            \/ table'[a] # Absent
            \/ audit'[a]["released"] > audit[a]["released"]
<1>1. IInv /\ [Next]_vars => [Held]_<<table, audit>>
  <2> SUFFICES ASSUME IInv, Next, <<table, audit>>' # <<table, audit>>, Serial,
                      NEW a \in Addresses,
                      audit'[a]["deduplicated"] > audit[a]["deduplicated"]
               PROVE  \/ table'[a] # Absent
                      \/ audit'[a]["released"] > audit[a]["released"]
    BY DEF vars, txnVars
  <2>1. PICK c \in Conns : Commit(c)
    BY OnlyCommits
  <2>2. TypeOK /\ FoundStands(c, a)
    BY DEF IInv
  <2>3. /\ table'[a] = Latest(c, a)
        /\ \A k \in Actions : /\ audit'[a][k] = audit[a][k] + log[c][a][k]
                              /\ audit[a][k] \in Nat /\ log[c][a][k] \in Nat
        /\ {"deduplicated", "released"} \subseteq Actions
    BY <2>1, <2>2, CommitPublishes, Entries
  <2>4. QED
    BY <2>2, <2>3 DEF FoundStands
<1>2. QED
  BY <1>1, InvHolds, PTL DEF Spec, DeduplicatedIsHeld
=============================================================================
