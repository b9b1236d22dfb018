---------------------------- MODULE Transactions ----------------------------
(***************************************************************************)
(* What brolga-storage gets from its two databases when several processes  *)
(* hold a store over one of them: IntelligenceStore::transaction of        *)
(* sqlite.rs and postgres.rs, and the isolation each backend gives the     *)
(* statements run inside it (external).                                    *)
(*                                                                         *)
(* SQLite (WAL, a deferred transaction): the first statement fixes a       *)
(* snapshot; the first write takes the one write lock, and is refused when *)
(* another connection holds it or has committed since the snapshot.        *)
(*                                                                         *)
(* PostgreSQL (READ COMMITTED, which is what Client::transaction opens):   *)
(* every statement sees what is committed when it runs; a write takes a    *)
(* lock on its row, and waits for one held by another transaction unless   *)
(* the server ends the wait (a deadlock, a timeout).                       *)
(***************************************************************************)
CONSTANTS
  Conns,         \* processes, each with a store of its own
  Rows,          \* the rows the model looks at
  Values,        \* what a row may hold
  Untouched,     \* a row the transaction has not written
  Backends       \* the databases the store may have been opened on

ASSUME TransactionsAssumption ==
  /\ Untouched \notin Values
  /\ Backends \subseteq {"sqlite", "postgres"}

VARIABLES
  backend,       \* the database behind the store
  table,         \* the committed rows
  mode,          \* closed; open (no statement yet); reading, stale (a
                 \* snapshot that another commit has outdated); writing
  snap,          \* the snapshot of a SQLite transaction
  own            \* the rows the transaction has written

txnVars == <<backend, table, mode, snap, own>>

Blank == [row \in Rows |-> Untouched]

Serial == backend = "sqlite"

TransactionsTypeOK ==
  /\ backend \in Backends
  /\ table \in [Rows -> Values]
  /\ mode \in [Conns -> {"closed", "open", "reading", "stale", "writing"}]
  /\ snap \in [Conns -> [Rows -> Values \union {Untouched}]]
  /\ own \in [Conns -> [Rows -> Values \union {Untouched}]]

TransactionsInit(initial) ==
  /\ backend \in Backends
  /\ table = initial
  /\ mode = [c \in Conns |-> "closed"]
  /\ snap = [c \in Conns |-> Blank]
  /\ own = [c \in Conns |-> Blank]

-----------------------------------------------------------------------------
IsOpen(c) == mode[c] # "closed"

(* What a SELECT of this transaction returns.                              *)
Sees(c, row) ==
  IF own[c][row] # Untouched THEN own[c][row]
  ELSE IF Serial /\ mode[c] # "open" THEN snap[c][row] ELSE table[row]

(* What an UPDATE or a DELETE finds once it has its lock.                  *)
Latest(c, row) == IF own[c][row] # Untouched THEN own[c][row] ELSE table[row]

MayTakeLock(c) ==
  /\ mode[c] # "stale"
  /\ \A d \in Conns \ {c} : mode[d] # "writing"

(* An INSERT of a fresh row (an audit entry) contends only for the write   *)
(* lock of SQLite; a write of a row that exists contends for the row too.  *)
CanAppend(c) == Serial => MayTakeLock(c)
CanWrite(c, row) ==
  IF Serial THEN MayTakeLock(c)
  ELSE \A d \in Conns \ {c} : own[d][row] = Untouched

Snapshot(c) == IF Serial /\ mode[c] = "open" THEN table ELSE snap[c]

-----------------------------------------------------------------------------
BeginTxn(c) ==
  /\ mode[c] = "closed"
  /\ mode' = [mode EXCEPT ![c] = "open"]
  /\ UNCHANGED <<backend, table, snap, own>>

(* A SELECT.                                                               *)
ReadTxn(c) ==
  /\ mode' = [mode EXCEPT ![c] = IF Serial /\ @ = "open" THEN "reading" ELSE @]
  /\ snap' = [snap EXCEPT ![c] = Snapshot(c)]
  /\ UNCHANGED <<backend, table, own>>

(* An INSERT, UPDATE or DELETE that gives these rows these values.         *)
WriteTxn(c, values) ==
  /\ mode' = [mode EXCEPT ![c] = "writing"]
  /\ snap' = [snap EXCEPT ![c] = Snapshot(c)]
  /\ own' = [own EXCEPT ![c] = [row \in Rows |->
               IF row \in DOMAIN values THEN values[row] ELSE own[c][row]]]
  /\ UNCHANGED <<backend, table>>

NoRows == [row \in {} |-> Untouched]

CloseTxn(c) ==
  /\ snap' = [snap EXCEPT ![c] = Blank]
  /\ own' = [own EXCEPT ![c] = Blank]

(* `Ok(value)`: commit.  A commit that wrote outdates the snapshots.       *)
CommitTxn(c) ==
  /\ CloseTxn(c)
  /\ table' = [row \in Rows |-> Latest(c, row)]
  /\ mode' = [d \in Conns |->
                IF d = c THEN "closed"
                ELSE IF mode[c] = "writing" /\ mode[d] = "reading" THEN "stale"
                ELSE mode[d]]
  /\ UNCHANGED backend

(* `Err(error)`, or the process dies: everything is rolled back.           *)
RollbackTxn(c) ==
  /\ CloseTxn(c)
  /\ mode' = [mode EXCEPT ![c] = "closed"]
  /\ UNCHANGED <<backend, table>>
=============================================================================
