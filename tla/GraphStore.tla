----------------------------- MODULE GraphStore -----------------------------
(***************************************************************************)
(* Canonical records and the graph version: upsert_entity, the edge-like   *)
(* upserts (relationship, claim, sighting), require_node and touch_graph   *)
(* of StoreWrite, as sqlite.rs and postgres.rs implement them, under       *)
(* concurrent transactions.                                                *)
(*                                                                         *)
(* A row is an entity, an edge (whatever names entities as its endpoints)  *)
(* or the counter of graph_meta.  A document is a positive number, 0 means *)
(* that the row does not exist.                                            *)
(***************************************************************************)
EXTENDS Naturals, Transactions

CONSTANTS
  Entities, Edges,
  Version,       \* the row of graph_meta
  Ends,          \* the entities an edge names; observable ends name no row
  Docs,          \* what a feed may say of a record
  MaxUpserts,    \* bound on upserts in one transaction
  MaxTxns        \* bound on transactions

Absent == 0

ASSUME GraphAssumption ==
  /\ Rows = Entities \union Edges \union {Version}
  /\ Entities \intersect Edges = {} /\ Version \notin Entities \union Edges
  /\ Ends \in [Edges -> SUBSET Entities]
  /\ Docs \subseteq Nat \ {Absent}
  /\ Values = Nat
  /\ MaxUpserts \in Nat /\ MaxTxns \in Nat

VARIABLES
  call,          \* the upsert the transaction is executing
  upserts,       \* upserts this transaction has completed
  begun,         \* transactions begun
  changed,       \* history: material changes of the open transaction
  changes        \* history: material changes committed

callVars == <<call, upserts, begun>>
graphVars == <<txnVars, callVars, changed, changes>>

Records == Entities \union Edges
Graph(tab) == [row \in Records |-> tab[row]]

Idle == [op |-> "none", row |-> Version, doc |-> Absent, seen |-> Absent]

-----------------------------------------------------------------------------
Begin(c) ==
  /\ begun < MaxTxns
  /\ BeginTxn(c)
  /\ begun' = begun + 1
  /\ UNCHANGED <<call, upserts, changed, changes>>

Ready(c) == IsOpen(c) /\ call[c].op = "none" /\ upserts[c] < MaxUpserts

Returned(c) ==
  /\ call' = [call EXCEPT ![c] = Idle]
  /\ upserts' = [upserts EXCEPT ![c] = @ + 1]

Abandoned(c) ==
  /\ RollbackTxn(c)
  /\ call' = [call EXCEPT ![c] = Idle]
  /\ upserts' = [upserts EXCEPT ![c] = 0]
  /\ changed' = [changed EXCEPT ![c] = 0]
  /\ UNCHANGED <<begun, changes>>

(* Mutant: require_node is not asked.                                      *)
NeverDangling(c, row) == FALSE

(* require_node, for every endpoint that names an entity.  Entities are    *)
(* never deleted, so asking for the endpoints one after the other or at    *)
(* once answers the same.                                                  *)
Dangling(c, row) ==
  row \in Edges /\ \E e \in Ends[row] : Sees(c, e) = Absent

(* The document that is there is read before the new one is written.       *)
Looks(c, row, doc) ==
  /\ Ready(c)
  /\ ~Dangling(c, row)
  /\ ReadTxn(c)
  /\ call' = [call EXCEPT ![c] =
                [op |-> "write", row |-> row, doc |-> doc, seen |-> Sees(c, row)]]
  /\ UNCHANGED <<upserts, begun, changed, changes>>

RefusesDangling(c, row) ==
  /\ Ready(c)
  /\ Dangling(c, row)
  /\ Abandoned(c)

ReturnsUnchanged(c) ==
  /\ call[c].op = "write"
  /\ call[c].seen = call[c].doc
  /\ Returned(c)
  /\ UNCHANGED <<txnVars, begun, changed, changes>>

(* INSERT .. ON CONFLICT(id) DO UPDATE: never collides.                    *)
Writes(c) ==
  LET row == call[c].row
      doc == call[c].doc IN
  /\ call[c].op = "write"
  /\ call[c].seen # doc
  /\ CanWrite(c, row)
  /\ WriteTxn(c, [r \in {row} |-> doc])
  /\ call' = [call EXCEPT ![c] = [@ EXCEPT !.op = "touch"]]
  /\ changed' = [changed EXCEPT ![c] =
                   IF Latest(c, row) = doc THEN @ ELSE @ + 1]
  /\ UNCHANGED <<upserts, begun, changes>>

(* Mutant: the counter is written back from what was read earlier, so an   *)
(* increment committed in between is lost.                                 *)
TouchesAsSeen(c) ==
  /\ call[c].op = "touch"
  /\ CanWrite(c, Version)
  /\ WriteTxn(c, [r \in {Version} |-> call[c].seen + 1])
  /\ Returned(c)
  /\ UNCHANGED <<begun, changed, changes>>

(* touch_graph: UPDATE graph_meta SET version = version + 1.               *)
Touches(c) ==
  /\ call[c].op = "touch"
  /\ CanWrite(c, Version)
  /\ WriteTxn(c, [r \in {Version} |-> Latest(c, Version) + 1])
  /\ Returned(c)
  /\ UNCHANGED <<begun, changed, changes>>

(* The database refuses a blocked write: busy, a stale snapshot, a         *)
(* deadlock.                                                               *)
Refused(c) ==
  /\ \/ /\ call[c].op = "write" /\ call[c].seen # call[c].doc
        /\ ~CanWrite(c, call[c].row)
     \/ call[c].op = "touch" /\ ~CanWrite(c, Version)
  /\ Abandoned(c)

Commit(c) ==
  /\ IsOpen(c)
  /\ call[c].op = "none"
  /\ upserts[c] > 0
  /\ CommitTxn(c)
  /\ upserts' = [upserts EXCEPT ![c] = 0]
  /\ changes' = changes + changed[c]
  /\ changed' = [changed EXCEPT ![c] = 0]
  /\ UNCHANGED <<call, begun>>

(* The closure returns an error of its own, or the process dies.           *)
Abort(c) == IsOpen(c) /\ Abandoned(c)

GraphInit ==
  /\ TransactionsInit([row \in Rows |-> 0])
  /\ call = [c \in Conns |-> Idle]
  /\ upserts = [c \in Conns |-> 0]
  /\ begun = 0
  /\ changed = [c \in Conns |-> 0]
  /\ changes = 0

GraphNext ==
  \E c \in Conns :
    \/ Begin(c)
    \/ \E row \in Records, doc \in Docs : Looks(c, row, doc)
    \/ \E row \in Edges : RefusesDangling(c, row)
    \/ ReturnsUnchanged(c) \/ Writes(c) \/ Touches(c)
    \/ Refused(c) \/ Commit(c) \/ Abort(c)

GraphSpec == GraphInit /\ [][GraphNext]_graphVars

-----------------------------------------------------------------------------
GraphTypeOK ==
  /\ TransactionsTypeOK
  /\ call \in [Conns -> [op : {"none", "write", "touch"}, row : Rows,
                         doc : Docs \union {Absent}, seen : Nat]]
  /\ upserts \in [Conns -> Nat]
  /\ begun \in Nat
  /\ changed \in [Conns -> Nat]
  /\ changes \in Nat

(* StorageError::DanglingEdge: traversal never meets an edge whose end is  *)
(* not there, however the transactions that wrote the two interleave.      *)
NoDanglingEdge ==
  \A x \in Edges :
    table[x] # Absent => \A e \in Ends[x] : table[e] # Absent

(* migration.rs: the version increments "when a graph record is inserted   *)
(* or changed and not when an upsert is a no-op".  No increment is lost    *)
(* between concurrent transactions, and in a SQLite file the count is      *)
(* exact.  Over PostgreSQL two transactions that write the same document   *)
(* at once both count it: the second is a no-op that no document it read   *)
(* could tell it of.                                                       *)
NoChangeUncounted ==
  /\ table[Version] >= changes
  /\ Serial => table[Version] = changes

=============================================================================
