------------------------- MODULE GraphCapture_proofs ------------------------
(***************************************************************************)
(* Proofs about the record store and about a capture taken while other     *)
(* processes write it, for every graph, any number of processes and every  *)
(* bound, over either database.                                            *)
(***************************************************************************)
EXTENDS GraphCapture, Transactions_proofs, FiniteSetTheorems,
        WellFoundedInduction

(* A call in progress is of an open transaction and about a record.        *)
CallsOpen ==
  \A c \in Conns :
    /\ call[c].op # "none" =>
         IsOpen(c) /\ call[c].row \in Records /\ call[c].doc \in Docs
    /\ ~IsOpen(c) => changed[c] = 0

(* Records are never deleted: nobody writes their absence, and what was    *)
(* once seen in a snapshot is still there.                                 *)
RecordsStay ==
  \A c \in Conns, row \in Records :
    /\ own[c][row] # Absent
    /\ snap[c][row] \notin {Absent, Untouched} => table[row] # Absent

WritesEdge(c, x) ==
  own[c][x] # Untouched \/ (call[c].op = "write" /\ call[c].row = x)

(* An edge a transaction wrote, or is about to write, has its ends where   *)
(* the transaction's commit will leave them.                               *)
EndsBacked ==
  \A c \in Conns, x \in Edges :
    WritesEdge(c, x) =>
      \A e \in Ends[x] : own[c][e] # Untouched \/ table[e] # Absent

(* In a SQLite file what a call read is still what its transaction sees.   *)
SeenStands ==
  Serial =>
    \A c \in Conns :
      call[c].op = "write" =>
        /\ mode[c] # "open"
        /\ call[c].seen = Sees(c, call[c].row)

Pending(c) == IF call[c].op = "touch" THEN 1 ELSE 0

(* The counter a transaction holds is ahead of the committed one by at     *)
(* least the changes it made and touched, exactly by them in a SQLite      *)
(* file; a record it wrote is followed by a touch.                         *)
Counted(c) ==
  /\ own[c][Version] = Untouched =>
       /\ changed[c] <= Pending(c)
       /\ Serial => changed[c] = Pending(c)
       /\ call[c].op # "touch" => \A row \in Records : own[c][row] = Untouched
  /\ own[c][Version] # Untouched =>
       /\ own[c][Version] > table[Version]
       /\ own[c][Version] + Pending(c) >= table[Version] + changed[c]
       /\ Serial => own[c][Version] + Pending(c) = table[Version] + changed[c]

StoreInv ==
  /\ GraphTypeOK /\ TxnInv
  /\ CallsOpen /\ RecordsStay /\ EndsBacked /\ SeenStands
  /\ \A c \in Conns : Counted(c)
  /\ NoDanglingEdge /\ NoChangeUncounted

-----------------------------------------------------------------------------
CaptureTypeOK ==
  /\ phase \in {"idle", "start", "walk", "nodes"}
  /\ before \in Nat /\ depth \in 0..(MaxDepth - 1)
  /\ frontier \subseteq visited /\ expanded \subseteq visited
  /\ visited \subseteq Entities
  /\ pending \subseteq Entities
  /\ DOMAIN found \subseteq Edges /\ DOMAIN records \subseteq Entities

Unstarted ==
  /\ depth = 0 /\ frontier = {} /\ visited = {} /\ expanded = {}
  /\ found = EmptyFingerprints /\ records = EmptyFingerprints /\ pending = {}

EdgesOf(tab, nodes) == UNION {At(tab, e) : e \in nodes}
Standing(tab, rows) == [row \in rows |-> tab[row]]

(* What the walk has while no change was committed since it began.         *)
WalkSound ==
  /\ found = Standing(table, EdgesOf(table, expanded))
  /\ visited = {Root} \union Across(EdgesOf(table, expanded))
  /\ phase = "walk" =>
       /\ expanded \union frontier = Reached(table)[depth]
       /\ records = EmptyFingerprints /\ pending = {}
  /\ phase = "nodes" =>
       /\ expanded = Reached(table)[MaxDepth - 1]
       /\ visited = Reached(table)[MaxDepth]
       /\ pending \subseteq visited
       /\ records =
            Standing(table, {e \in visited \ pending : table[e] # Absent})

CheckpointSound ==
  checkpoint # NoCheckpoint =>
    /\ checkpoint.version \in Nat /\ checkpoint.version <= table[Version]
    /\ checkpoint.version = table[Version] =>
         checkpoint.records = Neighbourhood(table)

CaptureInv ==
  /\ CaptureTypeOK
  /\ phase \in {"idle", "start"} => Unstarted
  /\ phase # "idle" => before <= table[Version]
  /\ phase \in {"walk", "nodes"} /\ before = table[Version] => WalkSound
  /\ CheckpointSound

IInv == StoreInv /\ CaptureInv

-----------------------------------------------------------------------------
LEMMA RowFacts ==
  /\ Version \in Rows /\ Version \notin Records
  /\ Records \subseteq Rows /\ Rows = Records \union {Version}
  /\ Untouched \notin Nat /\ Values = Nat
  /\ Docs \subseteq Nat \ {0} /\ Absent = 0
  /\ \A x \in Edges : Ends[x] \subseteq Entities
  /\ Entities \subseteq Records /\ Edges \subseteq Records
  BY GraphAssumption, TransactionsAssumption DEF Records, Absent

LEMMA StoreInitSound == GraphInit => StoreInv
<1> SUFFICES ASSUME GraphInit PROVE StoreInv
  OBVIOUS
<1> USE RowFacts
<1>1. [row \in Rows |-> 0] \in [Rows -> Values]
  OBVIOUS
<1>2. TxnInv
  BY <1>1, TransactionsStartSound DEF GraphInit
<1>3. /\ \A row \in Rows : table[row] = 0
      /\ \A c \in Conns : /\ own[c] = Blank /\ snap[c] = Blank
                          /\ \A row \in Rows : /\ own[c][row] = Untouched
                                               /\ snap[c][row] = Untouched
                          /\ call[c] = Idle /\ changed[c] = 0
                          /\ mode[c] = "closed"
      /\ changes = 0
  BY DEF GraphInit, TransactionsInit, Blank
<1>4. GraphTypeOK
  BY <1>2 DEF TxnInv, GraphTypeOK, GraphInit, Idle
<1>5. CallsOpen /\ RecordsStay /\ EndsBacked /\ SeenStands
  BY <1>3 DEF CallsOpen, RecordsStay, EndsBacked, SeenStands, Idle, Blank,
              WritesEdge, IsOpen
<1>6. \A c \in Conns : Counted(c)
  <2> TAKE c \in Conns
  <2>1. own[c][Version] = Untouched /\ changed[c] = 0
    BY <1>3
  <2>2. Pending(c) = 0
    BY <1>3 DEF Pending, Idle
  <2>3. \A row \in Records : own[c][row] = Untouched
    BY <1>3
  <2>4. QED
    BY <2>1, <2>2, <2>3 DEF Counted
<1>7. NoDanglingEdge /\ NoChangeUncounted
  BY <1>3 DEF NoDanglingEdge, NoChangeUncounted
<1>8. QED
  BY <1>2, <1>4, <1>5, <1>6, <1>7 DEF StoreInv

LEMMA BeginSound ==
  ASSUME StoreInv, NEW c \in Conns, Begin(c)
  PROVE  StoreInv'
<1> USE DEF StoreInv
<1>1. /\ mode[c] = "closed" /\ mode' = [mode EXCEPT ![c] = "open"]
      /\ begun' = begun + 1
      /\ UNCHANGED <<backend, table, snap, own, call, upserts, changed,
                     changes>>
  BY DEF Begin, BeginTxn
<1>2. TxnInv'
  BY BeginKeeps DEF Begin
<1>3. GraphTypeOK'
  BY <1>1, <1>2 DEF TxnInv, GraphTypeOK
<1>4. CallsOpen'
  BY <1>1 DEF CallsOpen, IsOpen, GraphTypeOK, TransactionsTypeOK, Records
<1>5. RecordsStay' /\ EndsBacked'
  BY <1>1 DEF RecordsStay, EndsBacked, WritesEdge, Records
<1>6. SeenStands'
  BY <1>1 DEF SeenStands, Sees, Serial, CallsOpen, IsOpen, GraphTypeOK,
              TransactionsTypeOK
<1>7. \A d \in Conns : Counted(d)'
  BY <1>1 DEF Counted, Pending, Serial, Records
<1>8. NoDanglingEdge' /\ NoChangeUncounted'
  BY <1>1 DEF NoDanglingEdge, NoChangeUncounted, Serial
<1>9. QED
  BY <1>2, <1>3, <1>4, <1>5, <1>6, <1>7, <1>8

LEMMA LooksSound ==
  ASSUME StoreInv, NEW c \in Conns, NEW row \in Records, NEW doc \in Docs,
         Looks(c, row, doc)
  PROVE  StoreInv'
<1> USE RowFacts DEF StoreInv
<1>1. /\ IsOpen(c) /\ call[c].op = "none" /\ ~Dangling(c, row)
      /\ mode' = [mode EXCEPT ![c] =
                    IF Serial /\ mode[c] = "open" THEN "reading" ELSE mode[c]]
      /\ snap' = [snap EXCEPT ![c] = Snapshot(c)]
      /\ call' = [call EXCEPT ![c] =
                    [op |-> "write", row |-> row, doc |-> doc,
                     seen |-> Sees(c, row)]]
      /\ UNCHANGED <<backend, table, own, upserts, begun, changed, changes>>
  BY DEF Looks, Ready, ReadTxn
<1>2. TxnInv'
  BY <1>1, ReadKeeps DEF Looks
<1>3. Sees(c, row) \in Nat
  BY <1>1, SeesAValue
<1>4. GraphTypeOK'
  BY <1>1, <1>2, <1>3 DEF TxnInv, GraphTypeOK
<1>5. CallsOpen'
  BY <1>1 DEF CallsOpen, IsOpen, GraphTypeOK, TransactionsTypeOK, Records
<1>6. RecordsStay'
  BY <1>1 DEF RecordsStay, Snapshot, GraphTypeOK, TransactionsTypeOK, Records
<1>7. row \in Edges =>
        \A e \in Ends[row] : own[c][e] # Untouched \/ table[e] # Absent
  <2> SUFFICES ASSUME row \in Edges, NEW e \in Ends[row],
                      own[c][e] = Untouched
               PROVE  table[e] # Absent
    OBVIOUS
  <2>1. Sees(c, e) # Absent
    BY <1>1 DEF Dangling
  <2>2. e \in Records
    OBVIOUS
  <2>3. CASE Serial /\ mode[c] # "open"
    <3>1. Sees(c, e) = snap[c][e]
      BY <2>3 DEF Sees
    <3>2. Sees(c, e) \in Nat
      BY <1>1, <2>2, SeesAValue
    <3>3. QED
      BY <2>1, <2>2, <3>1, <3>2 DEF RecordsStay
  <2>4. CASE ~(Serial /\ mode[c] # "open")
    BY <2>1, <2>4 DEF Sees
  <2>5. QED
    BY <2>3, <2>4
<1>8. EndsBacked'
  BY <1>1, <1>7 DEF EndsBacked, WritesEdge, GraphTypeOK
<1>9. SeenStands'
  <2>1. Serial => Sees(c, row)' = Sees(c, row)
    BY <1>1 DEF Sees, Snapshot, Serial, IsOpen, GraphTypeOK, TransactionsTypeOK
  <2>2. \A d \in Conns \ {c}, r \in Rows : Sees(d, r)' = Sees(d, r)
    BY <1>1 DEF Sees, Serial, GraphTypeOK, TransactionsTypeOK
  <2>3. QED
    BY <1>1, <2>1, <2>2 DEF SeenStands, Serial, GraphTypeOK,
                            TransactionsTypeOK
<1>10. \A d \in Conns : Counted(d)'
  BY <1>1 DEF Counted, Pending, Serial, Records, GraphTypeOK
<1>11. NoDanglingEdge' /\ NoChangeUncounted'
  BY <1>1 DEF NoDanglingEdge, NoChangeUncounted, Serial
<1>12. QED
  BY <1>2, <1>4, <1>5, <1>6, <1>8, <1>9, <1>10, <1>11

LEMMA AbandonedSound ==
  ASSUME StoreInv, NEW c \in Conns, Abandoned(c)
  PROVE  StoreInv'
<1> USE RowFacts DEF StoreInv
<1>1. /\ mode' = [mode EXCEPT ![c] = "closed"]
      /\ snap' = [snap EXCEPT ![c] = Blank]
      /\ own' = [own EXCEPT ![c] = Blank]
      /\ call' = [call EXCEPT ![c] = Idle]
      /\ upserts' = [upserts EXCEPT ![c] = 0]
      /\ changed' = [changed EXCEPT ![c] = 0]
      /\ UNCHANGED <<backend, table, begun, changes>>
  BY DEF Abandoned, RollbackTxn, CloseTxn
<1>2. TxnInv'
  BY RollbackKeeps DEF Abandoned
<1>3. GraphTypeOK'
  BY <1>1, <1>2 DEF TxnInv, GraphTypeOK, Idle
<1>4. CallsOpen'
  BY <1>1 DEF CallsOpen, IsOpen, GraphTypeOK, TransactionsTypeOK, Records,
              Idle
<1>5. RecordsStay' /\ EndsBacked'
  BY <1>1 DEF RecordsStay, EndsBacked, WritesEdge, GraphTypeOK,
              TransactionsTypeOK, Idle, Blank, Records
<1>6. SeenStands'
  BY <1>1 DEF SeenStands, Sees, Serial, GraphTypeOK, TransactionsTypeOK, Idle
<1>7. \A d \in Conns : Counted(d)'
  BY <1>1 DEF Counted, Pending, Serial, Records, GraphTypeOK,
              TransactionsTypeOK, Idle, Blank
<1>8. NoDanglingEdge' /\ NoChangeUncounted'
  BY <1>1 DEF NoDanglingEdge, NoChangeUncounted, Serial
<1>9. QED
  BY <1>2, <1>3, <1>4, <1>5, <1>6, <1>7, <1>8

LEMMA ReturnsUnchangedSound ==
  ASSUME StoreInv, NEW c \in Conns, ReturnsUnchanged(c)
  PROVE  StoreInv'
<1> USE RowFacts DEF StoreInv
<1>1. /\ call[c].op = "write"
      /\ call' = [call EXCEPT ![c] = Idle]
      /\ upserts' = [upserts EXCEPT ![c] = upserts[c] + 1]
      /\ UNCHANGED <<backend, table, mode, snap, own, begun, changed, changes>>
  BY DEF ReturnsUnchanged, Returned, txnVars
<1>2. TxnInv'
  BY StutterKeeps DEF ReturnsUnchanged
<1>3. GraphTypeOK'
  BY <1>1, <1>2 DEF TxnInv, GraphTypeOK, Idle
<1>4. CallsOpen'
  BY <1>1 DEF CallsOpen, IsOpen, GraphTypeOK, Records, Idle
<1>5. RecordsStay' /\ EndsBacked'
  BY <1>1 DEF RecordsStay, EndsBacked, WritesEdge, GraphTypeOK, Idle, Records
<1>6. SeenStands'
  BY <1>1 DEF SeenStands, Sees, Serial, GraphTypeOK, Idle
<1>7. \A d \in Conns : Counted(d)'
  BY <1>1 DEF Counted, Pending, Serial, Records, GraphTypeOK, Idle
<1>8. NoDanglingEdge' /\ NoChangeUncounted'
  BY <1>1 DEF NoDanglingEdge, NoChangeUncounted, Serial
<1>9. QED
  BY <1>2, <1>3, <1>4, <1>5, <1>6, <1>7, <1>8

LEMMA WritesSound ==
  ASSUME StoreInv, NEW c \in Conns, Writes(c)
  PROVE  StoreInv'
<1> DEFINE row == call[c].row
           doc == call[c].doc
<1> USE RowFacts DEF StoreInv
<1>1. /\ call[c].op = "write" /\ call[c].seen # doc
      /\ CanWrite(c, row)
      /\ WriteTxn(c, [r \in {row} |-> doc])
      /\ call' = [call EXCEPT ![c] = [call[c] EXCEPT !.op = "touch"]]
      /\ changed' = [changed EXCEPT ![c] =
                       IF Latest(c, row) = doc THEN changed[c]
                       ELSE changed[c] + 1]
      /\ UNCHANGED <<upserts, begun, changes>>
  BY DEF Writes
<1>2. row \in Records /\ doc \in Docs /\ IsOpen(c)
  BY <1>1 DEF CallsOpen
<1>3. /\ mode' = [mode EXCEPT ![c] = "writing"]
      /\ snap' = [snap EXCEPT ![c] = Snapshot(c)]
      /\ \A d \in Conns, r \in Rows :
           own'[d][r] = IF d = c /\ r = row THEN doc ELSE own[d][r]
      /\ UNCHANGED <<backend, table>>
  BY <1>1, <1>2 DEF WriteTxn, GraphTypeOK, TransactionsTypeOK
<1> HIDE DEF row, doc
<1>4. TxnInv'
  <2>1. HasLocks(c, {row})
    BY <1>1 DEF HasLocks, CanWrite
  <2>2. QED
    BY <1>1, <1>2, <2>1, WriteKeeps
<1>5. GraphTypeOK'
  BY <1>1, <1>4 DEF TxnInv, GraphTypeOK
<1>6. CallsOpen'
  BY <1>1, <1>2, <1>3 DEF CallsOpen, IsOpen, GraphTypeOK, TransactionsTypeOK,
                          Records, row, doc
<1>7. RecordsStay'
  BY <1>2, <1>3 DEF RecordsStay, Snapshot, GraphTypeOK, TransactionsTypeOK,
                    Records
<1>8. EndsBacked'
  <2>1. \A d \in Conns, x \in Edges : WritesEdge(d, x)' => WritesEdge(d, x)
    BY <1>1, <1>3 DEF WritesEdge, GraphTypeOK, row
  <2>2. \A d \in Conns, e \in Entities :
          own[d][e] # Untouched => own'[d][e] # Untouched
    BY <1>2, <1>3
  <2>3. QED
    BY <1>3, <2>1, <2>2 DEF EndsBacked
<1>9. SeenStands'
  BY <1>1, <1>3 DEF SeenStands, Sees, Serial, GraphTypeOK, TransactionsTypeOK
<1>10. \A d \in Conns : Counted(d)'
  <2>1. ASSUME NEW d \in Conns \ {c} PROVE Counted(d)'
    BY <1>1, <1>3 DEF Counted, Pending, Serial, Records, GraphTypeOK,
                      TransactionsTypeOK
  <2>2. Serial => Latest(c, row) # doc
    <3> SUFFICES ASSUME Serial PROVE Latest(c, row) # doc
      OBVIOUS
    <3>1. Sees(c, row) = Latest(c, row)
      BY <1>1, <1>2, SeesTheLatest DEF CanWrite, MayTakeLock
    <3>2. QED
      BY <1>1, <3>1 DEF SeenStands, row, doc
  <2>3. /\ Pending(c) = 0 /\ Pending(c)' = 1 /\ call'[c].op = "touch"
        /\ changed'[c] \in {changed[c], changed[c] + 1}
        /\ Serial => changed'[c] = changed[c] + 1
    BY <1>1, <2>2 DEF Pending, GraphTypeOK
  <2>4. /\ own'[c][Version] = own[c][Version]
        /\ table' = table /\ Serial' = Serial
    BY <1>2, <1>3 DEF Serial
  <2>5. /\ own[c][Version] \in Nat \union {Untouched} /\ table[Version] \in Nat
        /\ changed[c] \in Nat
    BY DEF GraphTypeOK, TransactionsTypeOK
  <2>6. Counted(c)'
    BY <2>3, <2>4, <2>5 DEF Counted
  <2>7. QED
    BY <2>1, <2>6
<1>11. NoDanglingEdge' /\ NoChangeUncounted'
  BY <1>1, <1>3 DEF NoDanglingEdge, NoChangeUncounted, Serial
<1>12. QED
  BY <1>4, <1>5, <1>6, <1>7, <1>8, <1>9, <1>10, <1>11

LEMMA TouchesSound ==
  ASSUME StoreInv, NEW c \in Conns, Touches(c)
  PROVE  StoreInv'
<1> DEFINE next == Latest(c, Version) + 1
<1> USE RowFacts DEF StoreInv
<1>1. /\ call[c].op = "touch" /\ CanWrite(c, Version)
      /\ WriteTxn(c, [r \in {Version} |-> next])
      /\ call' = [call EXCEPT ![c] = Idle]
      /\ upserts' = [upserts EXCEPT ![c] = upserts[c] + 1]
      /\ UNCHANGED <<begun, changed, changes>>
  BY DEF Touches, Returned
<1>2. IsOpen(c)
  BY <1>1 DEF CallsOpen
<1>3. Latest(c, Version) \in Nat /\ next \in Nat
  <2>1. Latest(c, Version) \in Nat
    BY <1>2, SeesAValue
  <2>2. QED
    BY <2>1
<1> HIDE DEF next
<1>4. /\ mode' = [mode EXCEPT ![c] = "writing"]
      /\ snap' = [snap EXCEPT ![c] = Snapshot(c)]
      /\ \A d \in Conns, r \in Rows :
           own'[d][r] = IF d = c /\ r = Version THEN next ELSE own[d][r]
      /\ UNCHANGED <<backend, table>>
  BY <1>1 DEF WriteTxn, GraphTypeOK, TransactionsTypeOK
<1>5. TxnInv'
  <2>1. HasLocks(c, {Version})
    BY <1>1 DEF HasLocks, CanWrite
  <2>2. QED
    BY <1>1, <1>2, <1>3, <2>1, WriteKeeps
<1>6. GraphTypeOK'
  BY <1>1, <1>5 DEF TxnInv, GraphTypeOK, Idle
<1>7. CallsOpen'
  BY <1>1, <1>4 DEF CallsOpen, IsOpen, GraphTypeOK, TransactionsTypeOK,
                    Records, Idle
<1>8. RecordsStay'
  BY <1>4 DEF RecordsStay, Snapshot, GraphTypeOK, TransactionsTypeOK, Records
<1>9. EndsBacked'
  <2>1. \A d \in Conns, x \in Records : own'[d][x] = own[d][x]
    BY <1>4
  <2>2. \A d \in Conns, x \in Edges : WritesEdge(d, x)' => WritesEdge(d, x)
    BY <1>1, <2>1 DEF WritesEdge, GraphTypeOK, Idle
  <2>3. QED
    BY <1>4, <2>1, <2>2 DEF EndsBacked
<1>10. SeenStands'
  BY <1>1, <1>4 DEF SeenStands, Sees, Serial, GraphTypeOK, TransactionsTypeOK,
                    Idle
<1>11. \A d \in Conns : Counted(d)'
  <2>1. ASSUME NEW d \in Conns \ {c} PROVE Counted(d)'
    BY <1>1, <1>4 DEF Counted, Pending, Serial, Records, GraphTypeOK,
                      TransactionsTypeOK
  <2>2. /\ own'[c][Version] = next /\ table' = table /\ Serial' = Serial
        /\ changed' = changed /\ Pending(c) = 1 /\ Pending(c)' = 0
    BY <1>1, <1>4 DEF Serial, Pending, GraphTypeOK, Idle
  <2>3. /\ own[c][Version] \in Nat \union {Untouched} /\ table[Version] \in Nat
        /\ changed[c] \in Nat
    BY DEF GraphTypeOK, TransactionsTypeOK
  <2>4. Counted(c)'
    BY <1>3, <2>2, <2>3 DEF Counted, Latest, next
  <2>5. QED
    BY <2>1, <2>4
<1>12. NoDanglingEdge' /\ NoChangeUncounted'
  BY <1>1, <1>4 DEF NoDanglingEdge, NoChangeUncounted, Serial
<1>13. QED
  BY <1>5, <1>6, <1>7, <1>8, <1>9, <1>10, <1>11, <1>12

(* The only step that moves the committed rows moves the version with      *)
(* them.                                                                   *)
LEMMA CommitMovesVersion ==
  ASSUME StoreInv, NEW c \in Conns, Commit(c)
  PROVE  /\ table'[Version] >= table[Version] + changed[c]
         /\ Serial => table'[Version] = table[Version] + changed[c]
         /\ table'[Version] = table[Version] => table' = table
<1> USE RowFacts DEF StoreInv
<1>1. call[c].op = "none" /\ CommitTxn(c)
  BY DEF Commit
<1>2. /\ table' \in [Rows -> Nat]
      /\ \A row \in Rows :
           table'[row] = IF own[c][row] # Untouched THEN own[c][row]
                         ELSE table[row]
  BY <1>1, CommitChanges
<1>3. Pending(c) = 0 /\ Counted(c)
  BY <1>1 DEF Pending
<1>4. table \in [Rows -> Nat] /\ changed[c] \in Nat
  BY DEF GraphTypeOK, TransactionsTypeOK
<1>5. CASE own[c][Version] # Untouched
  <2>1. table'[Version] = own[c][Version] /\ own[c][Version] \in Nat
    BY <1>2, <1>5
  <2>2. QED
    BY <1>3, <1>4, <1>5, <2>1 DEF Counted
<1>6. CASE own[c][Version] = Untouched
  <2>1. \A row \in Rows : own[c][row] = Untouched
    BY <1>1, <1>3, <1>6 DEF Counted
  <2>2. table' = table
    BY <1>2, <1>4, <2>1
  <2>3. QED
    BY <1>3, <1>4, <1>6, <2>2 DEF Counted
<1>7. QED
  BY <1>5, <1>6

LEMMA CommitSound ==
  ASSUME StoreInv, NEW c \in Conns, Commit(c)
  PROVE  StoreInv'
<1> USE RowFacts DEF StoreInv
<1>1. /\ IsOpen(c) /\ call[c].op = "none" /\ CommitTxn(c)
      /\ upserts' = [upserts EXCEPT ![c] = 0]
      /\ changes' = changes + changed[c]
      /\ changed' = [changed EXCEPT ![c] = 0]
      /\ UNCHANGED <<call, begun>>
  BY DEF Commit
<1>2. /\ snap' = [snap EXCEPT ![c] = Blank]
      /\ own' = [own EXCEPT ![c] = Blank]
      /\ \A d \in Conns :
           /\ d = c => mode'[d] = "closed"
           /\ d # c => \/ mode'[d] = mode[d]
                       \/ mode[d] = "reading" /\ mode'[d] = "stale"
      /\ backend' = backend /\ Serial' = Serial
  BY <1>1 DEF CommitTxn, CloseTxn, Serial
<1>3. /\ table' \in [Rows -> Nat]
      /\ \A row \in Rows :
           table'[row] = IF own[c][row] # Untouched THEN own[c][row]
                         ELSE table[row]
      /\ mode[c] # "writing" => table' = table
  BY <1>1, CommitChanges
<1>4. TxnInv'
  BY <1>1, CommitKeeps
<1>5. GraphTypeOK'
  BY <1>1, <1>4 DEF TxnInv, GraphTypeOK
<1>6. CallsOpen'
  BY <1>1, <1>2 DEF CallsOpen, IsOpen, GraphTypeOK, Records
<1>7. \A row \in Records :
        table[row] # Absent \/ own[c][row] # Untouched <=> table'[row] # Absent
  BY <1>3 DEF RecordsStay
<1>8. RecordsStay'
  BY <1>2, <1>7 DEF RecordsStay, GraphTypeOK, TransactionsTypeOK, Blank,
                    Records
<1>9. EndsBacked'
  <2> SUFFICES ASSUME NEW d \in Conns, NEW x \in Edges, WritesEdge(d, x)',
                      NEW e \in Ends[x]
               PROVE  own'[d][e] # Untouched \/ table'[e] # Absent
    BY DEF EndsBacked
  <2>1. d # c
    BY <1>1, <1>2 DEF WritesEdge, GraphTypeOK, TransactionsTypeOK, Blank
  <2>2. own'[d] = own[d] /\ WritesEdge(d, x)
    BY <1>1, <1>2, <2>1 DEF WritesEdge, GraphTypeOK, TransactionsTypeOK
  <2>3. QED
    BY <1>7, <2>2 DEF EndsBacked
<1>10. SeenStands'
  <2> SUFFICES ASSUME Serial, NEW d \in Conns, call[d].op = "write"
               PROVE  /\ mode'[d] # "open"
                      /\ call[d].seen = Sees(d, call[d].row)'
    BY <1>1, <1>2 DEF SeenStands
  <2>1. d # c
    BY <1>1
  <2>2. /\ own'[d] = own[d] /\ snap'[d] = snap[d]
        /\ mode[d] # "open" /\ mode'[d] # "open"
    BY <1>2, <2>1 DEF SeenStands, GraphTypeOK, TransactionsTypeOK
  <2>3. QED
    BY <1>1, <1>2, <2>2 DEF SeenStands, Sees
<1>11. \A d \in Conns : Counted(d)'
  <2>1. Counted(c)'
    BY <1>1, <1>2 DEF Counted, Pending, GraphTypeOK, TransactionsTypeOK, Blank,
                      Records
  <2>2. ASSUME NEW d \in Conns \ {c} PROVE Counted(d)'
    <3>1. /\ own'[d] = own[d] /\ changed'[d] = changed[d]
          /\ Pending(d)' = Pending(d) /\ call' = call
      BY <1>1, <1>2 DEF GraphTypeOK, TransactionsTypeOK, Pending
    <3>2. own[d][Version] # Untouched => table'[Version] = table[Version]
      <4> SUFFICES ASSUME own[d][Version] # Untouched
                   PROVE  table'[Version] = table[Version]
        OBVIOUS
      <4>1. CASE Serial
        <5>1. mode[d] = "writing"
          BY DEF TxnInv, OwnsWhatItWrote, Blank
        <5>2. mode[c] # "writing"
          BY <4>1, <5>1 DEF TxnInv, OneWriter
        <5>3. QED
          BY <1>3, <5>2
      <4>2. CASE ~Serial
        <5>1. own[c][Version] = Untouched
          BY <4>2 DEF TxnInv, OneWriterPerRow
        <5>2. QED
          BY <1>3, <5>1
      <4>3. QED
        BY <4>1, <4>2
    <3>3. QED
      BY <1>2, <3>1, <3>2 DEF Counted
  <2>3. QED
    BY <2>1, <2>2
<1>12. NoDanglingEdge'
  <2> SUFFICES ASSUME NEW x \in Edges, table'[x] # Absent, NEW e \in Ends[x]
               PROVE  table'[e] # Absent
    BY DEF NoDanglingEdge
  <2>1. CASE own[c][x] # Untouched
    BY <1>7, <2>1 DEF EndsBacked, WritesEdge
  <2>2. CASE own[c][x] = Untouched
    BY <1>7, <2>2 DEF NoDanglingEdge
  <2>3. QED
    BY <2>1, <2>2
<1>13. NoChangeUncounted'
  <2>1. /\ table[Version] \in Nat /\ table'[Version] \in Nat
        /\ changed[c] \in Nat /\ changes \in Nat
    BY <1>3 DEF GraphTypeOK, TransactionsTypeOK
  <2>2. QED
    BY <1>1, <1>2, <2>1, CommitMovesVersion DEF NoChangeUncounted
<1>14. QED
  BY <1>4, <1>5, <1>6, <1>8, <1>9, <1>10, <1>11, <1>12, <1>13

LEMMA StoreStutterSound ==
  ASSUME StoreInv, UNCHANGED graphVars
  PROVE  StoreInv'
<1> USE DEF StoreInv
<1>1. UNCHANGED <<backend, table, mode, snap, own, call, upserts, begun,
                  changed, changes>>
  BY DEF graphVars, txnVars, callVars
<1>2. TxnInv'
  BY StutterKeeps DEF graphVars
<1>3. GraphTypeOK' /\ CallsOpen' /\ RecordsStay'
  BY <1>1, <1>2 DEF TxnInv, GraphTypeOK, CallsOpen, IsOpen, RecordsStay
<1>4. EndsBacked' /\ SeenStands'
  BY <1>1 DEF EndsBacked, WritesEdge, SeenStands, Sees, Serial
<1>5. \A c \in Conns : Counted(c)'
  BY <1>1 DEF Counted, Pending, Serial
<1>6. NoDanglingEdge' /\ NoChangeUncounted'
  BY <1>1 DEF NoDanglingEdge, NoChangeUncounted, Serial
<1>7. QED
  BY <1>2, <1>3, <1>4, <1>5, <1>6

LEMMA StoreStepSound ==
  ASSUME StoreInv, GraphNext
  PROVE  StoreInv'
<1> PICK c \in Conns :
      \/ Begin(c)
      \/ \E row \in Records, doc \in Docs : Looks(c, row, doc)
      \/ \E row \in Edges : RefusesDangling(c, row)
      \/ ReturnsUnchanged(c) \/ Writes(c) \/ Touches(c)
      \/ Refused(c) \/ Commit(c) \/ Abort(c)
  BY DEF GraphNext
<1>1. CASE Begin(c)
  BY <1>1, BeginSound
<1>2. CASE \E row \in Records, doc \in Docs : Looks(c, row, doc)
  BY <1>2, LooksSound
<1>3. CASE \E row \in Edges : RefusesDangling(c, row)
  BY <1>3, AbandonedSound DEF RefusesDangling
<1>4. CASE ReturnsUnchanged(c)
  BY <1>4, ReturnsUnchangedSound
<1>5. CASE Writes(c)
  BY <1>5, WritesSound
<1>6. CASE Touches(c)
  BY <1>6, TouchesSound
<1>7. CASE Refused(c) \/ Abort(c)
  BY <1>7, AbandonedSound DEF Refused, Abort
<1>8. CASE Commit(c)
  BY <1>8, CommitSound
<1>9. QED
  BY <1>1, <1>2, <1>3, <1>4, <1>5, <1>6, <1>7, <1>8

(* The version never goes back, and stands still only with the graph.      *)
LEMMA VersionMoves ==
  ASSUME StoreInv, GraphNext
  PROVE  /\ table'[Version] >= table[Version]
         /\ table'[Version] = table[Version] => table' = table
<1> PICK c \in Conns :
      \/ Begin(c)
      \/ \E row \in Records, doc \in Docs : Looks(c, row, doc)
      \/ \E row \in Edges : RefusesDangling(c, row)
      \/ ReturnsUnchanged(c) \/ Writes(c) \/ Touches(c)
      \/ Refused(c) \/ Commit(c) \/ Abort(c)
  BY DEF GraphNext
<1>1. table[Version] \in Nat
  BY RowFacts DEF StoreInv, GraphTypeOK, TransactionsTypeOK
<1>2. CASE Commit(c)
  <2>1. changed[c] \in Nat /\ table'[Version] \in Nat
    BY <1>2, CommitSound, RowFacts
       DEF StoreInv, GraphTypeOK, TransactionsTypeOK
  <2>2. QED
    BY <1>1, <1>2, <2>1, CommitMovesVersion
<1>3. CASE ~Commit(c)
  <2>1. table' = table
    BY <1>3 DEF Begin, BeginTxn, Looks, ReadTxn, RefusesDangling, Abandoned,
                RollbackTxn, ReturnsUnchanged, txnVars, Writes, WriteTxn,
                Touches, Refused, Abort
  <2>2. QED
    BY <1>1, <2>1
<1>4. QED
  BY <1>2, <1>3

-----------------------------------------------------------------------------
(* Induction over the naturals, by sets: a set of naturals that is not     *)
(* empty has a least member, because the intervals below its members are   *)
(* finite sets.                                                            *)
LEMMA LeastNumber ==
  ASSUME NEW S \in SUBSET Nat, S # {}
  PROVE  \E n \in S : \A m \in S : n <= m
<1> DEFINE T == {0..n : n \in S}
           R == StrictSubsetOrdering(Nat)
<1>1. T \subseteq FiniteSubsetsOf(Nat) /\ T # {}
  <2>1. ASSUME NEW n \in S
        PROVE  IsFiniteSet(0..n) /\ 0..n \in SUBSET Nat
    <3>1. 0 \in Int /\ n \in Int
      OBVIOUS
    <3>2. IsFiniteSet(0..n)
      BY <3>1, FS_Interval
    <3>3. QED
      BY <3>2
  <2>2. QED
    BY <2>1 DEF FiniteSubsetsOf
<1>2. PICK x \in T : \A y \in T : <<y, x>> \notin R
  <2>1. IsWellFoundedOn(R, FiniteSubsetsOf(Nat))
    BY FS_StrictSubsetOrderingWellFounded
  <2> HIDE DEF T, R
  <2>2. QED
    BY <2>1, <1>1, WFMin
<1>3. PICK n \in S : x = 0..n
  BY <1>2
<1>4. ASSUME NEW m \in S, m < n
      PROVE  FALSE
  <2>1. n \in 0..n /\ n \notin 0..m /\ 0..m \subseteq 0..n
    BY <1>4
  <2>2. <<0..m, 0..n>> \in R
    BY <2>1 DEF StrictSubsetOrdering
  <2>3. QED
    BY <2>2, <1>2, <1>3
<1>5. QED
  BY <1>4

LEMMA InductionBySet ==
  ASSUME NEW S, 0 \in S, \A n \in Nat : n \in S => n + 1 \in S
  PROVE  Nat \subseteq S
<1> DEFINE U == Nat \ S
<1> SUFFICES ASSUME U # {} PROVE FALSE
  OBVIOUS
<1>1. PICK n \in U : \A m \in U : n <= m
  <2>1. U \in SUBSET Nat
    OBVIOUS
  <2> HIDE DEF U
  <2>2. QED
    BY <2>1, LeastNumber
<1>2. n # 0 /\ n - 1 \in Nat /\ n - 1 \in S
  BY <1>1
<1>3. QED
  BY <1>1, <1>2

(* The nodes one more hop adds to those reached.                           *)
Hop(tab, nodes) == nodes \union Across(UNION {At(tab, e) : e \in nodes})

(* The recursive function of Reached is the one its equation describes.    *)
LEMMA ReachedSteps ==
  ASSUME NEW tab
  PROVE  /\ Reached(tab)[0] = {Root}
         /\ \A n \in 1..MaxDepth :
              Reached(tab)[n] = Hop(tab, Reached(tab)[n - 1])
<1> DEFINE Solves(f, n) ==
             f = [k \in 0..n |-> IF k = 0 THEN {Root} ELSE Hop(tab, f[k - 1])]
           S == {n \in Nat : \E f : Solves(f, n)}
<1>1. 0 \in S
  <2>1. Solves([k \in 0..0 |-> {Root}], 0)
    OBVIOUS
  <2>2. QED
    BY <2>1
<1>2. ASSUME NEW n \in Nat, n \in S
      PROVE  n + 1 \in S
  <2>1. PICK f : Solves(f, n)
    BY <1>2
  <2> DEFINE g == [k \in 0..(n + 1) |-> IF k = n + 1 THEN Hop(tab, f[n])
                                      ELSE f[k]]
  <2>2. \A k \in 0..n : f[k] = IF k = 0 THEN {Root} ELSE Hop(tab, f[k - 1])
    BY <2>1
  <2>3. \A k \in 0..n : g[k] = f[k]
    OBVIOUS
  <2>4. g[n + 1] = Hop(tab, g[n])
    BY <2>3
  <2>5. \A k \in 0..(n + 1) :
          g[k] = IF k = 0 THEN {Root} ELSE Hop(tab, g[k - 1])
    <3> TAKE k \in 0..(n + 1)
    <3>1. CASE k = n + 1
      BY <2>4, <3>1
    <3>2. CASE k # n + 1 /\ k # 0
      <4>1. k \in 0..n /\ k - 1 \in 0..n
        BY <3>2
      <4>2. QED
        BY <2>2, <2>3, <3>2, <4>1
    <3>3. CASE k = 0
      BY <2>2, <2>3, <3>3
    <3>4. QED
      BY <3>1, <3>2, <3>3
  <2>6. Solves(g, n + 1)
    BY <2>5
  <2> HIDE DEF Solves
  <2>7. QED
    BY <2>6
<1>3. PICK f : Solves(f, MaxDepth)
  <2>1. MaxDepth \in Nat
    BY CaptureAssumption
  <2>2. MaxDepth \in S
    <3> HIDE DEF S
    <3>1. QED
      BY <1>1, <1>2, <2>1, InductionBySet
  <2>3. QED
    BY <2>2
<1>4. Solves(Reached(tab), MaxDepth)
  BY <1>3, Zenon DEF Reached, Hop
<1>5. \A k \in 0..MaxDepth :
        Reached(tab)[k] =
          IF k = 0 THEN {Root} ELSE Hop(tab, Reached(tab)[k - 1])
  <2> DEFINE R == Reached(tab)
  <2>1. R = [k \in 0..MaxDepth |->
               IF k = 0 THEN {Root} ELSE Hop(tab, R[k - 1])]
    BY <1>4
  <2> HIDE DEF R
  <2>2. \A k \in 0..MaxDepth :
          R[k] = IF k = 0 THEN {Root} ELSE Hop(tab, R[k - 1])
    BY <2>1, Zenon
  <2>3. QED
    BY <2>2 DEF R
<1>6. 0 \in 0..MaxDepth /\ \A n \in 1..MaxDepth : n \in 0..MaxDepth /\ n # 0
  BY CaptureAssumption
<1>7. QED
  BY <1>5, <1>6

(* Once a hop reaches nothing new, no later one does.                      *)
LEMMA ReachedSettles ==
  ASSUME NEW tab, NEW n \in 0..(MaxDepth - 1),
         Reached(tab)[n + 1] = Reached(tab)[n]
  PROVE  \A k \in n..MaxDepth : Reached(tab)[k] = Reached(tab)[n]
<1> DEFINE S == {i \in Nat : n + i <= MaxDepth =>
                               Reached(tab)[n + i] = Reached(tab)[n]}
<1>1. 0 \in S
  OBVIOUS
<1>2. ASSUME NEW i \in Nat, i \in S
      PROVE  i + 1 \in S
  <2> SUFFICES ASSUME n + (i + 1) <= MaxDepth
               PROVE  Reached(tab)[n + (i + 1)] = Reached(tab)[n]
    OBVIOUS
  <2>1. /\ n + i \in 0..MaxDepth /\ n + (i + 1) \in 1..MaxDepth
        /\ n + 1 \in 1..MaxDepth
        /\ (n + (i + 1)) - 1 = n + i /\ (n + 1) - 1 = n
    BY CaptureAssumption
  <2>2. Reached(tab)[n + i] = Reached(tab)[n]
    BY <1>2, <2>1, CaptureAssumption
  <2>3. Reached(tab)[n + (i + 1)] = Reached(tab)[n + 1]
    BY <2>1, <2>2, ReachedSteps
  <2>4. QED
    BY <2>3
<1>3. Nat \subseteq S
  <2> HIDE DEF S
  <2>1. QED
    BY <1>1, <1>2, InductionBySet
<1>4. ASSUME NEW k \in n..MaxDepth
      PROVE  Reached(tab)[k] = Reached(tab)[n]
  <2>1. k - n \in Nat /\ n + (k - n) = k /\ k <= MaxDepth
    BY CaptureAssumption
  <2>2. k - n \in S
    BY <1>3, <2>1
  <2>3. QED
    BY <2>1, <2>2
<1>5. QED
  BY <1>4

-----------------------------------------------------------------------------
(* What is read piece by piece, while nothing changes, is what the pieces  *)
(* name.                                                                   *)
LEMMA OverStanding ==
  ASSUME NEW rows1, NEW rows2
  PROVE  Over(Standing(table, rows1), Standing(table, rows2)) =
           Standing(table, rows1 \union rows2)
  BY DEF Over, Standing

LEMMA NothingStanding ==
  /\ EmptyFingerprints = Standing(table, {})
  /\ EdgesOf(table, {}) = {} /\ Across({}) = {}
  BY DEF EmptyFingerprints, Standing, EdgesOf, Across

LEMMA EdgesAdd ==
  ASSUME NEW nodes, NEW e
  PROVE  EdgesOf(table, nodes \union {e}) =
           EdgesOf(table, nodes) \union At(table, e)
  BY DEF EdgesOf

LEMMA AcrossAdd ==
  ASSUME NEW edges1, NEW edges2
  PROVE  Across(edges1 \union edges2) = Across(edges1) \union Across(edges2)
  BY DEF Across

LEMMA AtTypes ==
  ASSUME NEW e
  PROVE  /\ At(table, e) \subseteq Edges
         /\ Across(At(table, e)) \subseteq Entities
<1>1. At(table, e) \subseteq Edges
  BY DEF At
<1>2. QED
  BY <1>1, RowFacts DEF Across

LEMMA CaptureInitSound == Init => CaptureInv
<1> SUFFICES ASSUME Init PROVE CaptureInv
  OBVIOUS
<1>1. CaptureTypeOK
  BY CaptureAssumption DEF Init, CaptureTypeOK, EmptyFingerprints
<1>2. QED
  BY <1>1 DEF Init, CaptureInv, Unstarted, CheckpointSound

(* What other processes commit meanwhile.                                  *)
LEMMA GraphStepKeepsCapture ==
  ASSUME StoreInv, CaptureInv, GraphNext, UNCHANGED captureVars
  PROVE  CaptureInv'
<1> USE DEF CaptureInv
<1>1. UNCHANGED <<phase, before, depth, frontier, visited, expanded, found,
                  pending, records, checkpoint>>
  BY DEF captureVars, walkVars
<1>2. /\ table'[Version] >= table[Version]
      /\ table'[Version] = table[Version] => table' = table
      /\ table[Version] \in Nat /\ table'[Version] \in Nat
  BY VersionMoves, StoreStepSound, RowFacts
     DEF StoreInv, GraphTypeOK, TransactionsTypeOK
<1>3. CaptureTypeOK' /\ (phase' \in {"idle", "start"} => Unstarted')
  BY <1>1 DEF CaptureTypeOK, Unstarted
<1>4. phase' # "idle" => before' <= table'[Version]
  BY <1>1, <1>2 DEF CaptureTypeOK
<1>5. ASSUME phase' \in {"walk", "nodes"}, before' = table'[Version]
      PROVE  WalkSound'
  <2>1. before = table[Version] /\ table' = table
    BY <1>1, <1>2, <1>5 DEF CaptureTypeOK
  <2>2. WalkSound
    BY <1>1, <1>5, <2>1
  <2>3. QED
    BY <1>1, <2>1, <2>2 DEF WalkSound
<1>6. CheckpointSound'
  <2> SUFFICES ASSUME checkpoint # NoCheckpoint
               PROVE  /\ checkpoint.version \in Nat
                      /\ checkpoint.version <= table'[Version]
                      /\ checkpoint.version = table'[Version] =>
                           checkpoint.records = Neighbourhood(table')
    BY <1>1 DEF CheckpointSound
  <2>1. /\ checkpoint.version \in Nat /\ checkpoint.version <= table[Version]
        /\ checkpoint.version = table[Version] =>
             checkpoint.records = Neighbourhood(table)
    BY DEF CheckpointSound
  <2>2. checkpoint.version = table'[Version] => table' = table
    BY <1>2, <2>1
  <2>3. QED
    BY <1>2, <2>1, <2>2
<1>7. QED
  BY <1>3, <1>4, <1>5, <1>6

LEMMA StartsSound ==
  ASSUME StoreInv, CaptureInv, StartCapture \/ StartRefused
  PROVE  CaptureInv'
<1> USE DEF CaptureInv
<1>1. /\ UNCHANGED <<table, depth, frontier, visited, expanded, found,
                     pending, records, checkpoint>>
      /\ \/ phase = "idle" /\ phase' = "start" /\ before' = table[Version]
         \/ phase = "start" /\ phase' = "idle" /\ before' = before
  BY DEF StartCapture, StartRefused, walkVars, graphVars, txnVars
<1>2. table[Version] \in Nat
  BY RowFacts DEF StoreInv, GraphTypeOK, TransactionsTypeOK
<1>3. CaptureTypeOK' /\ Unstarted'
  BY <1>1, <1>2 DEF CaptureTypeOK, Unstarted
<1>4. CheckpointSound'
  BY <1>1 DEF CheckpointSound
<1>5. QED
  BY <1>1, <1>2, <1>3, <1>4

LEMMA StartWalkSound ==
  ASSUME StoreInv, CaptureInv, StartWalk
  PROVE  CaptureInv'
<1> USE DEF CaptureInv
<1>1. /\ UNCHANGED <<table, before, depth, expanded, found, pending, records,
                     checkpoint>>
      /\ phase = "start" /\ phase' = "walk"
      /\ visited' = {Root} /\ frontier' = {Root}
  BY DEF StartWalk, graphVars, txnVars
<1>2. Unstarted
  BY <1>1
<1>3. CaptureTypeOK'
  BY <1>1, <1>2, CaptureAssumption DEF CaptureTypeOK, Unstarted
<1>4. /\ found' = Standing(table, EdgesOf(table, expanded'))
      /\ visited' = {Root} \union Across(EdgesOf(table, expanded'))
  BY <1>1, <1>2, NothingStanding DEF Unstarted
<1>5. expanded' \union frontier' = Reached(table)[depth']
  BY <1>1, <1>2, ReachedSteps DEF Unstarted
<1>6. WalkSound'
  BY <1>1, <1>2, <1>4, <1>5
     DEF WalkSound, Unstarted
<1>7. CheckpointSound'
  BY <1>1 DEF CheckpointSound
<1>8. QED
  BY <1>1, <1>3, <1>6, <1>7

LEMMA ExpandSound ==
  ASSUME StoreInv, CaptureInv, Expand
  PROVE  CaptureInv'
<1> USE DEF CaptureInv
<1>1. PICK e \in frontier :
        /\ frontier' = frontier \ {e}
        /\ expanded' = expanded \union {e}
        /\ found' = Over(found, Standing(table, At(table, e)))
        /\ visited' = visited \union Across(At(table, e))
  BY DEF Expand, Standing
<1>2. /\ phase = "walk" /\ phase' = "walk"
      /\ UNCHANGED <<table, before, depth, pending, records, checkpoint>>
  BY DEF Expand, graphVars, txnVars
<1>3. CaptureTypeOK'
  <2>1. DOMAIN found' \subseteq Edges
    BY <1>1, AtTypes DEF Over, Standing, CaptureTypeOK
  <2>2. QED
    BY <1>1, <1>2, <2>1, AtTypes DEF CaptureTypeOK
<1>4. ASSUME before = table[Version]
      PROVE  WalkSound'
  <2>1. WalkSound
    BY <1>2, <1>4
  <2>2. found' = Standing(table, EdgesOf(table, expanded'))
    BY <1>1, <2>1, EdgesAdd, OverStanding DEF WalkSound
  <2>3. visited' = {Root} \union Across(EdgesOf(table, expanded'))
    <3>1. EdgesOf(table, expanded') =
            EdgesOf(table, expanded) \union At(table, e)
      BY <1>1, EdgesAdd
    <3>2. Across(EdgesOf(table, expanded')) =
            Across(EdgesOf(table, expanded)) \union Across(At(table, e))
      BY <3>1, AcrossAdd
    <3>3. QED
      BY <1>1, <2>1, <3>2 DEF WalkSound
  <2>4. expanded' \union frontier' = expanded \union frontier
    BY <1>1
  <2>5. QED
    BY <1>2, <2>1, <2>2, <2>3, <2>4 DEF WalkSound
<1>5. CheckpointSound'
  BY <1>2 DEF CheckpointSound
<1>6. QED
  BY <1>2, <1>3, <1>4, <1>5

(* Once the frontier is used up the walk has the next hop.                 *)
LEMMA HopCompleted ==
  ASSUME CaptureTypeOK, WalkSound, phase = "walk", frontier = {}
  PROVE  /\ expanded = Reached(table)[depth]
         /\ visited = Reached(table)[depth + 1]
<1>1. expanded = Reached(table)[depth]
  BY DEF WalkSound
<1>2. depth + 1 \in 1..MaxDepth /\ (depth + 1) - 1 = depth
  BY CaptureAssumption DEF CaptureTypeOK
<1>3. Reached(table)[depth + 1] = Hop(table, expanded)
  BY <1>1, <1>2, ReachedSteps
<1>4. Hop(table, expanded) = expanded \union Across(EdgesOf(table, expanded))
  BY DEF Hop, EdgesOf
<1>5. {Root} \subseteq Reached(table)[depth + 1]
  <2> DEFINE S == {n \in Nat : n <= MaxDepth => Root \in Reached(table)[n]}
  <2>1. 0 \in S
    BY ReachedSteps
  <2>2. ASSUME NEW n \in Nat, n \in S
        PROVE  n + 1 \in S
    <3> SUFFICES ASSUME n + 1 <= MaxDepth
                 PROVE  Root \in Reached(table)[n + 1]
      OBVIOUS
    <3>1. n + 1 \in 1..MaxDepth /\ (n + 1) - 1 = n /\ n <= MaxDepth
      BY CaptureAssumption
    <3>2. Reached(table)[n + 1] = Hop(table, Reached(table)[n])
      BY <3>1, ReachedSteps
    <3>3. QED
      BY <2>2, <3>1, <3>2 DEF Hop
  <2>3. Nat \subseteq S
    <3> HIDE DEF S
    <3>1. QED
      BY <2>1, <2>2, InductionBySet
  <2>4. QED
    BY <1>2, <2>3, CaptureAssumption DEF CaptureTypeOK
<1>6. expanded \subseteq visited
  BY DEF CaptureTypeOK
<1>7. visited = {Root} \union Across(EdgesOf(table, expanded))
  BY DEF WalkSound
<1>8. QED
  BY <1>1, <1>3, <1>4, <1>5, <1>6, <1>7

LEMMA NextHopSound ==
  ASSUME StoreInv, CaptureInv, NextHop
  PROVE  CaptureInv'
<1> USE DEF CaptureInv
<1>1. /\ phase = "walk" /\ frontier = {} /\ depth + 1 < MaxDepth
      /\ depth' = depth + 1 /\ frontier' = visited \ expanded
      /\ UNCHANGED <<table, phase, before, visited, expanded, found, pending,
                     records, checkpoint>>
  BY DEF NextHop, graphVars, txnVars
<1>2. CaptureTypeOK'
  BY <1>1, CaptureAssumption DEF CaptureTypeOK
<1>3. ASSUME before = table[Version]
      PROVE  WalkSound'
  <2>1. WalkSound
    BY <1>1, <1>3
  <2>2. expanded' \union frontier' = Reached(table)[depth']
    BY <1>1, <2>1, HopCompleted DEF CaptureTypeOK
  <2>3. QED
    BY <1>1, <2>1, <2>2 DEF WalkSound
<1>4. CheckpointSound'
  BY <1>1 DEF CheckpointSound
<1>5. QED
  BY <1>1, <1>2, <1>3, <1>4

LEMMA EndWalkSound ==
  ASSUME StoreInv, CaptureInv, EndWalk
  PROVE  CaptureInv'
<1> USE DEF CaptureInv
<1>1. /\ phase = "walk" /\ frontier = {} /\ phase' = "nodes"
      /\ depth + 1 = MaxDepth \/ visited = expanded
      /\ pending' = visited
      /\ UNCHANGED <<table, before, depth, frontier, visited, expanded, found,
                     records, checkpoint>>
  BY DEF EndWalk, walkVars, graphVars, txnVars
<1>2. CaptureTypeOK'
  BY <1>1 DEF CaptureTypeOK
<1>3. ASSUME before = table[Version]
      PROVE  WalkSound'
  <2>1. WalkSound
    BY <1>1, <1>3
  <2>2. /\ expanded = Reached(table)[depth]
        /\ visited = Reached(table)[depth + 1]
    BY <1>1, <2>1, HopCompleted
  <2>3. /\ expanded = Reached(table)[MaxDepth - 1]
        /\ visited = Reached(table)[MaxDepth]
    <3>1. CASE depth + 1 = MaxDepth
      BY <2>2, <3>1, CaptureAssumption DEF CaptureTypeOK
    <3>2. CASE visited = expanded
      <4>1. /\ depth \in 0..(MaxDepth - 1)
            /\ MaxDepth - 1 \in depth..MaxDepth /\ MaxDepth \in depth..MaxDepth
        BY CaptureAssumption DEF CaptureTypeOK
      <4>2. QED
        BY <2>2, <3>2, <4>1, ReachedSettles
    <3>3. QED
      BY <1>1, <3>1, <3>2
  <2>4. {e \in visited' \ pending' : table'[e] # Absent} = {}
    BY <1>1
  <2>5. records' = Standing(table, {})
    BY <1>1, <2>1, NothingStanding DEF WalkSound
  <2>6. QED
    BY <1>1, <2>1, <2>3, <2>4, <2>5 DEF WalkSound
<1>4. CheckpointSound'
  BY <1>1 DEF CheckpointSound
<1>5. QED
  BY <1>1, <1>2, <1>3, <1>4

LEMMA ReadNodeSound ==
  ASSUME StoreInv, CaptureInv, ReadNode
  PROVE  CaptureInv'
<1> USE DEF CaptureInv
<1>1. PICK e \in pending :
        /\ pending' = pending \ {e}
        /\ records' = IF table[e] = Absent THEN records
                      ELSE Over(records, Standing(table, {e}))
  <2>1. \A e : [r \in {e} |-> table[e]] = Standing(table, {e})
    BY DEF Standing
  <2>2. QED
    BY <2>1 DEF ReadNode
<1>2. /\ phase = "nodes" /\ phase' = "nodes"
      /\ UNCHANGED <<table, before, depth, frontier, visited, expanded, found,
                     checkpoint>>
  BY DEF ReadNode, walkVars, graphVars, txnVars
<1>3. CaptureTypeOK'
  BY <1>1, <1>2 DEF CaptureTypeOK, Over, Standing
<1>4. ASSUME before = table[Version]
      PROVE  WalkSound'
  <2> DEFINE there(nodes) == {n \in visited \ nodes : table[n] # Absent}
  <2>1. WalkSound
    BY <1>2, <1>4
  <2>2. pending \subseteq visited /\ records = Standing(table, there(pending))
    BY <1>2, <2>1 DEF WalkSound
  <2>3. there(pending') =
          IF table[e] = Absent THEN there(pending)
          ELSE there(pending) \union {e}
    BY <1>1, <2>2
  <2>4. records' = Standing(table, there(pending'))
    <3> HIDE DEF there
    <3>1. QED
      BY <1>1, <2>2, <2>3, OverStanding
  <2>5. QED
    BY <1>1, <1>2, <2>1, <2>2, <2>4 DEF WalkSound
<1>5. CheckpointSound'
  BY <1>2 DEF CheckpointSound
<1>6. QED
  BY <1>2, <1>3, <1>4, <1>5

LEMMA EndCaptureSound ==
  ASSUME EndCapture
  PROVE  phase' = "idle" /\ Unstarted'
  BY DEF EndCapture, Unstarted, EmptyFingerprints

LEMMA FinishCaptureSound ==
  ASSUME StoreInv, CaptureInv, FinishCapture
  PROVE  CaptureInv'
<1> USE DEF CaptureInv
<1>1. /\ phase = "nodes" /\ pending = {} /\ table[Version] = before
      /\ checkpoint' = [version |-> before, records |-> Over(records, found)]
      /\ UNCHANGED <<table, before>>
      /\ phase' = "idle" /\ Unstarted'
  BY EndCaptureSound DEF FinishCapture, graphVars, txnVars
<1>2. CaptureTypeOK'
  BY <1>1, CaptureAssumption DEF CaptureTypeOK, Unstarted, EmptyFingerprints
<1>3. Over(records, found) = Neighbourhood(table)
  <2> DEFINE edges == EdgesOf(table, Reached(table)[MaxDepth - 1])
             nodes == {e \in Reached(table)[MaxDepth] : table[e] # Absent}
  <2>1. WalkSound
    BY <1>1
  <2>2. records = Standing(table, nodes) /\ found = Standing(table, edges)
    BY <1>1, <2>1 DEF WalkSound
  <2>3. Over(records, found) = Standing(table, nodes \union edges)
    BY <2>2, OverStanding
  <2>4. Neighbourhood(table) = Standing(table, edges \union nodes)
    BY DEF Neighbourhood, Standing, EdgesOf
  <2>5. edges \union nodes = nodes \union edges
    OBVIOUS
  <2>6. QED
    BY <2>3, <2>4, <2>5
<1>4. CheckpointSound'
  BY <1>1, <1>3 DEF CheckpointSound, CaptureTypeOK
<1>5. QED
  BY <1>1, <1>2, <1>4

LEMMA RefuseCaptureSound ==
  ASSUME StoreInv, CaptureInv, RefuseCapture
  PROVE  CaptureInv'
<1> USE DEF CaptureInv
<1>1. UNCHANGED <<table, before, checkpoint>> /\ phase' = "idle" /\ Unstarted'
  BY EndCaptureSound DEF RefuseCapture, graphVars, txnVars
<1>2. CaptureTypeOK'
  BY <1>1, CaptureAssumption DEF CaptureTypeOK, Unstarted, EmptyFingerprints
<1>3. CheckpointSound'
  BY <1>1 DEF CheckpointSound
<1>4. QED
  BY <1>1, <1>2, <1>3

-----------------------------------------------------------------------------
LEMMA InvInductive ==
  ASSUME IInv, [Next]_vars
  PROVE  IInv'
<1> USE DEF IInv
<1>1. CASE GraphNext /\ UNCHANGED captureVars
  BY <1>1, StoreStepSound, GraphStepKeepsCapture
<1>2. CASE StartCapture \/ StartRefused
  BY <1>2, StartsSound, StoreStutterSound DEF StartCapture, StartRefused
<1>3. CASE StartWalk
  BY <1>3, StartWalkSound, StoreStutterSound DEF StartWalk
<1>4. CASE Expand
  BY <1>4, ExpandSound, StoreStutterSound DEF Expand
<1>5. CASE NextHop
  BY <1>5, NextHopSound, StoreStutterSound DEF NextHop
<1>6. CASE EndWalk
  BY <1>6, EndWalkSound, StoreStutterSound DEF EndWalk
<1>7. CASE ReadNode
  BY <1>7, ReadNodeSound, StoreStutterSound DEF ReadNode
<1>8. CASE FinishCapture
  BY <1>8, FinishCaptureSound, StoreStutterSound DEF FinishCapture
<1>9. CASE RefuseCapture
  BY <1>9, RefuseCaptureSound, StoreStutterSound DEF RefuseCapture
<1>10. CASE UNCHANGED vars
  <2>1. UNCHANGED graphVars /\ UNCHANGED captureVars /\ table' = table
    BY <1>10 DEF vars, graphVars, txnVars
  <2>2. StoreInv'
    BY <2>1, StoreStutterSound
  <2>3. CaptureInv'
    BY <2>1 DEF CaptureInv, CaptureTypeOK, Unstarted, WalkSound,
                CheckpointSound, captureVars, walkVars
  <2>4. QED
    BY <2>2, <2>3
<1>11. QED
  BY <1>1, <1>2, <1>3, <1>4, <1>5, <1>6, <1>7, <1>8, <1>9, <1>10 DEF Next

(* The inductive invariant of the store and of the capture over it.        *)
THEOREM InvHolds == Spec => []IInv
<1>1. Init => IInv
  BY StoreInitSound, CaptureInitSound DEF Init, IInv
<1>2. IInv /\ [Next]_vars => IInv'
  BY InvInductive
<1>3. QED
  BY <1>1, <1>2, PTL DEF Spec

(* Every variable keeps its type: rows hold numbers, a capture's sets are  *)
(* of entities and its fingerprints of the rows of the graph.              *)
THEOREM TypesHold == Spec => []TypeOK
<1>1. IInv => TypeOK
  BY DEF IInv, StoreInv, CaptureInv, CaptureTypeOK, TypeOK
<1>2. QED
  BY <1>1, InvHolds, PTL

(* require_node of the two stores: however many transactions interleave,   *)
(* over either database, no committed edge names an entity that is not     *)
(* there.                                                                  *)
THEOREM NoEdgeDangles == Spec => []NoDanglingEdge
<1>1. IInv => NoDanglingEdge
  BY DEF IInv, StoreInv
<1>2. QED
  BY <1>1, InvHolds, PTL

(* touch_graph: no increment of the graph version is lost between          *)
(* concurrent transactions, and in a SQLite file it counts the material    *)
(* changes exactly.                                                        *)
THEOREM EveryChangeCounted == Spec => []NoChangeUncounted
<1>1. IInv => NoChangeUncounted
  BY DEF IInv, StoreInv
<1>2. QED
  BY <1>1, InvHolds, PTL

(* The version is a fence: it never goes back, and a commit that leaves it *)
(* where it was has left every row where it was.                           *)
VersionFences ==
  /\ table'[Version] >= table[Version]
  /\ table'[Version] = table[Version] => table' = table

(* No step of any process slips past the fence a capture relies on.        *)
THEOREM VersionIsAFence == Spec => [][VersionFences]_vars
<1>1. IInv /\ [Next]_vars => [VersionFences]_vars
  <2> SUFFICES ASSUME IInv, Next PROVE VersionFences
    BY DEF vars
  <2>1. CASE GraphNext
    BY <2>1, VersionMoves DEF IInv, VersionFences
  <2>2. CASE ~GraphNext
    <3>1. table' = table
      BY <2>2 DEF Next, StartCapture, StartRefused, StartWalk, Expand, NextHop,
                  EndWalk, ReadNode, FinishCapture, RefuseCapture, graphVars,
                  txnVars
    <3>2. table[Version] \in Nat
      BY RowFacts DEF IInv, StoreInv, GraphTypeOK, TransactionsTypeOK
    <3>3. QED
      BY <3>1, <3>2 DEF VersionFences
  <2>3. QED
    BY <2>1, <2>2
<1>2. QED
  BY <1>1, InvHolds, PTL DEF Spec

(* still_current of checkpoint.rs: a checkpoint whose version is the       *)
(* store's holds what a capture taken now would, although it was read row  *)
(* by row, to any depth, while any number of processes were committing.    *)
THEOREM CurrentIsHonest == Spec => []StillCurrentIsHonest
<1>1. IInv => StillCurrentIsHonest
  BY DEF IInv, CaptureInv, CheckpointSound, StillCurrentIsHonest
<1>2. QED
  BY <1>1, InvHolds, PTL
=============================================================================
