------------------------ MODULE Transactions_proofs -------------------------
(***************************************************************************)
(* What the two databases keep true between the transactions of any number *)
(* of processes: the lemmas the proofs about the stores built on           *)
(* Transactions rest on, one for each step a transaction takes.            *)
(***************************************************************************)
EXTENDS Transactions, TLAPS

(* A connection without a transaction holds nothing; one that has written  *)
(* a row is writing.                                                       *)
OwnsWhatItWrote ==
  \A c \in Conns :
    /\ mode[c] = "closed" => own[c] = Blank /\ snap[c] = Blank
    /\ mode[c] # "writing" => own[c] = Blank

(* The one write lock of a SQLite file, and the snapshot it protects: a    *)
(* transaction that is not stale looks at the database as it is.           *)
OneWriter ==
  Serial =>
    \A c \in Conns :
      /\ \A d \in Conns :
           mode[c] = "writing" /\ mode[d] = "writing" => c = d
      /\ mode[c] \in {"reading", "writing"} => snap[c] = table
      /\ mode[c] = "stale" => snap[c] \in [Rows -> Values]

(* The row locks of PostgreSQL.                                            *)
OneWriterPerRow ==
  ~Serial =>
    \A c, d \in Conns, row \in Rows :
      own[c][row] # Untouched /\ own[d][row] # Untouched => c = d

TxnInv ==
  TransactionsTypeOK /\ OwnsWhatItWrote /\ OneWriter /\ OneWriterPerRow

(* What a writing transaction asked the database for, whichever it is.     *)
HasLocks(c, rows) ==
  /\ Serial => MayTakeLock(c)
  /\ ~Serial => \A row \in rows : CanWrite(c, row)

-----------------------------------------------------------------------------
LEMMA BlankType == Blank \in [Rows -> Values \union {Untouched}]
  BY DEF Blank

(* Before anything is opened.                                              *)
LEMMA TransactionsStartSound ==
  ASSUME NEW initial \in [Rows -> Values], TransactionsInit(initial)
  PROVE  TxnInv
<1>1. TransactionsTypeOK
  BY BlankType DEF TransactionsInit, TransactionsTypeOK
<1>2. OwnsWhatItWrote /\ OneWriter /\ OneWriterPerRow
  BY DEF TransactionsInit, OwnsWhatItWrote, OneWriter, OneWriterPerRow, Blank
<1>3. QED
  BY <1>1, <1>2 DEF TxnInv

(* What a statement reads is a value: a row it sees as Untouched is        *)
(* nowhere.                                                                *)
LEMMA SeesAValue ==
  ASSUME TxnInv, NEW c \in Conns, IsOpen(c), NEW row \in Rows
  PROVE  Sees(c, row) \in Values /\ Latest(c, row) \in Values
<1> USE DEF TxnInv, TransactionsTypeOK
<1>1. Latest(c, row) \in Values
  BY DEF Latest
<1>2. CASE Serial /\ mode[c] # "open"
  <2>1. snap[c] \in [Rows -> Values]
    BY <1>2 DEF OneWriter, IsOpen
  <2>2. QED
    BY <1>1, <2>1 DEF Sees
<1>3. CASE ~(Serial /\ mode[c] # "open")
  BY <1>1, <1>3 DEF Sees
<1>4. QED
  BY <1>2, <1>3

(* A statement whose transaction holds the database's one write lock, or   *)
(* has it within reach, sees what an UPDATE would find.                    *)
LEMMA SeesTheLatest ==
  ASSUME TxnInv, NEW c \in Conns, IsOpen(c), Serial, mode[c] # "stale",
         NEW row \in Rows
  PROVE  Sees(c, row) = Latest(c, row)
<1>1. CASE mode[c] = "open"
  BY <1>1 DEF Sees, Latest
<1>2. CASE mode[c] \in {"reading", "writing"}
  BY <1>2 DEF Sees, Latest, TxnInv, OneWriter
<1>3. QED
  BY <1>1, <1>2 DEF TxnInv, TransactionsTypeOK, IsOpen

-----------------------------------------------------------------------------
LEMMA BeginKeeps ==
  ASSUME TxnInv, NEW c \in Conns, BeginTxn(c)
  PROVE  TxnInv'
<1> USE DEF TxnInv
<1>1. /\ mode[c] = "closed" /\ mode' = [mode EXCEPT ![c] = "open"]
      /\ UNCHANGED <<backend, table, snap, own>>
  BY DEF BeginTxn
<1>2. TransactionsTypeOK'
  BY <1>1 DEF TransactionsTypeOK
<1>3. OwnsWhatItWrote'
  BY <1>1 DEF OwnsWhatItWrote, TransactionsTypeOK, Blank
<1>4. OneWriter'
  BY <1>1 DEF OneWriter, TransactionsTypeOK, Serial
<1>5. OneWriterPerRow'
  BY <1>1 DEF OneWriterPerRow, Serial
<1>6. QED
  BY <1>2, <1>3, <1>4, <1>5

(* Nothing happens to the database.                                        *)
LEMMA StutterKeeps ==
  ASSUME TxnInv, UNCHANGED txnVars
  PROVE  TxnInv'
<1> USE DEF TxnInv
<1>1. UNCHANGED <<backend, table, mode, snap, own>>
  BY DEF txnVars
<1>2. TransactionsTypeOK' /\ OwnsWhatItWrote'
  BY <1>1 DEF TransactionsTypeOK, OwnsWhatItWrote
<1>3. OneWriter'
  BY <1>1 DEF OneWriter, Serial
<1>4. OneWriterPerRow'
  BY <1>1 DEF OneWriterPerRow, Serial
<1>5. QED
  BY <1>2, <1>3, <1>4

(* The snapshot a statement takes is the database as it is, or the one it  *)
(* had.                                                                    *)
LEMMA SnapshotType ==
  ASSUME TxnInv, NEW c \in Conns
  PROVE  /\ Snapshot(c) \in [Rows -> Values \union {Untouched}]
         /\ Serial /\ mode[c] \in {"open", "reading", "writing"} =>
              Snapshot(c) = table
  BY DEF TxnInv, TransactionsTypeOK, OneWriter, Snapshot

LEMMA ReadKeeps ==
  ASSUME TxnInv, NEW c \in Conns, IsOpen(c), ReadTxn(c)
  PROVE  TxnInv'
<1> USE DEF TxnInv
<1>1. /\ mode' = [mode EXCEPT ![c] =
                    IF Serial /\ mode[c] = "open" THEN "reading" ELSE mode[c]]
      /\ snap' = [snap EXCEPT ![c] = Snapshot(c)]
      /\ UNCHANGED <<backend, table, own>>
  BY DEF ReadTxn
<1>2. TransactionsTypeOK'
  BY <1>1, SnapshotType DEF TransactionsTypeOK
<1>3. OwnsWhatItWrote'
  BY <1>1 DEF OwnsWhatItWrote, TransactionsTypeOK, Blank, IsOpen
<1>4. OneWriter'
  BY <1>1, SnapshotType DEF OneWriter, TransactionsTypeOK, Serial, Snapshot,
                            IsOpen
<1>5. OneWriterPerRow'
  BY <1>1 DEF OneWriterPerRow, Serial
<1>6. QED
  BY <1>2, <1>3, <1>4, <1>5

LEMMA WriteKeeps ==
  ASSUME TxnInv, NEW c \in Conns, NEW values, WriteTxn(c, values),
         IsOpen(c), HasLocks(c, DOMAIN values),
         \A row \in DOMAIN values : row \in Rows /\ values[row] \in Values
  PROVE  TxnInv'
<1> USE DEF TxnInv
<1>1. /\ mode' = [mode EXCEPT ![c] = "writing"]
      /\ snap' = [snap EXCEPT ![c] = Snapshot(c)]
      /\ own' = [own EXCEPT ![c] = [row \in Rows |->
                   IF row \in DOMAIN values THEN values[row] ELSE own[c][row]]]
      /\ UNCHANGED <<backend, table>>
  BY DEF WriteTxn
<1>2. TransactionsTypeOK'
  BY <1>1, SnapshotType DEF TransactionsTypeOK
<1>3. OwnsWhatItWrote'
  BY <1>1 DEF OwnsWhatItWrote, TransactionsTypeOK, Blank, IsOpen
<1>4. OneWriter'
  BY <1>1, SnapshotType DEF OneWriter, TransactionsTypeOK, Serial, IsOpen,
                            HasLocks, MayTakeLock
<1>5. OneWriterPerRow'
  <2> SUFFICES ASSUME ~Serial, NEW a \in Conns, NEW d \in Conns,
                      NEW row \in Rows,
                      own'[a][row] # Untouched, own'[d][row] # Untouched
               PROVE  a = d
    BY <1>1 DEF OneWriterPerRow, Serial
  <2>1. \A e \in Conns :
          own'[e][row] # own[e][row] => e = c /\ row \in DOMAIN values
    BY <1>1 DEF TransactionsTypeOK
  <2>2. row \in DOMAIN values =>
          \A e \in Conns \ {c} : own[e][row] = Untouched
    BY DEF HasLocks, CanWrite
  <2>3. QED
    BY <2>1, <2>2 DEF OneWriterPerRow
<1>6. QED
  BY <1>2, <1>3, <1>4, <1>5

LEMMA RollbackKeeps ==
  ASSUME TxnInv, NEW c \in Conns, RollbackTxn(c)
  PROVE  TxnInv'
<1> USE DEF TxnInv
<1>1. /\ mode' = [mode EXCEPT ![c] = "closed"]
      /\ snap' = [snap EXCEPT ![c] = Blank]
      /\ own' = [own EXCEPT ![c] = Blank]
      /\ UNCHANGED <<backend, table>>
  BY DEF RollbackTxn, CloseTxn
<1>2. TransactionsTypeOK'
  BY <1>1, BlankType DEF TransactionsTypeOK
<1>3. OwnsWhatItWrote'
  BY <1>1 DEF OwnsWhatItWrote, TransactionsTypeOK, Blank
<1>4. OneWriter'
  BY <1>1 DEF OneWriter, TransactionsTypeOK, Serial
<1>5. OneWriterPerRow'
  BY <1>1 DEF OneWriterPerRow, TransactionsTypeOK, Serial, Blank
<1>6. QED
  BY <1>2, <1>3, <1>4, <1>5

(* A commit that wrote nothing changes nothing.                            *)
LEMMA CommitChanges ==
  ASSUME TxnInv, NEW c \in Conns, CommitTxn(c)
  PROVE  /\ table' \in [Rows -> Values]
         /\ \A row \in Rows :
              table'[row] = IF own[c][row] # Untouched THEN own[c][row]
                            ELSE table[row]
         /\ mode[c] # "writing" => table' = table
<1> USE DEF TxnInv, TransactionsTypeOK
<1>1. table' = [row \in Rows |-> Latest(c, row)]
  BY DEF CommitTxn
<1>2. ASSUME mode[c] # "writing" PROVE table' = table
  <2>1. \A row \in Rows : own[c][row] = Untouched
    BY <1>2 DEF OwnsWhatItWrote, Blank
  <2>2. QED
    BY <1>1, <2>1 DEF Latest
<1>3. QED
  BY <1>1, <1>2 DEF Latest

LEMMA CommitKeeps ==
  ASSUME TxnInv, NEW c \in Conns, CommitTxn(c)
  PROVE  TxnInv'
<1> USE DEF TxnInv
<1>1. /\ snap' = [snap EXCEPT ![c] = Blank]
      /\ own' = [own EXCEPT ![c] = Blank]
      /\ mode' = [d \in Conns |->
                    IF d = c THEN "closed"
                    ELSE IF mode[c] = "writing" /\ mode[d] = "reading"
                         THEN "stale" ELSE mode[d]]
      /\ UNCHANGED backend
  BY DEF CommitTxn, CloseTxn
<1>2. TransactionsTypeOK'
  BY <1>1, BlankType, CommitChanges DEF TransactionsTypeOK
<1>3. OwnsWhatItWrote'
  BY <1>1 DEF OwnsWhatItWrote, TransactionsTypeOK, Blank
<1>4. OneWriter'
  <2> SUFFICES ASSUME Serial
               PROVE  \A a \in Conns :
                        /\ \A d \in Conns :
                             mode'[a] = "writing" /\ mode'[d] = "writing" =>
                               a = d
                        /\ mode'[a] \in {"reading", "writing"} =>
                             snap'[a] = table'
                        /\ mode'[a] = "stale" => snap'[a] \in [Rows -> Values]
    BY <1>1 DEF OneWriter, Serial
  <2>1. CASE mode[c] = "writing"
    BY <1>1, <2>1 DEF OneWriter, TransactionsTypeOK
  <2>2. CASE mode[c] # "writing"
    BY <1>1, <2>2, CommitChanges DEF OneWriter, TransactionsTypeOK
  <2>3. QED
    BY <2>1, <2>2
<1>5. OneWriterPerRow'
  BY <1>1 DEF OneWriterPerRow, TransactionsTypeOK, Serial, Blank
<1>6. QED
  BY <1>2, <1>3, <1>4, <1>5
=============================================================================
