----------------------------- MODULE StoreTables -----------------------------
(***************************************************************************)
(* brolga-storage: the tables that are not the graph.  What failed and how *)
(* often, what was decided, the named checkpoints, the source objects, the *)
(* cursors; the bytes of a blob; and the labels a metric is counted under. *)
(*                                                                         *)
(* Every call is one transaction, serial as SQLite makes its writers (see  *)
(* Transactions).  A row's key is the tuple its id is a hash of; the clock *)
(* is the number of calls made.                                            *)
(***************************************************************************)
EXTENDS StoreReads, FiniteSetsExt, Functions

CONSTANTS
  Entries,       \* what may be quarantined
  Decisions,     \* what may be decided
  Documents,     \* checkpoint and source documents
  CheckpointNames,  \* numbers, in the order of their text
  LabelValues,   \* of one label of one metric
  MaxCalls       \* bound on the calls


VARIABLES
  backend,
  quarantined, decided, checkpoints, sources, cursors,  \* key -> row
  labels,        \* value -> how often
  calls          \* what was called, and what it answered

tables == <<quarantined, decided, checkpoints, sources, cursors, labels>>
tablesVars == <<backend, quarantined, decided, checkpoints, sources, cursors, labels, calls>>

Now == Len(calls) + 1
NoRows == [k \in {} |-> None]
Row(table, key) == IF key \in DOMAIN table THEN table[key] ELSE None
Stored(table, key, row) == [k \in DOMAIN table \union {key} |-> IF k = key THEN row ELSE table[k]]

Answered(op, key, about, said) ==
  /\ Len(calls) < MaxCalls
  /\ calls' = Append(calls, [op |-> op, key |-> key, about |-> about, said |-> said])
  /\ UNCHANGED backend

-----------------------------------------------------------------------------

(* Where in the document; an index is worth more than an offset.           *)
Position(entry) ==
  CASE entry.index # None                          -> <<"index", entry.index>>
    [] entry.index = None /\ entry.offset # None   -> <<"offset", entry.offset>>
    [] OTHER                                       -> <<"whole-document">>

(* derive_id: what went wrong and where, not how it was worded.            *)
QuarantineId(entry) ==
  <<entry.source, entry.parser, entry.version, entry.stage, entry.reason_kind, Position(entry)>>

FragmentMaxChars == 3   \* FRAGMENT_MAX_CHARS, scaled down from 512

(* Control characters go, the rest is cut; the cut shows.                  *)
SanitiseFragment(fragment) ==
  LET plain == SelectSeq(fragment, LAMBDA ch : ch # "control") IN
  IF Len(plain) > FragmentMaxChars
  THEN Append(SubSeq(plain, 1, FragmentMaxChars), "ellipsis") ELSE plain

(* Mutant: a failure met again is one met for the first time.              *)
QuarantinedAgain(old, entry) ==
  [reason |-> entry.reason, fragment |-> SanitiseFragment(entry.fragment),
   first_seen |-> Now, last_seen |-> Now,
   occurrences |-> IF old = None THEN 1 ELSE old.occurrences + 1]

(* One row for a failure, however often it is met.                         *)
Quarantined(old, entry) ==
  [reason |-> entry.reason, fragment |-> SanitiseFragment(entry.fragment),
   first_seen |-> IF old = None THEN Now ELSE old.first_seen, last_seen |-> Now,
   occurrences |-> IF old = None THEN 1 ELSE old.occurrences + 1]

Quarantine(entry) ==
  LET id == QuarantineId(entry)  row == Quarantined(Row(quarantined, id), entry) IN
  /\ quarantined' = Stored(quarantined, id, row)
  /\ Answered("quarantine", id, entry, row.occurrences = 1)
  /\ UNCHANGED <<decided, checkpoints, sources, cursors, labels>>

QuarantinedForSource(source) ==
  {quarantined[id] : id \in {q \in DOMAIN quarantined : q[1] = source}}

QuarantineCount == Cardinality(DOMAIN quarantined)
(* The sum of a column: as many as there are times a row was met.          *)
QuarantineOccurrences ==
  Cardinality(UNION {{id} \X (1 .. quarantined[id].occurrences) : id \in DOMAIN quarantined})

-----------------------------------------------------------------------------

(* The actor is part of it: a decision of one replaces none of another's.  *)
DecisionId(d) ==
  <<d.kind, d.subject, d.observation,
    IF d.compared_with = None THEN "-" ELSE d.compared_with,
    IF d.actor = None THEN "-" ELSE d.actor>>

(* Deciding again leaves alone who did and under what authority.           *)
Decided(old, d) ==
  [verdict |-> d.verdict, algorithm |-> d.algorithm, reason |-> d.reason, decided_at |-> Now,
   actor |-> IF old = None THEN d.actor ELSE old.actor,
   policy_context |-> IF old = None THEN d.policy_context ELSE old.policy_context]

RecordGraphDecision(d) ==
  LET id == DecisionId(d)  old == Row(decided, id) IN
  /\ decided' = Stored(decided, id, Decided(old, d))
  /\ Answered("decide", id, d, old = None)
  /\ UNCHANGED <<quarantined, checkpoints, sources, cursors, labels>>

GraphDecisionsFor(subject) == {decided[id] : id \in {i \in DOMAIN decided : i[2] = subject}}

-----------------------------------------------------------------------------
PutCheckpoint(name, document) ==
  /\ checkpoints' = Stored(checkpoints, name, document)
  /\ Answered("checkpoint", name, document, name \notin DOMAIN checkpoints)
  /\ UNCHANGED <<quarantined, decided, sources, cursors, labels>>

DeleteCheckpoint(name) ==
  /\ checkpoints' = [n \in DOMAIN checkpoints \ {name} |-> checkpoints[n]]
  /\ Answered("delete", name, None, name \in DOMAIN checkpoints)
  /\ UNCHANGED <<quarantined, decided, sources, cursors, labels>>

ListCheckpoints == ById(DOMAIN checkpoints)
GetCheckpoint(name) == Row(checkpoints, name)

(* SQLite looks whether it was there when it already is.                   *)
UpsertSourceObject(id, document) ==
  LET old == Row(sources, id) IN
  /\ sources' = Stored(sources, id, document)
  /\ Answered("source", id, document,
       CASE old = document                          -> "unchanged"
         [] old # document /\ (old # None \/ backend = "sqlite") -> "updated"
         [] OTHER                                   -> "inserted")
  /\ UNCHANGED <<quarantined, decided, checkpoints, cursors, labels>>

(* One cursor for a connector's feed, the last that was put.               *)
PutConnectorCursor(feed, cursor) ==
  /\ cursors' = Stored(cursors, feed, cursor)
  /\ Answered("cursor", feed, cursor, None)
  /\ UNCHANGED <<quarantined, decided, checkpoints, sources, labels>>

-----------------------------------------------------------------------------
(* A blob: content and length; what it compresses to is the codec's.       *)
EncodeBytes(blob) ==
  IF blob.deflated < blob.length THEN [codec |-> "deflate", of |-> blob, stored |-> blob.deflated]
  ELSE [codec |-> "identity", of |-> blob, stored |-> blob.length]

DecodeBytes(codec, row) ==
  CASE codec = row.codec                          -> row.of
    [] codec = "deflate" /\ row.codec # "deflate"  -> None
    [] OTHER -> [content |-> "raw", length |-> row.stored, deflated |-> row.stored]

(* The bytes a row still has, under the address they were filed at.        *)
IntegrityHolds(address, metadata, blob) ==
  blob.content = address /\ blob.length = metadata.original_length

(* A row that no longer says what its address promises is corrupt: None.   *)
GetSourceBlob(address, metadata, row) ==
  LET blob == DecodeBytes(metadata.codec, row) IN
  IF blob # None /\ IntegrityHolds(address, metadata, blob) THEN blob ELSE None

-----------------------------------------------------------------------------

MaxLabelCardinality == 2   \* MAX_LABEL_CARDINALITY, scaled down from 64

Saturated == Cardinality(DOMAIN labels) >= MaxLabelCardinality

(* A value beyond the bound is not counted, one within it always is.       *)
ObserveLabel(value) ==
  LET known == value \in DOMAIN labels IN
  /\ labels' = IF known \/ ~Saturated
               THEN Stored(labels, value, IF known THEN labels[value] + 1 ELSE 1) ELSE labels
  /\ Answered("label", value, None, known \/ ~Saturated)
  /\ UNCHANGED <<quarantined, decided, checkpoints, sources, cursors>>

-----------------------------------------------------------------------------
(* A row is something, and no actor has the name that stands for none      *)
(* (decision.rs:64).                                                       *)
ASSUME StoreTablesAssumption ==
  /\ MaxCalls \in Nat
  /\ CheckpointNames \subseteq Nat
  /\ \A e \in Entries :
       None \notin [reason : {e.reason}, fragment : {SanitiseFragment(e.fragment)},
                   first_seen : Nat, last_seen : Nat, occurrences : Nat]
  /\ \A d \in Decisions : d.actor # "-"

TablesInit ==
  /\ backend \in {"sqlite", "postgres"}
  /\ quarantined = NoRows /\ decided = NoRows /\ checkpoints = NoRows
  /\ sources = NoRows /\ cursors = NoRows /\ labels = NoRows
  /\ calls = <<>>

TablesNext ==
  \/ \E e \in Entries : Quarantine(e)
  \/ \E d \in Decisions : RecordGraphDecision(d)
  \/ \E n \in CheckpointNames, doc \in Documents : PutCheckpoint(n, doc)
  \/ \E n \in CheckpointNames : DeleteCheckpoint(n)
  \/ \E n \in CheckpointNames, doc \in Documents : UpsertSourceObject(n, doc)
  \/ \E n \in CheckpointNames, doc \in Documents : PutConnectorCursor(n, doc)
  \/ \E v \in LabelValues : ObserveLabel(v)

TablesSpec == TablesInit /\ [][TablesNext]_tablesVars

-----------------------------------------------------------------------------
(* The calls of some kind, and those of them about one key.                *)
CallsOf(op) == {i \in DOMAIN calls : calls[i].op = op}
CallsAbout(ops, key) == {i \in DOMAIN calls : calls[i].op \in ops /\ calls[i].key = key}

(* A failure met over and over is one row that says how often, when first  *)
(* and when last, and only the first call is told it is new, so an ingest  *)
(* that is run again reports no failure twice (sqlite.rs:1664).            *)
FailuresAddUp ==
  /\ QuarantineOccurrences = Cardinality(CallsOf("quarantine"))
  /\ QuarantineCount = Cardinality({calls[i].key : i \in CallsOf("quarantine")})
  /\ \A i \in CallsOf("quarantine") :
       \E row \in QuarantinedForSource(calls[i].about.source) : row.first_seen <= i /\ i <= row.last_seen
  /\ \A id \in DOMAIN quarantined :
       LET met == CallsAbout({"quarantine"}, id)  row == quarantined[id] IN
       /\ row.first_seen = Min(met) /\ row.last_seen = Max(met)
       /\ \A i \in met : calls[i].said <=> i = Min(met)
       /\ row.reason = calls[Max(met)].about.reason

(* No decision of one actor is overwritten by another's or by a machine's, *)
(* and a decision taken again is one row with the last verdict             *)
(* (decision.rs:55).                                                       *)
DecisionsKeepTheirActors ==
  \A i \in CallsOf("decide") :
    LET d == calls[i].about
        later == {j \in CallsOf("decide") : j > i /\ calls[j].about.actor = d.actor
                    /\ calls[j].about.subject = d.subject} IN
    \E row \in GraphDecisionsFor(d.subject) :
      row.actor = d.actor /\ (later = {} => row.verdict = d.verdict)

(* Of a metric's label at most so many values are counted, and every one   *)
(* that is, is counted each time it is seen (audit.rs:316).                *)
LabelsStayBounded ==
  /\ Cardinality(DOMAIN labels) <= MaxLabelCardinality
  /\ \A v \in DOMAIN labels : labels[v] = Cardinality(CallsAbout({"label"}, v))
  /\ \A i \in CallsOf("label") : calls[i].said <=> calls[i].key \in DOMAIN labels

(* A checkpoint is new when no checkpoint of the name is there, replaced   *)
(* when one is, and gone once deleted (sqlite.rs:1711).                    *)
CheckpointsByName ==
  \A n \in CheckpointNames :
    LET made == CallsAbout({"checkpoint", "delete"}, n)
        IsThere(when) == when # {} /\ calls[Max(when)].op = "checkpoint" IN
    /\ GetCheckpoint(n) = IF made = {} THEN None ELSE calls[Max(made)].about
    /\ Contains(ListCheckpoints, n) <=> IsThere(made)
    /\ \A i \in made :
         calls[i].said <=> (calls[i].op = "delete") = IsThere({j \in made : j < i})
=============================================================================
