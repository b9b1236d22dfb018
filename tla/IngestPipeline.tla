--------------------------- MODULE IngestPipeline ---------------------------
(***************************************************************************)
(* Pipeline::prepare and ingest_batch of brolga-ingest over STIX           *)
(* documents: every document of a batch is prepared first, then evidence,  *)
(* records and quarantined rows are written in one transaction.            *)
(*                                                                         *)
(* The caller (a sync, or a person with a directory of files) offers the   *)
(* batches of a feed in order, and offers one again that failed, as a sync *)
(* does whose cursor did not advance.                                      *)
(***************************************************************************)
EXTENDS StixParser

CONSTANTS
  Feeds,         \* sequences of batches; a batch is a sequence of documents
  Unreadable,    \* a document that is too large, of no known format or broken
  Oversized,     \* documents longer than a store keeps originals of
  Modes,         \* the ingestion modes in use
  MaxFaults      \* bound on cancellations, storage failures and crashes

Permissive == "permissive"
Strict == "strict"

ASSUME PipelineAssumption ==
  /\ Feeds \subseteq Seq(Seq(Seq(Objects) \union {Unreadable}))
  /\ Unreadable \notin Seq(Objects)
  /\ Oversized \subseteq Seq(Objects)
  /\ Modes \subseteq {Permissive, Strict}
  /\ MaxFaults \in Nat

VARIABLES
  feed,          \* the batches
  mode,          \* IngestMode
  retaining,     \* whether the originals are kept
  landed,        \* batches whose ingestion returned Ok
  stage,         \* idle, preparing, evidence or writing
  reports,       \* DocumentReports of the batch so far
  left,          \* records of the current document not yet written
  store,         \* what is committed
  txn,           \* what the open transaction sees
  faults

vars == <<feed, mode, retaining, landed, stage, reports, left, store, txn,
          faults>>
config == <<feed, mode, retaining>>

Documents ==
  UNION {UNION {ToSet(batch) : batch \in ToSet(f)} : f \in Feeds}

(* What the parser makes of them.                                          *)
Output == [doc \in Documents \ {Unreadable} |-> Parse(doc)]

Batch == feed[landed + 1]

Empty == [originals |-> {}, sources |-> {}, records |-> {}, quarantine |-> {}]
NoBatch == [documents |-> <<>>, at |-> 1]

-----------------------------------------------------------------------------
(* The error a document ends preparation with, whatever the others are:    *)
(* not readable, over the limits, rejections in strict mode, a record that *)
(* the model refuses (`Relationship::validated`: an edge to itself).       *)
SelfEdge(record) == record.kind = "relationship" /\ record.node = record.with

Prepares(doc) ==
  /\ doc # Unreadable
  /\ Output[doc].within
  /\ mode = Strict => Output[doc].rejected = {}
  /\ \A record \in Output[doc].records : ~SelfEdge(record)

Report(doc) ==
  [document |-> doc, records |-> Output[doc].records,
   rejected |-> Output[doc].rejected]

(* Mutant: edges come first.                                               *)
RankEdgesFirst(record) == IF record.kind = "entity" THEN 1 ELSE 0

(* ParsedRecord::sort_key, up to the identifiers.                          *)
Rank(record) ==
  CASE record.kind = "entity"       -> 0
    [] record.kind = "relationship" -> 1
    [] record.kind = "claim"        -> 2
    [] record.kind = "sighting"     -> 3

(* What the transaction still has to write of the document at a position.  *)
RecordsAt(documents, at) ==
  IF at > Len(documents) THEN {} ELSE documents[at].records

Offered == {r.document : r \in ToSet(reports.documents)}

-----------------------------------------------------------------------------
(* The call ends; without a commit nothing of it stays.                    *)
Ended ==
  /\ stage' = "idle"
  /\ reports' = NoBatch
  /\ left' = {}
  /\ txn' = Empty

Failed == Ended /\ UNCHANGED <<config, landed, store>>

StartBatch ==
  /\ stage = "idle"
  /\ landed < Len(feed)
  /\ stage' = "preparing"
  /\ UNCHANGED <<config, landed, reports, left, store, txn, faults>>

Unprepared == stage = "preparing" /\ Len(reports.documents) < Len(Batch)

PrepareDocument ==
  LET doc == Batch[Len(reports.documents) + 1] IN
  /\ Unprepared
  /\ Prepares(doc)
  /\ reports' = [reports EXCEPT !.documents = Append(@, Report(doc))]
  /\ UNCHANGED <<config, landed, stage, left, store, txn, faults>>

(* Mutant: the rejections of a refused document are quarantined at once.   *)
PrepareFailsLoudly ==
  LET doc == Batch[Len(reports.documents) + 1] IN
  /\ Unprepared
  /\ ~Prepares(doc)
  /\ Ended
  /\ store' = IF doc = Unreadable THEN store ELSE
       [store EXCEPT !.quarantine = @ \union
          {<<doc, r[1], r[2]>> : r \in Output[doc].rejected}]
  /\ UNCHANGED <<config, landed, faults>>

PrepareFails ==
  /\ Unprepared
  /\ ~Prepares(Batch[Len(reports.documents) + 1])
  /\ Failed
  /\ UNCHANGED faults

OpenTransaction ==
  /\ stage = "preparing"
  /\ Len(reports.documents) = Len(Batch)
  /\ stage' = "evidence"
  /\ txn' = store
  /\ UNCHANGED <<config, landed, reports, left, store, faults>>

(* `put_source_blob` refuses what is longer than `max_blob_bytes`, which is *)
(* the store's and may be less than what the pipeline reads.               *)
OriginalsFit == retaining => Offered \intersect Oversized = {}

(* Mutant: only the originals that gave records are kept.                  *)
WriteEvidenceOfRecords ==
  LET useful == {r.document : r \in {s \in ToSet(reports.documents) :
                                       s.records # {}}} IN
  /\ stage = "evidence"
  /\ OriginalsFit
  /\ stage' = "writing"
  /\ txn' = [originals |->
                 txn.originals \union (IF retaining THEN useful ELSE {}),
               sources |-> txn.sources \union Offered,
               records |-> txn.records, quarantine |-> txn.quarantine]
  /\ left' = RecordsAt(reports.documents, 1)
  /\ UNCHANGED <<config, landed, reports, store, faults>>

(* Originals and source objects, each once, before anything derived from   *)
(* them.                                                                   *)
WriteEvidence ==
  /\ stage = "evidence"
  /\ OriginalsFit
  /\ stage' = "writing"
  /\ txn' = [originals |->
                 txn.originals \union (IF retaining THEN Offered ELSE {}),
               sources |-> txn.sources \union Offered,
               records |-> txn.records, quarantine |-> txn.quarantine]
  /\ left' = RecordsAt(reports.documents, 1)
  /\ UNCHANGED <<config, landed, reports, store, faults>>

(* "The refusal has to be able to take the whole batch with it": the rows  *)
(* the refusal leaves in the audit trail are rolled back with the rest.    *)
RefuseEvidence ==
  /\ stage = "evidence"
  /\ ~OriginalsFit
  /\ Failed
  /\ UNCHANGED faults

(* A row is keyed by its record and carries the origin it was last         *)
(* written with.                                                           *)
Upserted(rows, record, doc) ==
  {row \in rows : row.record # record}
    \union {[record |-> record, origin |-> doc]}

Holds(rows, node) ==
  \E row \in rows : row.record.kind = "entity" /\ row.record.node = node

(* require_node, for both ends of an edge and the subject of the others.   *)
Dangling(rows, record) ==
  LET named == IF record.kind = "relationship"
               THEN {record.node, record.with} ELSE {record.node}
  IN /\ record.kind # "entity"
     /\ \E node \in named : IsEntity(node) /\ ~Holds(rows, node)

(* The records of a document are written in order of their sort keys.      *)
Foremost(record) ==
  /\ record \in left
  /\ \A other \in left : Rank(record) <= Rank(other)

WriteRecord ==
  \E record \in left :
    /\ stage = "writing"
    /\ Foremost(record)
    /\ ~Dangling(txn.records, record)
    /\ txn' = [txn EXCEPT !.records =
                 Upserted(@, record, reports.documents[reports.at].document)]
    /\ left' = left \ {record}
    /\ UNCHANGED <<config, landed, stage, reports, store, faults>>

RefuseRecord ==
  \E record \in left :
    /\ stage = "writing"
    /\ Foremost(record)
    /\ Dangling(txn.records, record)
    /\ Failed
    /\ UNCHANGED faults

Unfinished == stage = "writing" /\ reports.at <= Len(reports.documents)

(* The rejected rows of the document, and on to the next one.              *)
Quarantine ==
  LET report == reports.documents[reports.at] IN
  /\ Unfinished
  /\ left = {}
  /\ txn' = [txn EXCEPT !.quarantine = @ \union
               {<<report.document, r[1], r[2]>> : r \in report.rejected}]
  /\ reports' = [reports EXCEPT !.at = @ + 1]
  /\ left' = RecordsAt(reports.documents, reports.at + 1)
  /\ UNCHANGED <<config, landed, stage, store, faults>>

Commit ==
  /\ stage = "writing"
  /\ ~Unfinished
  /\ store' = txn
  /\ landed' = landed + 1
  /\ Ended
  /\ UNCHANGED <<config, faults>>

(* `cancel.check()?` between the stages of preparation and before the      *)
(* transaction opens; a storage error or the death of the process at any   *)
(* point: the transaction is rolled back.                                  *)
Interrupted ==
  /\ stage # "idle"
  /\ faults < MaxFaults
  /\ Failed
  /\ faults' = faults + 1

-----------------------------------------------------------------------------
Init ==
  /\ feed \in Feeds
  /\ mode \in Modes
  /\ retaining \in BOOLEAN
  /\ landed = 0
  /\ stage = "idle"
  /\ reports = NoBatch
  /\ left = {}
  /\ store = Empty
  /\ txn = Empty
  /\ faults = 0

PipelineStep ==
  \/ StartBatch \/ PrepareDocument \/ PrepareFails \/ OpenTransaction
  \/ WriteEvidence \/ RefuseEvidence \/ WriteRecord \/ RefuseRecord
  \/ Quarantine \/ Commit

Next == PipelineStep \/ Interrupted

Spec == Init /\ [][Next]_vars

(* The pipeline runs to its end, and the caller tries again.               *)
FairSpec == Spec /\ WF_vars(PipelineStep)

-----------------------------------------------------------------------------
NodeSpace == {EntityNode(n) : n \in Names}
               \union {ObservableNode(v) : v \in Artefacts}

IsRecord(record) ==
  /\ record.node \in NodeSpace
  /\ \/ record.kind = "entity" /\ IsEntity(record.node) /\ record.with = None
     \/ record.kind = "relationship" /\ record.with \in NodeSpace
     \/ record.kind = "claim" /\ ~IsEntity(record.node)
     \/ /\ record.kind = "sighting" /\ ~IsEntity(record.node)
        /\ record.with # None =>
             record.with \in {EntityNode(n) : n \in Names}

IsStore(s) ==
  /\ s.originals \subseteq Documents
  /\ s.sources \subseteq Documents
  /\ \A row \in s.records : row.origin \in Documents /\ IsRecord(row.record)
  /\ \A entry \in s.quarantine : entry[1] \in Documents

(* The variables have their types; in particular a sighting is by an       *)
(* entity or by nobody, whatever `created_by_ref` names.                   *)
TypeOK ==
  /\ feed \in Feeds /\ mode \in Modes /\ retaining \in BOOLEAN
  /\ landed \in 0..Len(feed)
  /\ stage \in {"idle", "preparing", "evidence", "writing"}
  /\ IsStore(store) /\ IsStore(txn)
  /\ faults \in 0..MaxFaults

Landed == UNION {ToSet(feed[k]) : k \in 1..landed}

Entries(kind) == {row.record : row \in {r \in store.records :
                                          r.record.kind = kind}}

(* What the store shows of one object of a document.                       *)
Shown(doc, i) ==
  LET object == doc[i]
      About(kind, v) == \E r \in Entries(kind) : r.node = ObservableNode(v)
  IN CASE object.type = "sdo" ->
            \E n \in {object.name} \ {None} :
              EntityRecord(Cut[n]) \in Entries("entity")
       [] object.type \in {"sco", "indicator"} ->
            /\ object.observables # {}
            /\ \A v \in object.observables : About("claim", v)
       [] object.type = "observed-data" ->
            LET seen == ObservedObservables(doc, i)
            IN seen # {} /\ \A v \in seen : About("sighting", v)
       [] object.type = "relationship" ->
            /\ Sources(doc, i) # {} /\ Targets(doc, i) # {}
            /\ \A s \in Sources(doc, i), t \in Targets(doc, i) :
                 EdgeRecord(s, t) \in Entries("relationship")
       [] OTHER -> FALSE

QuarantinedAt(doc, i) ==
  \E entry \in store.quarantine : entry[1] = doc /\ entry[2] = i

(* pipeline.rs: "Valid records are persisted; rejected ones are            *)
(* quarantined", and in strict mode there are no rejected ones: no object  *)
(* of a batch that landed falls between the two.  Marking definitions are  *)
(* consumed.                                                               *)
EveryObjectAccounted ==
  \A doc \in Landed : \A i \in DOMAIN doc :
    \/ doc[i].type = "marking-definition"
    \/ Shown(doc, i)
    \/ mode = Permissive /\ QuarantinedAt(doc, i)

(* "A failure anywhere leaves the store exactly as it was": nothing of a   *)
(* batch that did not land is in the store, however far it got.            *)
OnlyLandedIsStored ==
  /\ store.sources = Landed
  /\ store.originals \subseteq Landed
  /\ \A row \in store.records : row.origin \in Landed
  /\ \A entry \in store.quarantine : entry[1] \in Landed

(* "A canonical record that commits alongside a reference to bytes that    *)
(* were refused is a dangling reference": what a record or a quarantined   *)
(* row came from is in the store with it, its bytes too where they are     *)
(* retained.                                                               *)
EvidenceBacksRecords ==
  \A doc \in {row.origin : row \in store.records}
               \union {entry[1] : entry \in store.quarantine} :
    /\ doc \in store.sources
    /\ retaining => doc \in store.originals

(* collect_nodes: "a relationship can appear before the objects it joins". *)
(* The records of a bundle whose identifiers are distinct do not depend on *)
(* the order of its objects, unless that decides which edges are one too   *)
(* many.                                                                   *)
MappingIgnoresOrder ==
  LET n == Len(reports.documents) IN
  stage = "preparing" /\ n > 0 =>
    LET report == reports.documents[n]
        doc == report.document
        distinct == \A i, j \in DOMAIN doc : i # j => doc[i].id # doc[j].id
        fansFit == \A r \in report.rejected : r[2] # "fan_out_exceeded"
        Reordered(p) == [i \in DOMAIN doc |-> doc[p[i]]]
    IN distinct /\ fansFit =>
         \A p \in Bijection(DOMAIN doc, DOMAIN doc) :
           Parse(Reordered(p)).records = report.records

(* An edge the parser accepts names an entity it does not write.           *)
Drifts(records) ==
  \E edge \in {r \in records : r.kind = "relationship"} :
    \E node \in {edge.node, edge.with} :
      IsEntity(node) /\ EntityRecord(node[2]) \notin records

Obstructed(doc) ==
  \/ doc = Unreadable
  \/ ~Output[doc].within
  \/ mode = Strict /\ Output[doc].rejected # {}
  \/ \E r \in Output[doc].records :
       r.kind = "relationship" /\ r.node = r.with
  \/ Drifts(Output[doc].records)
  \/ retaining /\ doc \in Oversized

(* Nothing but the four errors of preparation, a name that the mapper      *)
(* changes and an original that retention has no room for keeps a batch    *)
(* out: a feed without them is ingested to its end, through cancellations, *)
(* storage failures and crashes.                                           *)
UnobstructedFeedLands ==
  (\A batch \in ToSet(feed) : \A doc \in ToSet(batch) : ~Obstructed(doc))
    => <>(landed = Len(feed))

(* IngestMode::Permissive: "One malformed row in a hundred thousand should *)
(* not discard the other 99,999"; fetch_command.rs: "Strict would make one *)
(* unmappable object cost the whole page".  In permissive mode a feed of   *)
(* readable documents that fit is ingested, its bad rows in quarantine.    *)
PermissiveSparesTheRest ==
  (\A batch \in ToSet(feed) : \A doc \in ToSet(batch) :
     doc \notin Oversized \union {Unreadable} /\ Output[doc].within)
    => (mode = Permissive => <>(landed = Len(feed)))
=============================================================================
