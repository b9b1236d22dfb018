----------------------- MODULE IngestPipeline_proofs ------------------------
(***************************************************************************)
(* Proofs about the ingestion pipeline, for every feed, every document and *)
(* whatever the parser makes of it.                                        *)
(***************************************************************************)
EXTENDS IngestPipeline, FiniteSetTheorems, WellFoundedInduction, TLAPS

Readable == Documents \ {Unreadable}
Reports == {Report(doc) : doc \in Readable}
Produced == UNION {Output[doc].records : doc \in Readable}
Refusals == UNION {{<<doc, r[1], r[2]>> : r \in Output[doc].rejected} :
                     doc \in Readable}

Stores ==
  [originals : SUBSET Documents, sources : SUBSET Documents,
   records : SUBSET [record : Produced, origin : Documents],
   quarantine : SUBSET Refusals]

Types0 ==
  /\ feed \in Feeds
  /\ landed \in 0..Len(feed)
  /\ stage \in {"idle", "preparing", "evidence", "writing"}
  /\ stage # "idle" => landed < Len(feed)
  /\ reports \in [documents : Seq(Reports), at : Nat \ {0}]
  /\ left \subseteq Produced
  /\ store \in Stores /\ txn \in Stores

(* The reports are those of the batch's documents, in their order; what is *)
(* left to write is of one of them.                                        *)
InStep ==
  /\ stage # "idle" =>
       /\ Len(reports.documents) <= Len(Batch)
       /\ \A k \in 1..Len(reports.documents) :
            reports.documents[k] = Report(Batch[k])
  /\ stage \in {"evidence", "writing"} =>
       Len(reports.documents) = Len(Batch)
  /\ stage = "idle" => reports = NoBatch
  /\ stage # "writing" => reports.at = 1
  /\ left # {} => reports.at <= Len(reports.documents)

(* Whatever in a store has an origin has it there too.                     *)
Backed(s) ==
  \A doc \in {row.origin : row \in s.records}
               \union {entry[1] : entry \in s.quarantine} :
    /\ doc \in s.sources
    /\ retaining => doc \in s.originals

Evidence ==
  /\ Backed(store)
  /\ store.sources = Landed
  /\ store.originals \subseteq Landed
  /\ stage = "evidence" => txn = store
  /\ stage = "writing" =>
       /\ Backed(txn)
       /\ txn.sources = Landed \union Offered
       /\ txn.originals \subseteq txn.sources
       /\ retaining => Offered \subseteq txn.originals

IInv == Types0 /\ InStep /\ Evidence

(* What the transaction owes the documents it has passed: their records,   *)
(* by identity, and their rejections.                                      *)
Rows(s) == {row.record : row \in s.records}
RejectedRows(doc) == {<<doc, r[1], r[2]>> : r \in Output[doc].rejected}

Carried(s, doc) ==
  /\ Output[doc].records \subseteq Rows(s)
  /\ RejectedRows(doc) \subseteq s.quarantine

(* What preparation let through.                                           *)
Passed(doc) ==
  /\ doc \in Readable
  /\ mode = Strict => Output[doc].rejected = {}

DocumentAt(k) == reports.documents[k].document

Written ==
  /\ mode \in Modes
  /\ \A doc \in Landed : Passed(doc) /\ Carried(store, doc)
  /\ \A k \in 1..Len(reports.documents) : Passed(DocumentAt(k))
  /\ stage = "writing" =>
       /\ Rows(store) \subseteq Rows(txn)
       /\ store.quarantine \subseteq txn.quarantine
       /\ \A k \in 1..Len(reports.documents) :
            /\ k < reports.at => Carried(txn, DocumentAt(k))
            /\ k = reports.at =>
                 Output[DocumentAt(k)].records \subseteq Rows(txn) \union left

-----------------------------------------------------------------------------
(* A report is about its document, a document of the feeds.                *)
LEMMA ReportFields ==
  ASSUME NEW doc \in Readable
  PROVE  /\ Report(doc) \in Reports
         /\ Report(doc).document = doc
         /\ Report(doc).records = Output[doc].records
         /\ Report(doc).records \subseteq Produced
         /\ {<<doc, r[1], r[2]>> : r \in Report(doc).rejected}
              \subseteq Refusals
<1>1. /\ Report(doc) \in Reports
      /\ Report(doc).document = doc
      /\ Report(doc).records = Output[doc].records
      /\ Report(doc).rejected = Output[doc].rejected
  BY DEF Report, Reports
<1>2. Output[doc].records \subseteq Produced
  BY DEF Produced
<1>3. {<<doc, r[1], r[2]>> : r \in Output[doc].rejected} \subseteq Refusals
  BY DEF Refusals
<1>4. QED
  BY <1>1, <1>2, <1>3

(* A batch of a feed is a sequence of documents of the feeds.              *)
LEMMA BatchDocuments ==
  ASSUME NEW f \in Feeds, NEW k \in 1..Len(f)
  PROVE  /\ f[k] \in Seq(Seq(Objects) \union {Unreadable})
         /\ \A j \in 1..Len(f[k]) : f[k][j] \in Documents
<1>1. f \in Seq(Seq(Seq(Objects) \union {Unreadable}))
  BY PipelineAssumption
<1>2. f[k] \in Seq(Seq(Objects) \union {Unreadable})
  BY <1>1
<1>3. f[k] \in ToSet(f)
  BY <1>1 DEF ToSet
<1>4. ASSUME NEW j \in 1..Len(f[k]) PROVE f[k][j] \in Documents
  <2>1. f[k][j] \in ToSet(f[k])
    BY <1>2 DEF ToSet
  <2>2. QED
    BY <2>1, <1>3 DEF Documents
<1>5. QED
  BY <1>2, <1>4

(* Every report in hand is of a readable document.                         *)
LEMMA ReportInHand ==
  ASSUME Types0, NEW k \in 1..Len(reports.documents)
  PROVE  /\ reports.documents[k].document \in Readable
         /\ reports.documents[k] = Report(reports.documents[k].document)
         /\ reports.documents[k].document \in Offered
<1>1. reports.documents \in Seq(Reports)
  BY DEF Types0
<1>2. reports.documents[k] \in Reports
  BY <1>1
<1>3. PICK doc \in Readable : reports.documents[k] = Report(doc)
  BY <1>2 DEF Reports
<1>4. reports.documents[k] \in ToSet(reports.documents)
  BY <1>1 DEF ToSet
<1>5. QED
  BY <1>3, <1>4, ReportFields DEF Offered

LEMMA OfferedDocuments ==
  ASSUME Types0
  PROVE  Offered \subseteq Documents
<1>1. reports.documents \in Seq(Reports)
  BY DEF Types0
<1>2. ASSUME NEW r \in ToSet(reports.documents)
      PROVE  r.document \in Documents
  <2>1. PICK k \in DOMAIN reports.documents : r = reports.documents[k]
    BY DEF ToSet
  <2>2. k \in 1..Len(reports.documents)
    BY <1>1
  <2>3. QED
    BY <2>1, <2>2, ReportInHand DEF Readable
<1>3. QED
  BY <1>2 DEF Offered

(* What remains to be written at a position of the sequence of reports.    *)
LEMMA RecordsAtBounds ==
  ASSUME Types0, NEW at \in Nat \ {0}
  PROVE  /\ RecordsAt(reports.documents, at) \subseteq Produced
         /\ RecordsAt(reports.documents, at) # {} =>
              at <= Len(reports.documents)
<1>0. reports.documents \in Seq(Reports)
  BY DEF Types0
<1>1. CASE at > Len(reports.documents)
  BY <1>0, <1>1 DEF RecordsAt
<1>2. CASE at <= Len(reports.documents)
  <2>1. at \in 1..Len(reports.documents)
    BY <1>0, <1>2
  <2>2. QED
    BY <1>0, <2>1, <1>2, ReportInHand, ReportFields DEF RecordsAt
<1>3. QED
  BY <1>0, <1>1, <1>2

LEMMA EmptyStore == Empty \in Stores /\ Empty.sources = {}
  BY DEF Empty, Stores

LEMMA NoBatchType ==
  /\ NoBatch \in [documents : Seq(Reports), at : Nat \ {0}]
  BY DEF NoBatch

-----------------------------------------------------------------------------
LEMMA InitSound == Init => IInv
<1> SUFFICES ASSUME Init PROVE IInv
  OBVIOUS
<1>1. feed \in Seq(Seq(Seq(Objects) \union {Unreadable}))
  BY PipelineAssumption DEF Init
<1>2. Types0
  BY <1>1, EmptyStore, NoBatchType DEF Init, Types0
<1>3. InStep
  BY DEF Init, InStep, NoBatch
<1>4. Landed = {}
  BY DEF Init, Landed
<1>5. Evidence
  BY <1>4 DEF Init, Evidence, Backed, Empty
<1>6. QED
  BY <1>2, <1>3, <1>5 DEF IInv

(* The sources of the landed batches depend on the feed and their number.  *)
LEMMA LandedKept ==
  ASSUME UNCHANGED <<feed, landed>>
  PROVE  Landed' = Landed
  BY DEF Landed

(* A call that ends without a commit keeps the invariant.                  *)
LEMMA FailedKeeps ==
  ASSUME IInv, Failed
  PROVE  IInv'
<1> USE DEF IInv
<1>1. /\ stage' = "idle" /\ reports' = NoBatch /\ left' = {}
      /\ txn' = Empty /\ UNCHANGED <<feed, retaining, landed, store>>
  BY DEF Failed, Ended, config
<1>2. Types0'
  BY <1>1, EmptyStore, NoBatchType DEF Types0
<1>3. InStep'
  BY <1>1 DEF InStep, NoBatch
<1>4. Evidence'
  BY <1>1, LandedKept DEF Evidence, Backed
<1>5. QED
  BY <1>2, <1>3, <1>4

LEMMA CommitKeeps ==
  ASSUME IInv, Commit
  PROVE  IInv'
<1> USE DEF IInv
<1>1. /\ stage' = "idle" /\ reports' = NoBatch /\ left' = {}
      /\ txn' = Empty /\ UNCHANGED <<feed, retaining>>
      /\ landed' = landed + 1 /\ store' = txn /\ stage = "writing"
  BY DEF Commit, Ended, config
<1>2. landed \in Nat /\ landed < Len(feed) /\ Len(feed) \in Nat
  BY <1>1, PipelineAssumption DEF Types0
<1>3. Types0'
  BY <1>1, <1>2, EmptyStore, NoBatchType DEF Types0
<1>4. InStep'
  BY <1>1 DEF InStep, NoBatch
<1>5. Landed' = Landed \union ToSet(Batch)
  <2>1. 1..landed' = (1..landed) \union {landed + 1}
    BY <1>1, <1>2
  <2>2. QED
    BY <1>1, <2>1 DEF Landed, Batch
<1>6. ToSet(Batch) = Offered
  <2>1. Batch \in Seq(Seq(Objects) \union {Unreadable})
    BY <1>2, BatchDocuments DEF Batch, Types0
  <2>2. reports.documents \in Seq(Reports)
    BY DEF Types0
  <2>3. /\ DOMAIN reports.documents = DOMAIN Batch
        /\ DOMAIN Batch = 1..Len(reports.documents)
    BY <1>1, <2>1, <2>2 DEF InStep
  <2>4. \A k \in DOMAIN Batch : reports.documents[k].document = Batch[k]
    <3> TAKE k \in DOMAIN Batch
    <3>1. k \in 1..Len(reports.documents)
      BY <2>3
    <3>2. reports.documents[k] = Report(Batch[k])
      BY <1>1, <3>1 DEF InStep
    <3>3. QED
      BY <3>2 DEF Report
  <2>5. QED
    BY <2>3, <2>4 DEF ToSet, Offered
<1>7. Evidence'
  BY <1>1, <1>5, <1>6 DEF Evidence, Backed
<1>8. QED
  BY <1>3, <1>4, <1>7

LEMMA PrepareKeeps ==
  ASSUME IInv, PrepareDocument
  PROVE  IInv'
<1> USE DEF IInv
<1> DEFINE doc == Batch[Len(reports.documents) + 1]
<1>1. /\ stage = "preparing"
      /\ Len(reports.documents) < Len(Batch)
      /\ doc # Unreadable
      /\ reports' = [reports EXCEPT !.documents = Append(@, Report(doc))]
      /\ UNCHANGED <<feed, retaining, landed, stage, left, store, txn>>
  BY DEF PrepareDocument, Unprepared, Prepares, config
<1>2. landed \in Nat /\ landed < Len(feed) /\ Len(feed) \in Nat
  BY <1>1, PipelineAssumption DEF Types0
<1>3. /\ Batch \in Seq(Seq(Objects) \union {Unreadable})
      /\ \A j \in 1..Len(Batch) : Batch[j] \in Documents
  BY <1>2, BatchDocuments DEF Batch, Types0
<1>4. reports.documents \in Seq(Reports)
  BY DEF Types0
<1>5. Len(reports.documents) + 1 \in 1..Len(Batch)
  BY <1>1, <1>3, <1>4
<1>6. doc \in Readable
  BY <1>1, <1>3, <1>5 DEF Readable
<1>7. Report(doc) \in Reports
  BY <1>6, ReportFields
<1>8. /\ reports'.documents = Append(reports.documents, Report(doc))
      /\ reports'.at = reports.at
      /\ reports' \in [documents : Seq(Reports), at : Nat \ {0}]
  <2>1. reports \in [documents : Seq(Reports), at : Nat \ {0}]
    BY DEF Types0
  <2>2. Append(reports.documents, Report(doc)) \in Seq(Reports)
    BY <1>4, <1>7
  <2> HIDE DEF doc
  <2>3. reports' = [documents |-> Append(reports.documents, Report(doc)),
                    at |-> reports.at]
    BY <1>1, <2>1
  <2>4. QED
    BY <2>1, <2>2, <2>3
<1>9. Types0'
  <2>1. UNCHANGED <<feed, landed, stage, left, store, txn>>
    BY <1>1
  <2>2. QED
    BY <2>1, <1>8 DEF Types0
<1>10. InStep'
  <2>1. Batch' = Batch
    BY <1>1 DEF Batch
  <2>2. Len(reports'.documents) = Len(reports.documents) + 1
    BY <1>4, <1>8
  <2>3. ASSUME NEW k \in 1..Len(reports'.documents)
        PROVE  reports'.documents[k] = Report(Batch[k])
    <3>1. CASE k = Len(reports.documents) + 1
      BY <1>4, <1>7, <1>8, <3>1
    <3>2. CASE k \in 1..Len(reports.documents)
      <4>1. reports.documents[k] = Report(Batch[k])
        BY <1>1, <3>2 DEF InStep
      <4>2. reports'.documents[k] = reports.documents[k]
        BY <1>4, <1>7, <1>8, <3>2
      <4>3. QED
        BY <4>1, <4>2
    <3>3. QED
      BY <1>4, <2>2, <2>3, <3>1, <3>2
  <2>4. left' # {} => reports'.at <= Len(reports'.documents)
    BY <1>1, <1>4, <1>8, <2>2 DEF InStep, Types0
  <2>5. Len(reports'.documents) <= Len(Batch)
    BY <1>5, <2>2
  <2>6. QED
    BY <1>1, <1>8, <2>1, <2>3, <2>4, <2>5 DEF InStep
<1>11. Evidence'
  BY <1>1, LandedKept DEF Evidence, Backed
<1>12. QED
  BY <1>9, <1>10, <1>11

LEMMA WriteEvidenceKeeps ==
  ASSUME IInv, WriteEvidence
  PROVE  IInv'
<1> USE DEF IInv
<1>1. /\ stage = "evidence" /\ stage' = "writing"
      /\ txn' = [originals |->
                     txn.originals \union (IF retaining THEN Offered ELSE {}),
                   sources |-> txn.sources \union Offered,
                   records |-> txn.records, quarantine |-> txn.quarantine]
      /\ left' = RecordsAt(reports.documents, 1)
      /\ UNCHANGED <<feed, retaining, landed, reports, store>>
  BY DEF WriteEvidence, Offered, config
<1>2. /\ txn'.sources = txn.sources \union Offered
      /\ txn'.originals =
           txn.originals \union (IF retaining THEN Offered ELSE {})
      /\ txn'.records = txn.records
      /\ txn'.quarantine = txn.quarantine
      /\ txn' \in Stores
  BY <1>1, OfferedDocuments DEF Types0, Stores
<1>3. /\ left' \subseteq Produced
      /\ left' # {} => 1 <= Len(reports.documents)
  BY <1>1, RecordsAtBounds
<1>4. Types0'
  BY <1>1, <1>2, <1>3 DEF Types0
<1>5. InStep'
  <2>1. left' # {} => reports'.at <= Len(reports'.documents)
    BY <1>1, <1>3 DEF InStep
  <2>2. QED
    BY <1>1, <2>1 DEF InStep, Batch
<1>6. Offered' = Offered
  BY <1>1 DEF Offered
<1>7. Evidence'
  BY <1>1, <1>2, <1>6, LandedKept DEF Evidence, Backed
<1>8. QED
  BY <1>4, <1>5, <1>7

LEMMA WriteRecordKeeps ==
  ASSUME IInv, WriteRecord
  PROVE  IInv'
<1> USE DEF IInv
<1>1. PICK record \in left :
        /\ stage = "writing"
        /\ txn' = [txn EXCEPT !.records = Upserted(@, record,
                     reports.documents[reports.at].document)]
        /\ left' = left \ {record}
        /\ UNCHANGED <<feed, retaining, landed, stage, reports, store>>
  BY DEF WriteRecord, config
<1> DEFINE doc == reports.documents[reports.at].document
<1>2. reports.documents \in Seq(Reports) /\ reports.at \in Nat \ {0}
  BY DEF Types0
<1>3. reports.at \in 1..Len(reports.documents)
  BY <1>2 DEF InStep
<1>4. doc \in Documents /\ doc \in Offered
  BY <1>3, ReportInHand DEF Readable
<1>5. record \in Produced
  BY DEF Types0
<1>6. /\ txn'.records = Upserted(txn.records, record, doc)
      /\ txn'.originals = txn.originals
      /\ txn'.sources = txn.sources
      /\ txn'.quarantine = txn.quarantine
      /\ txn' \in Stores
  BY <1>1, <1>4, <1>5 DEF Types0, Stores, Upserted
<1>7. Types0'
  BY <1>1, <1>6 DEF Types0
<1>8. InStep'
  BY <1>1 DEF InStep, Batch
<1>9. Offered' = Offered
  BY <1>1 DEF Offered
<1>10. Backed(txn)'
  <2>1. ASSUME NEW row \in txn'.records
        PROVE  /\ row.origin \in txn'.sources
               /\ retaining' => row.origin \in txn'.originals
    <3>1. CASE row \in txn.records
      BY <1>1, <1>6, <3>1 DEF Evidence, Backed
    <3>2. CASE row = [record |-> record, origin |-> doc]
      BY <1>1, <1>4, <1>6, <3>2 DEF Evidence
    <3>3. QED
      BY <1>6, <3>1, <3>2 DEF Upserted
  <2>2. ASSUME NEW entry \in txn'.quarantine
        PROVE  /\ entry[1] \in txn'.sources
               /\ retaining' => entry[1] \in txn'.originals
    BY <1>1, <1>6 DEF Evidence, Backed
  <2>3. QED
    BY <2>1, <2>2 DEF Backed
<1>11. Evidence'
  BY <1>1, <1>6, <1>9, <1>10, LandedKept DEF Evidence, Backed
<1>12. QED
  BY <1>7, <1>8, <1>11

LEMMA QuarantineKeeps ==
  ASSUME IInv, Quarantine
  PROVE  IInv'
<1> USE DEF IInv
<1> DEFINE report == reports.documents[reports.at]
           rows == {<<report.document, r[1], r[2]>> : r \in report.rejected}
<1>1. /\ stage = "writing" /\ reports.at <= Len(reports.documents)
      /\ txn' = [txn EXCEPT !.quarantine = @ \union rows]
      /\ reports' = [reports EXCEPT !.at = @ + 1]
      /\ left' = RecordsAt(reports.documents, reports.at + 1)
      /\ UNCHANGED <<feed, retaining, landed, stage, store>>
  BY DEF Quarantine, Unfinished, config
<1>2. reports.documents \in Seq(Reports) /\ reports.at \in Nat \ {0}
  BY DEF Types0
<1>3. reports.at \in 1..Len(reports.documents)
  BY <1>1, <1>2
<1>4. /\ report.document \in Readable
      /\ report.document \in Offered
      /\ report = Report(report.document)
  BY <1>3, ReportInHand
<1>5. rows \subseteq Refusals
  BY <1>4, ReportFields
<1>6. /\ txn'.quarantine = txn.quarantine \union rows
      /\ txn'.originals = txn.originals
      /\ txn'.sources = txn.sources
      /\ txn'.records = txn.records
      /\ txn' \in Stores
  BY <1>1, <1>5 DEF Types0, Stores
<1>7. /\ reports'.documents = reports.documents
      /\ reports'.at = reports.at + 1
      /\ reports' \in [documents : Seq(Reports), at : Nat \ {0}]
  BY <1>1, <1>2 DEF Types0
<1>8. /\ left' \subseteq Produced
      /\ left' # {} => reports.at + 1 <= Len(reports.documents)
  <2>1. reports.at + 1 \in Nat \ {0}
    BY <1>2
  <2>2. QED
    BY <1>1, <2>1, RecordsAtBounds
<1>9. Types0'
  BY <1>1, <1>6, <1>7, <1>8 DEF Types0
<1>10. InStep'
  BY <1>1, <1>7, <1>8 DEF InStep, Batch
<1>11. Offered' = Offered
  BY <1>7 DEF Offered
<1>12. Backed(txn)'
  <2>1. ASSUME NEW entry \in txn'.quarantine
        PROVE  /\ entry[1] \in txn'.sources
               /\ retaining' => entry[1] \in txn'.originals
    <3>1. CASE entry \in txn.quarantine
      BY <1>1, <1>6, <3>1 DEF Evidence, Backed
    <3>2. CASE entry \in rows
      <4>1. entry[1] = report.document
        BY <3>2
      <4>2. QED
        BY <4>1, <1>1, <1>4, <1>6 DEF Evidence
    <3>3. QED
      BY <1>6, <3>1, <3>2
  <2>2. ASSUME NEW row \in txn'.records
        PROVE  /\ row.origin \in txn'.sources
               /\ retaining' => row.origin \in txn'.originals
    BY <1>1, <1>6 DEF Evidence, Backed
  <2>3. QED
    BY <2>1, <2>2 DEF Backed
<1>13. Evidence'
  BY <1>1, <1>6, <1>11, <1>12, LandedKept DEF Evidence, Backed
<1>14. QED
  BY <1>9, <1>10, <1>13

(* The steps that only move the batch along.                               *)
LEMMA StartKeeps ==
  ASSUME IInv, StartBatch
  PROVE  IInv'
<1> USE DEF IInv
<1>1. /\ stage = "idle" /\ stage' = "preparing" /\ landed < Len(feed)
      /\ UNCHANGED <<feed, retaining, landed, reports, left, store, txn>>
  BY DEF StartBatch, config
<1>2. Types0'
  BY <1>1 DEF Types0
<1>3. InStep'
  <2>1. Len(reports.documents) = 0 /\ reports.at = 1 /\ left = {}
    BY <1>1 DEF InStep, NoBatch
  <2>2. Len(Batch') \in Nat
    BY <1>1, <1>2, BatchDocuments, PipelineAssumption DEF Types0, Batch
  <2>3. QED
    BY <1>1, <2>1, <2>2 DEF InStep
<1>4. Evidence'
  BY <1>1, LandedKept DEF Evidence, Backed
<1>5. QED
  BY <1>2, <1>3, <1>4

LEMMA OpenKeeps ==
  ASSUME IInv, OpenTransaction
  PROVE  IInv'
<1> USE DEF IInv
<1>1. /\ stage = "preparing" /\ stage' = "evidence" /\ txn' = store
      /\ Len(reports.documents) = Len(Batch)
      /\ UNCHANGED <<feed, retaining, landed, reports, left, store>>
  BY DEF OpenTransaction, config
<1>2. Types0'
  BY <1>1 DEF Types0
<1>3. InStep'
  BY <1>1 DEF InStep, Batch
<1>4. Evidence'
  BY <1>1, LandedKept DEF Evidence, Backed
<1>5. QED
  BY <1>2, <1>3, <1>4

LEMMA StepSound == IInv /\ [Next]_vars => IInv'
<1> SUFFICES ASSUME IInv, [Next]_vars PROVE IInv'
  OBVIOUS
<1>1. CASE StartBatch
  BY <1>1, StartKeeps
<1>2. CASE PrepareDocument
  BY <1>2, PrepareKeeps
<1>3. CASE PrepareFails
  BY <1>3, FailedKeeps DEF PrepareFails
<1>4. CASE OpenTransaction
  BY <1>4, OpenKeeps
<1>5. CASE WriteEvidence
  BY <1>5, WriteEvidenceKeeps
<1>6. CASE WriteRecord
  BY <1>6, WriteRecordKeeps
<1>7. CASE RefuseEvidence \/ RefuseRecord
  BY <1>7, FailedKeeps DEF RefuseEvidence, RefuseRecord
<1>8. CASE Quarantine
  BY <1>8, QuarantineKeeps
<1>9. CASE Commit
  BY <1>9, CommitKeeps
<1>10. CASE Interrupted
  BY <1>10, FailedKeeps DEF Interrupted
<1>11. CASE UNCHANGED vars
  <2>1. UNCHANGED <<feed, retaining, landed, stage, reports, left, store, txn>>
    BY <1>11 DEF vars
  <2>2. Types0'
    BY <2>1 DEF IInv, Types0
  <2>3. InStep'
    BY <2>1 DEF IInv, InStep, Batch
  <2>4. Evidence'
    BY <2>1, LandedKept DEF IInv, Evidence, Backed, Offered
  <2>5. QED
    BY <2>2, <2>3, <2>4 DEF IInv
<1>12. QED
  BY <1>1, <1>2, <1>3, <1>4, <1>5, <1>6, <1>7, <1>8, <1>9, <1>10, <1>11
  DEF Next, PipelineStep

-----------------------------------------------------------------------------
(* What a batch has passed of it is written.                               *)
LEMMA InitWritten == Init => Written
<1> SUFFICES ASSUME Init PROVE Written
  OBVIOUS
<1>1. Landed = {}
  BY DEF Init, Landed
<1>2. Len(reports.documents) = 0 /\ stage = "idle" /\ mode \in Modes
  BY DEF Init, NoBatch
<1>3. QED
  BY <1>1, <1>2 DEF Written

(* What a store carries depends on its records and its quarantine, which   *)
(* only grow while a batch is written.                                     *)
LEMMA CarriedOn ==
  ASSUME NEW s, NEW t, NEW doc, Carried(s, doc),
         Rows(s) \subseteq Rows(t), s.quarantine \subseteq t.quarantine
  PROVE  Carried(t, doc)
  BY DEF Carried

LEMMA FailedWritten ==
  ASSUME Written, Failed
  PROVE  Written'
<1>1. /\ stage' = "idle" /\ reports' = NoBatch
      /\ UNCHANGED <<feed, mode, landed, store>>
  BY DEF Failed, Ended, config
<1>2. Len(reports'.documents) = 0
  BY <1>1 DEF NoBatch
<1>3. QED
  BY <1>1, <1>2, LandedKept DEF Written, Passed

LEMMA StartWritten ==
  ASSUME IInv, Written, StartBatch \/ OpenTransaction
  PROVE  Written'
<1>1. /\ stage' # "writing"
      /\ UNCHANGED <<feed, mode, landed, reports, store>>
  BY DEF StartBatch, OpenTransaction, config
<1>2. QED
  BY <1>1, LandedKept DEF Written, Passed, DocumentAt

LEMMA PrepareWritten ==
  ASSUME IInv, Written, PrepareDocument
  PROVE  Written'
<1> DEFINE doc == Batch[Len(reports.documents) + 1]
<1>1. /\ stage = "preparing" /\ stage' = stage
      /\ Len(reports.documents) < Len(Batch)
      /\ Prepares(doc)
      /\ reports' = [reports EXCEPT !.documents = Append(@, Report(doc))]
      /\ UNCHANGED <<feed, mode, landed, store>>
  BY DEF PrepareDocument, Unprepared, config
<1>2. reports.documents \in Seq(Reports) /\ landed \in Nat /\ feed \in Feeds
      /\ landed + 1 \in 1..Len(feed)
  BY <1>1, PipelineAssumption DEF IInv, Types0
<1>3. doc \in Readable
  <2>1. /\ Batch \in Seq(Seq(Objects) \union {Unreadable})
        /\ \A j \in 1..Len(Batch) : Batch[j] \in Documents
    BY <1>2, BatchDocuments DEF Batch
  <2>2. Len(reports.documents) + 1 \in 1..Len(Batch)
    BY <1>1, <1>2, <2>1
  <2>3. QED
    BY <1>1, <2>1, <2>2 DEF Readable, Prepares
<1>4. Report(doc).document = doc /\ Report(doc) \in Reports
  BY <1>3, ReportFields
<1>5. reports'.documents = Append(reports.documents, Report(doc))
  <2>1. reports \in [documents : Seq(Reports), at : Nat \ {0}]
    BY DEF IInv, Types0
  <2> HIDE DEF doc
  <2>2. QED
    BY <1>1, <2>1
<1>6. Passed(doc)
  BY <1>1, <1>3 DEF Passed, Prepares
<1>7. ASSUME NEW k \in 1..Len(reports'.documents)
      PROVE  \/ DocumentAt(k)' = doc
             \/ /\ k \in 1..Len(reports.documents)
                /\ DocumentAt(k)' = DocumentAt(k)
  <2> HIDE DEF doc
  <2>1. Len(reports'.documents) = Len(reports.documents) + 1
    BY <1>2, <1>5
  <2>2. CASE k = Len(reports.documents) + 1
    BY <1>2, <1>4, <1>5, <2>2 DEF DocumentAt
  <2>3. CASE k \in 1..Len(reports.documents)
    BY <1>2, <1>4, <1>5, <2>3 DEF DocumentAt
  <2>4. QED
    BY <1>2, <2>1, <2>2, <2>3
<1>8. ASSUME NEW k \in 1..Len(reports'.documents)
      PROVE  Passed(DocumentAt(k)')
  <2> HIDE DEF doc
  <2>1. QED
    BY <1>6, <1>7 DEF Written
<1>9. \A d : Passed(d)' <=> Passed(d)
  BY <1>1 DEF Passed
<1> HIDE DEF doc
<1>10. QED
  BY <1>1, <1>8, <1>9, LandedKept DEF Written, Passed

LEMMA WriteEvidenceWritten ==
  ASSUME IInv, Written, WriteEvidence
  PROVE  Written'
<1>1. /\ stage = "evidence"
      /\ txn'.records = txn.records /\ txn'.quarantine = txn.quarantine
      /\ left' = RecordsAt(reports.documents, 1)
      /\ UNCHANGED <<feed, mode, landed, reports, store>>
  BY DEF WriteEvidence, config
<1>2. txn = store /\ reports.at = 1
  BY <1>1 DEF IInv, Evidence, InStep
<1>3. Rows(txn)' = Rows(store)
  BY <1>1, <1>2 DEF Rows
<1>4. ASSUME NEW k \in 1..Len(reports.documents), k = 1
      PROVE  Output[DocumentAt(k)].records \subseteq left'
  <2>1. reports.documents \in Seq(Reports)
    BY DEF IInv, Types0
  <2>2. left' = reports.documents[k].records
    BY <1>1, <1>4, <2>1 DEF RecordsAt
  <2>3. /\ DocumentAt(k) \in Readable
        /\ reports.documents[k] = Report(DocumentAt(k))
    BY ReportInHand DEF IInv, DocumentAt
  <2>4. QED
    BY <2>2, <2>3, ReportFields
<1>5. \A k \in 1..Len(reports.documents) : ~(k < reports.at)
  BY <1>2
<1>6. QED
  BY <1>1, <1>2, <1>3, <1>4, <1>5, LandedKept
  DEF Written, Passed, DocumentAt, Rows

LEMMA WriteRecordWritten ==
  ASSUME IInv, Written, WriteRecord
  PROVE  Written'
<1>1. PICK record \in left :
        /\ stage = "writing"
        /\ txn' = [txn EXCEPT !.records =
                     Upserted(@, record, DocumentAt(reports.at))]
        /\ left' = left \ {record}
        /\ UNCHANGED <<feed, mode, landed, stage, reports, store>>
  BY DEF WriteRecord, config, DocumentAt
<1>2. /\ txn'.records = Upserted(txn.records, record, DocumentAt(reports.at))
      /\ txn'.quarantine = txn.quarantine
  BY <1>1 DEF IInv, Types0, Stores
<1>3. Rows(txn)' = Rows(txn) \union {record}
  <2> DEFINE row == [record |-> record, origin |-> DocumentAt(reports.at)]
  <2>1. txn'.records = {r \in txn.records : r.record # record} \union {row}
    BY <1>2 DEF Upserted
  <2>2. row.record = record
    OBVIOUS
  <2> HIDE DEF row
  <2>3. QED
    BY <2>1, <2>2 DEF Rows
<1>4. \A k \in 1..Len(reports.documents) :
        k < reports.at => Carried(txn, DocumentAt(k))'
  <2>1. ASSUME NEW k \in 1..Len(reports.documents), k < reports.at
        PROVE  Carried(txn, DocumentAt(k))'
    <3>1. Carried(txn, DocumentAt(k))
      BY <1>1, <2>1 DEF Written
    <3>2. QED
      BY <1>1, <1>2, <1>3, <3>1 DEF Carried, DocumentAt
  <2>2. QED
    BY <2>1
<1>5. \A k \in 1..Len(reports.documents) :
        k = reports.at => Output[DocumentAt(k)].records
                            \subseteq Rows(txn)' \union left'
  BY <1>1, <1>3 DEF Written
<1>6. QED
  BY <1>1, <1>2, <1>3, <1>4, <1>5, LandedKept
  DEF Written, Passed, DocumentAt

LEMMA QuarantineWritten ==
  ASSUME IInv, Written, Quarantine
  PROVE  Written'
<1> DEFINE report == reports.documents[reports.at]
<1>1. /\ stage = "writing" /\ left = {}
      /\ reports.at <= Len(reports.documents)
      /\ txn' = [txn EXCEPT !.quarantine = @ \union
                   {<<report.document, r[1], r[2]>> : r \in report.rejected}]
      /\ reports' = [reports EXCEPT !.at = @ + 1]
      /\ left' = RecordsAt(reports.documents, reports.at + 1)
      /\ UNCHANGED <<feed, mode, landed, stage, store>>
  BY DEF Quarantine, Unfinished, config
<1>2. /\ reports.documents \in Seq(Reports) /\ reports.at \in Nat \ {0}
      /\ reports.at \in 1..Len(reports.documents)
  BY <1>1 DEF IInv, Types0
<1>3. /\ DocumentAt(reports.at) \in Readable
      /\ report = Report(DocumentAt(reports.at))
  BY <1>2, ReportInHand DEF IInv, DocumentAt
<1>4. {<<report.document, r[1], r[2]>> : r \in report.rejected}
        = RejectedRows(DocumentAt(reports.at))
  BY <1>3 DEF Report, RejectedRows
<1>5. /\ txn'.records = txn.records
      /\ txn'.quarantine =
           txn.quarantine \union RejectedRows(DocumentAt(reports.at))
      /\ reports'.documents = reports.documents
      /\ reports'.at = reports.at + 1
  BY <1>1, <1>4 DEF IInv, Types0, Stores
<1>6. Rows(txn)' = Rows(txn)
  BY <1>5 DEF Rows
<1>7. \A k : DocumentAt(k)' = DocumentAt(k)
  BY <1>5 DEF DocumentAt
<1>8. ASSUME NEW k \in 1..Len(reports.documents), k < reports.at + 1
      PROVE  Carried(txn', DocumentAt(k))
  <2>1. CASE k = reports.at
    <3>1. Output[DocumentAt(k)].records \subseteq Rows(txn)
      BY <1>1, <2>1 DEF Written
    <3>2. QED
      BY <3>1, <1>5, <1>6, <2>1 DEF Carried, Rows
  <2>2. CASE k < reports.at
    <3>1. Carried(txn, DocumentAt(k))
      BY <1>1, <2>2 DEF Written
    <3>2. QED
      BY <3>1, <1>5 DEF Carried, Rows
  <2>3. QED
    BY <1>2, <1>8, <2>1, <2>2
<1>9. ASSUME NEW k \in 1..Len(reports.documents), k = reports.at + 1
      PROVE  Output[DocumentAt(k)].records \subseteq left'
  <2>1. left' = reports.documents[k].records
    BY <1>1, <1>2, <1>9 DEF RecordsAt
  <2>2. /\ DocumentAt(k) \in Readable
        /\ reports.documents[k] = Report(DocumentAt(k))
    BY ReportInHand DEF IInv, DocumentAt
  <2>3. QED
    BY <2>1, <2>2, ReportFields
<1>10. \A d : (Passed(d)' <=> Passed(d))
  BY <1>1 DEF Passed
<1> HIDE DEF report
<1>11. mode' \in Modes
       /\ \A doc \in Landed' : Passed(doc)' /\ Carried(store, doc)'
  BY <1>1, LandedKept DEF Written, Passed
<1>12. \A k \in 1..Len(reports'.documents) : Passed(DocumentAt(k))'
  BY <1>1, <1>5, <1>7 DEF Written, Passed
<1>13. /\ Rows(store)' \subseteq Rows(txn)'
       /\ store'.quarantine \subseteq txn'.quarantine
  BY <1>1, <1>5, <1>6 DEF Written
<1>14. \A k \in 1..Len(reports'.documents) :
         /\ k < reports'.at => Carried(txn, DocumentAt(k))'
         /\ k = reports'.at => (Output[DocumentAt(k)].records
                                  \subseteq Rows(txn) \union left)'
  BY <1>5, <1>7, <1>8, <1>9
<1>15. QED
  BY <1>11, <1>12, <1>13, <1>14 DEF Written

LEMMA CommitWritten ==
  ASSUME IInv, Written, Commit
  PROVE  Written'
<1>1. /\ stage = "writing" /\ ~(reports.at <= Len(reports.documents))
      /\ stage' = "idle" /\ reports' = NoBatch
      /\ store' = txn /\ landed' = landed + 1
      /\ UNCHANGED <<feed, mode>>
  BY DEF Commit, Unfinished, Ended, config
<1>2. /\ reports.documents \in Seq(Reports) /\ reports.at \in Nat \ {0}
      /\ landed \in Nat /\ feed \in Feeds /\ landed + 1 \in 1..Len(feed)
  BY <1>1, PipelineAssumption DEF IInv, Types0
<1>3. Batch \in Seq(Seq(Objects) \union {Unreadable})
  BY <1>2, BatchDocuments DEF Batch
<1>4. Landed' = Landed \union ToSet(Batch)
  <2>1. 1..landed' = (1..landed) \union {landed + 1}
    BY <1>1, <1>2
  <2>2. QED
    BY <1>1, <2>1 DEF Landed, Batch
<1>5. ASSUME NEW doc \in ToSet(Batch)
      PROVE  Passed(doc) /\ Carried(txn, doc)
  <2>1. PICK k \in 1..Len(Batch) : doc = Batch[k]
    BY <1>3 DEF ToSet
  <2>2. /\ k \in 1..Len(reports.documents) /\ k < reports.at
        /\ reports.documents[k] = Report(doc)
    BY <1>1, <1>2, <2>1 DEF IInv, InStep
  <2>3. DocumentAt(k) = doc
    BY <2>2 DEF DocumentAt, Report
  <2>4. QED
    BY <1>1, <2>2, <2>3 DEF Written
<1>6. ASSUME NEW doc \in Landed
      PROVE  Passed(doc) /\ Carried(txn, doc)
  BY <1>1, CarriedOn DEF Written
<1>7. Len(reports'.documents) = 0
  BY <1>1 DEF NoBatch
<1>8. \A doc \in Landed' : Passed(doc)' /\ Carried(store, doc)'
  BY <1>1, <1>4, <1>5, <1>6 DEF Passed, Carried, Rows
<1>9. QED
  BY <1>1, <1>7, <1>8 DEF Written

LEMMA StepWritten == IInv /\ Written /\ [Next]_vars => Written'
<1> SUFFICES ASSUME IInv, Written, [Next]_vars PROVE Written'
  OBVIOUS
<1>1. CASE StartBatch \/ OpenTransaction
  BY <1>1, StartWritten
<1>2. CASE PrepareDocument
  BY <1>2, PrepareWritten
<1>3. CASE \/ PrepareFails \/ RefuseEvidence \/ RefuseRecord
           \/ Interrupted
  BY <1>3, FailedWritten
  DEF PrepareFails, RefuseEvidence, RefuseRecord, Interrupted
<1>4. CASE WriteEvidence
  BY <1>4, WriteEvidenceWritten
<1>5. CASE WriteRecord
  BY <1>5, WriteRecordWritten
<1>6. CASE Quarantine
  BY <1>6, QuarantineWritten
<1>7. CASE Commit
  BY <1>7, CommitWritten
<1>8. CASE UNCHANGED vars
  <2>1. UNCHANGED <<feed, mode, landed, stage, reports, left, store, txn>>
    BY <1>8 DEF vars
  <2>2. QED
    BY <2>1, LandedKept DEF Written, Passed, Carried, Rows, DocumentAt
<1>9. QED
  BY <1>1, <1>2, <1>3, <1>4, <1>5, <1>6, <1>7, <1>8
  DEF Next, PipelineStep

-----------------------------------------------------------------------------
(* The parser.  No object has more than five checks to pass, so the first  *)
(* that fails is found without induction.                                  *)
LEMMA LeastOfFive ==
  ASSUME NEW S \in SUBSET (1..5), S # {}
  PROVE  Min(S) \in S
<1>1. \E x \in S : \A y \in S : x <= y
  <2>1. CASE 1 \in S
    BY <2>1
  <2>2. CASE 1 \notin S /\ 2 \in S
    BY <2>2
  <2>3. CASE 1 \notin S /\ 2 \notin S /\ 3 \in S
    BY <2>3
  <2>4. CASE 1 \notin S /\ 2 \notin S /\ 3 \notin S /\ 4 \in S
    BY <2>4
  <2>5. CASE 1 \notin S /\ 2 \notin S /\ 3 \notin S /\ 4 \notin S
    <3>1. \A y \in S : y = 5
      BY <2>5
    <3>2. PICK y \in S : TRUE
      OBVIOUS
    <3>3. QED
      BY <3>1, <3>2
  <2>6. QED
    BY <2>1, <2>2, <2>3, <2>4, <2>5
<1>2. QED
  BY <1>1 DEF Min

(* An object is refused with the reason of a check that fails, or every    *)
(* check passed and the records are all there.                             *)
LEMMA MappedOutcome ==
  ASSUME NEW checks, Len(checks) \in 0..5,
         \A k \in 1..Len(checks) : checks[k][2] # "none",
         NEW records
  PROVE  \/ Mapped(checks, records).reason # "none"
         \/ /\ \A k \in 1..Len(checks) : ~checks[k][1]
            /\ Mapped(checks, records).records = records
<1> DEFINE I == {k \in 1..Len(checks) : checks[k][1]}
           first == IF I # {} THEN Min(I) ELSE 0
           result == IF first = 0 THEN [reason |-> "none", records |-> records]
                     ELSE [reason |-> checks[first][2], records |-> {}]
<1>1. Mapped(checks, records) = result
  BY DEF Mapped, SelectInSeq
<1>2. I \in SUBSET (1..5) /\ I \in SUBSET (1..Len(checks))
  OBVIOUS
<1>3. CASE I # {}
  <2>1. first \in I
    <3> HIDE DEF I
    <3>1. QED
      BY <1>2, <1>3, LeastOfFive
  <2>2. first # 0 /\ checks[first][2] # "none"
    BY <2>1
  <2>3. QED
    BY <1>1, <2>2
<1>4. CASE I = {}
  BY <1>1, <1>4
<1>5. QED
  BY <1>3, <1>4

(* What is said of one object: rejected where it stands, or its records    *)
(* are among those of the document.                                        *)
LEMMA ParsedObject ==
  ASSUME NEW doc, NEW i \in DOMAIN doc
  PROVE  /\ MapObject(doc, i).reason # "none" =>
              <<i, MapObject(doc, i).reason>> \in Parse(doc).rejected
         /\ MapObject(doc, i).records \subseteq Parse(doc).records
<1> DEFINE outcome(k) == MapObject(doc, k)
           mapped == {<<k, outcome(k)>> : k \in DOMAIN doc}
<1>1. /\ Parse(doc).records = UNION {m[2].records : m \in mapped}
      /\ Parse(doc).rejected =
           {<<m[1], m[2].reason>> :
              m \in {n \in mapped : n[2].reason # "none"}}
  BY DEF Parse
<1> HIDE DEF outcome
<1>2. <<i, outcome(i)>> \in mapped
  OBVIOUS
<1>3. <<i, outcome(i)>>[1] = i /\ <<i, outcome(i)>>[2] = outcome(i)
  OBVIOUS
<1>4. /\ outcome(i).reason # "none" =>
           <<i, outcome(i).reason>> \in Parse(doc).rejected
      /\ outcome(i).records \subseteq Parse(doc).records
  <2> HIDE DEF mapped
  <2>1. QED
    BY <1>1, <1>2, <1>3
<1>5. QED
  BY <1>4 DEF outcome

(* An SDO that is not refused has a name, and its entity is written.       *)
LEMMA EntityOutcome ==
  ASSUME NEW object
  PROVE  \/ MapEntity(object).reason # "none"
         \/ /\ object.name # None
            /\ EntityRecord(Cut[object.name]) \in MapEntity(object).records
<1> DEFINE checks ==
      << <<object.name = None, "missing_name">>,
         <<object.name # None /\ Cut[object.name] \in Unusable,
           "unusable_name">> >>
    records == {EntityRecord(Cut[name]) : name \in {object.name} \ {None}}
<1>1. Len(checks) = 2
  OBVIOUS
<1>2. checks[1][2] # "none" /\ checks[2][2] # "none"
  OBVIOUS
<1>3. checks[1][1] <=> object.name = None
  OBVIOUS
<1>4. \/ Mapped(checks, records).reason # "none"
      \/ /\ ~checks[1][1]
         /\ Mapped(checks, records).records = records
  <2> HIDE DEF checks, records
  <2>1. QED
    BY <1>1, <1>2, MappedOutcome
<1>5. MapEntity(object) = Mapped(checks, records)
  BY DEF MapEntity
<1>6. object.name # None => EntityRecord(Cut[object.name]) \in records
  OBVIOUS
<1> HIDE DEF checks, records
<1>7. QED
  BY <1>1, <1>3, <1>4, <1>5, <1>6

(* An observable or an indicator that is not refused has observables, and  *)
(* a claim is written about each.                                          *)
LEMMA ObservableOutcome ==
  ASSUME NEW object
  PROVE  \/ MapObservable(object).reason # "none"
         \/ /\ object.observables # {}
            /\ \A v \in object.observables :
                 ClaimRecord(v, "stix.sco") \in MapObservable(object).records
<1> DEFINE checks ==
             << <<object.observables = {}, "uncanonicalisable_observable">> >>
           records == {ClaimRecord(v, "stix.sco") : v \in object.observables}
<1>1. Len(checks) = 1
  OBVIOUS
<1>2. checks[1][2] # "none"
  OBVIOUS
<1>3. checks[1][1] <=> object.observables = {}
  OBVIOUS
<1>4. \/ Mapped(checks, records).reason # "none"
      \/ /\ ~checks[1][1]
         /\ Mapped(checks, records).records = records
  <2> HIDE DEF checks, records
  <2>1. QED
    BY <1>1, <1>2, MappedOutcome
<1>5. MapObservable(object) = Mapped(checks, records)
  BY DEF MapObservable
<1>6. \A v \in object.observables : ClaimRecord(v, "stix.sco") \in records
  OBVIOUS
<1> HIDE DEF checks, records
<1>7. QED
  BY <1>1, <1>3, <1>4, <1>5, <1>6

LEMMA IndicatorOutcome ==
  ASSUME NEW object
  PROVE  \/ MapIndicator(object).reason # "none"
         \/ /\ object.observables # {}
            /\ \A v \in object.observables :
                 ClaimRecord(v, "stix.indicator")
                   \in MapIndicator(object).records
<1> DEFINE checks ==
             << <<object.observables = {}, "unrepresentable_pattern">>,
                <<~object.usable, "unusable_indicator">> >>
           records ==
             {ClaimRecord(v, "stix.indicator") : v \in object.observables}
<1>1. Len(checks) = 2
  OBVIOUS
<1>2. checks[1][2] # "none" /\ checks[2][2] # "none"
  OBVIOUS
<1>3. checks[1][1] <=> object.observables = {}
  OBVIOUS
<1>4. \/ Mapped(checks, records).reason # "none"
      \/ /\ ~checks[1][1]
         /\ Mapped(checks, records).records = records
  <2> HIDE DEF checks, records
  <2>1. QED
    BY <1>1, <1>2, MappedOutcome
<1>5. MapIndicator(object) = Mapped(checks, records)
  BY DEF MapIndicator
<1>6. \A v \in object.observables :
        ClaimRecord(v, "stix.indicator") \in records
  OBVIOUS
<1> HIDE DEF checks, records
<1>7. QED
  BY <1>1, <1>3, <1>4, <1>5, <1>6

(* An observation that is not refused saw something, and a sighting is     *)
(* written of each thing it saw: by nobody where no entity is named.       *)
LEMMA ObservedDataOutcome ==
  ASSUME NEW doc, NEW i
  PROVE  \/ MapObservedData(doc, i).reason # "none"
         \/ /\ ObservedObservables(doc, i) # {}
            /\ \A v \in ObservedObservables(doc, i) :
                 \E o : SightingRecord(v, o)
                         \in MapObservedData(doc, i).records
<1> DEFINE observed == ObservedObservables(doc, i)
           checks ==
             << <<~doc[i].usable, "unusable_observation">>,
                <<observed = {}, "no_mappable_observable">> >>
           records ==
             {SightingRecord(v, o) : v \in observed, o \in Observers(doc, i)}
               \union {ClaimRecord(v, "stix.observed_data") : v \in observed}
<1>1. Len(checks) = 2
  OBVIOUS
<1>2. checks[1][2] # "none" /\ checks[2][2] # "none"
  OBVIOUS
<1>3. checks[2][1] <=> observed = {}
  OBVIOUS
<1>4. \/ Mapped(checks, records).reason # "none"
      \/ /\ ~checks[2][1]
         /\ Mapped(checks, records).records = records
  <2> HIDE DEF checks, records
  <2>1. QED
    BY <1>1, <1>2, MappedOutcome
<1>5. MapObservedData(doc, i) = Mapped(checks, records)
  BY DEF MapObservedData
<1>6. \A v \in observed : \E o : SightingRecord(v, o) \in records
  <2>1. PICK o \in Observers(doc, i) : TRUE
    BY DEF Observers
  <2>2. QED
    BY <2>1
<1> HIDE DEF checks, records
<1>7. QED
  BY <1>1, <1>3, <1>4, <1>5, <1>6

(* A relationship that is not refused has both ends, and every pair of     *)
(* them is written.                                                        *)
LEMMA RelationshipOutcome ==
  ASSUME NEW doc, NEW i
  PROVE  \/ MapRelationship(doc, i).reason # "none"
         \/ /\ Sources(doc, i) # {} /\ Targets(doc, i) # {}
            /\ \A s \in Sources(doc, i), t \in Targets(doc, i) :
                 EdgeRecord(s, t) \in MapRelationship(doc, i).records
<1> DEFINE checks ==
             << <<doc[i].source = None, "missing_source_ref">>,
                <<doc[i].target = None, "missing_target_ref">>,
                <<Sources(doc, i) = {}, "unresolved_source_ref">>,
                <<Targets(doc, i) = {}, "unresolved_target_ref">>,
                <<FanOut(doc, i) > MaxFanOut, "fan_out_exceeded">> >>
           records ==
             {EdgeRecord(s, t) : s \in Sources(doc, i), t \in Targets(doc, i)}
<1>1. Len(checks) = 5
  OBVIOUS
<1>2. /\ checks[1][2] # "none" /\ checks[2][2] # "none"
      /\ checks[3][2] # "none" /\ checks[4][2] # "none"
      /\ checks[5][2] # "none"
  OBVIOUS
<1>3. /\ checks[3][1] <=> Sources(doc, i) = {}
      /\ checks[4][1] <=> Targets(doc, i) = {}
  OBVIOUS
<1>4. \/ Mapped(checks, records).reason # "none"
      \/ /\ ~checks[3][1] /\ ~checks[4][1]
         /\ Mapped(checks, records).records = records
  <2> HIDE DEF checks, records
  <2>1. \A k \in 1..Len(checks) : checks[k][2] # "none"
    BY <1>1, <1>2
  <2>2. QED
    BY <1>1, <2>1, MappedOutcome
<1>5. MapRelationship(doc, i) = Mapped(checks, records)
  BY DEF MapRelationship
<1>6. \A s \in Sources(doc, i), t \in Targets(doc, i) :
        EdgeRecord(s, t) \in records
  OBVIOUS
<1> HIDE DEF checks, records
<1>7. QED
  BY <1>1, <1>3, <1>4, <1>5, <1>6

(* A record of the store, by its identity, is among the entries of its     *)
(* kind.                                                                   *)
LEMMA EntryOf ==
  ASSUME NEW record \in Rows(store)
  PROVE  record \in Entries(record.kind)
  BY DEF Rows, Entries

(* Where the store has every record of a document, each of its objects is  *)
(* shown, consumed or among the rejected.                                  *)
LEMMA ObjectShown ==
  ASSUME NEW doc \in Seq(Objects), NEW i \in DOMAIN doc,
         Parse(doc).records \subseteq Rows(store)
  PROVE  \/ doc[i].type = "marking-definition"
         \/ Shown(doc, i)
         \/ \E reason : <<i, reason>> \in Parse(doc).rejected
<1>1. doc[i].type \in Types
  <2>1. doc[i] \in Objects
    OBVIOUS
  <2>2. QED
    BY <2>1 DEF Objects
<1>2. /\ MapObject(doc, i).reason # "none" =>
           <<i, MapObject(doc, i).reason>> \in Parse(doc).rejected
      /\ MapObject(doc, i).records \subseteq Rows(store)
  BY ParsedObject
<1> SUFFICES ASSUME MapObject(doc, i).reason = "none"
             PROVE  doc[i].type = "marking-definition" \/ Shown(doc, i)
  BY <1>2
<1>3. CASE doc[i].type = "sdo"
  <2>1. MapObject(doc, i) = MapEntity(doc[i])
    BY <1>3 DEF MapObject
  <2>2. /\ doc[i].name # None
        /\ EntityRecord(Cut[doc[i].name]) \in Rows(store)
    BY <1>2, <2>1, EntityOutcome
  <2>3. EntityRecord(Cut[doc[i].name]).kind = "entity"
    BY DEF EntityRecord
  <2>4. EntityRecord(Cut[doc[i].name]) \in Entries("entity")
    BY <2>2, <2>3, EntryOf
  <2>5. QED
    BY <1>3, <2>2, <2>4 DEF Shown
<1>4. CASE doc[i].type = "sco"
  <2>1. MapObject(doc, i) = MapObservable(doc[i])
    BY <1>4 DEF MapObject
  <2>2. /\ doc[i].observables # {}
        /\ \A v \in doc[i].observables :
             ClaimRecord(v, "stix.sco") \in Rows(store)
    BY <1>2, <2>1, ObservableOutcome
  <2>3. \A v : /\ ClaimRecord(v, "stix.sco").kind = "claim"
               /\ ClaimRecord(v, "stix.sco").node = ObservableNode(v)
    BY DEF ClaimRecord
  <2>4. \A v \in doc[i].observables :
          ClaimRecord(v, "stix.sco") \in Entries("claim")
    BY <2>2, <2>3, EntryOf
  <2>5. QED
    BY <1>4, <2>2, <2>3, <2>4 DEF Shown
<1>5. CASE doc[i].type = "indicator"
  <2>1. MapObject(doc, i) = MapIndicator(doc[i])
    BY <1>5 DEF MapObject
  <2>2. /\ doc[i].observables # {}
        /\ \A v \in doc[i].observables :
             ClaimRecord(v, "stix.indicator") \in Rows(store)
    BY <1>2, <2>1, IndicatorOutcome
  <2>3. \A v : /\ ClaimRecord(v, "stix.indicator").kind = "claim"
               /\ ClaimRecord(v, "stix.indicator").node = ObservableNode(v)
    BY DEF ClaimRecord
  <2>4. \A v \in doc[i].observables :
          ClaimRecord(v, "stix.indicator") \in Entries("claim")
    BY <2>2, <2>3, EntryOf
  <2>5. QED
    BY <1>5, <2>2, <2>3, <2>4 DEF Shown
<1>6. CASE doc[i].type = "observed-data"
  <2>1. MapObject(doc, i) = MapObservedData(doc, i)
    BY <1>6 DEF MapObject
  <2>2. /\ ObservedObservables(doc, i) # {}
        /\ \A v \in ObservedObservables(doc, i) :
             \E o : SightingRecord(v, o) \in Rows(store)
    BY <1>2, <2>1, ObservedDataOutcome
  <2>3. \A v, o : /\ SightingRecord(v, o).kind = "sighting"
                  /\ SightingRecord(v, o).node = ObservableNode(v)
    BY DEF SightingRecord
  <2>4. ASSUME NEW v \in ObservedObservables(doc, i)
        PROVE  \E r \in Entries("sighting") : r.node = ObservableNode(v)
    <3>1. PICK o : SightingRecord(v, o) \in Rows(store)
      BY <2>2
    <3>2. QED
      BY <3>1, <2>3, EntryOf
  <2>5. QED
    BY <1>6, <2>2, <2>4 DEF Shown
<1>7. CASE doc[i].type = "relationship"
  <2>1. MapObject(doc, i) = MapRelationship(doc, i)
    BY <1>7 DEF MapObject
  <2>2. /\ Sources(doc, i) # {} /\ Targets(doc, i) # {}
        /\ \A s \in Sources(doc, i), t \in Targets(doc, i) :
             EdgeRecord(s, t) \in Rows(store)
    BY <1>2, <2>1, RelationshipOutcome
  <2>3. \A s, t : EdgeRecord(s, t).kind = "relationship"
    BY DEF EdgeRecord
  <2>4. \A s \in Sources(doc, i), t \in Targets(doc, i) :
          EdgeRecord(s, t) \in Entries("relationship")
    BY <2>2, <2>3, EntryOf
  <2>5. QED
    BY <1>7, <2>2, <2>4 DEF Shown
<1>8. CASE doc[i].type \in {"bundle", "other", "untyped"}
  BY <1>8 DEF MapObject, Refused
<1>9. QED
  BY <1>1, <1>3, <1>4, <1>5, <1>6, <1>7, <1>8 DEF Types

-----------------------------------------------------------------------------
(* The order of objects.                                                   *)
Distinct(doc) == \A i, j \in DOMAIN doc : i # j => doc[i].id # doc[j].id
Reordered(doc, p) == [i \in DOMAIN doc |-> doc[p[i]]]
Positions(doc) == Bijection(DOMAIN doc, DOMAIN doc)

(* The objects of a document keep their names and are all there.           *)
LEMMA ReorderedObjects ==
  ASSUME NEW doc \in Seq(Objects), Distinct(doc), NEW p \in Positions(doc)
  PROVE  LET re == Reordered(doc, p) IN
         /\ re \in Seq(Objects) /\ DOMAIN re = DOMAIN doc /\ Len(re) = Len(doc)
         /\ \A i \in DOMAIN doc : p[i] \in DOMAIN doc /\ re[i] = doc[p[i]]
         /\ \A k \in DOMAIN doc : \E i \in DOMAIN doc : p[i] = k
         /\ \A i, j \in DOMAIN doc : p[i] = p[j] => i = j
         /\ Distinct(re)
<1> DEFINE re == Reordered(doc, p)
<1>1. /\ p \in [DOMAIN doc -> DOMAIN doc]
      /\ \A k \in DOMAIN doc : \E i \in DOMAIN doc : p[i] = k
      /\ \A i, j \in DOMAIN doc : p[i] = p[j] => i = j
  BY DEF Positions, Bijection, Injection, Surjection, IsInjective
<1>2. /\ DOMAIN doc = 1..Len(doc) /\ Len(doc) \in Nat
      /\ \A k \in DOMAIN doc : doc[k] \in Objects
  OBVIOUS
<1>3. re \in [1..Len(doc) -> Objects]
  BY <1>1, <1>2 DEF Reordered
<1>4. re \in Seq(Objects) /\ DOMAIN re = DOMAIN doc /\ Len(re) = Len(doc)
  <2> HIDE DEF re
  <2>1. QED
    BY <1>2, <1>3
<1>5. \A i \in DOMAIN doc : p[i] \in DOMAIN doc /\ re[i] = doc[p[i]]
  BY <1>1 DEF Reordered
<1> HIDE DEF re
<1>6. Distinct(re)
  <2>1. ASSUME NEW i \in DOMAIN doc, NEW j \in DOMAIN doc, i # j
        PROVE  re[i].id # re[j].id
    <3>1. p[i] # p[j] /\ p[i] \in DOMAIN doc /\ p[j] \in DOMAIN doc
      BY <1>1, <1>5, <2>1
    <3>2. doc[p[i]].id # doc[p[j]].id
      BY <3>1 DEF Distinct
    <3>3. QED
      BY <1>5, <3>2
  <2>2. QED
    BY <2>1, <1>4 DEF Distinct
<1>7. QED
  BY <1>1, <1>4, <1>5, <1>6 DEF re

(* What an identifier stands for, when no two objects share it, is what    *)
(* the objects that have it stand for.                                     *)
Bearers(doc, id) == {k \in DOMAIN doc : doc[k].id = id /\ id # None}

LEMMA LastOfOne ==
  ASSUME NEW S, NEW k, S = {k}, k \in Nat
  PROVE  Max(S) = k
  BY DEF Max

LEMMA NodesOfBearers ==
  ASSUME NEW doc \in Seq(Objects), Distinct(doc), NEW i, NEW id
  PROVE  Nodes(doc, i, id) = UNION {NodesOf(doc[k]) : k \in Bearers(doc, id)}
<1> DEFINE I == {k \in 1..Len(doc) :
                   doc[k].id = id /\ id # None /\ NodesOf(doc[k]) # {}}
           last == IF I # {} THEN Max(I) ELSE 0
<1>0. DOMAIN doc = 1..Len(doc) /\ Len(doc) \in Nat
  OBVIOUS
<1>1. Nodes(doc, i, id) = IF last = 0 THEN {} ELSE NodesOf(doc[last])
  BY DEF Nodes, SelectLastInSeq
<1>2. CASE I = {}
  <2>1. \A k \in Bearers(doc, id) : NodesOf(doc[k]) = {}
    BY <1>0, <1>2 DEF Bearers
  <2>2. Nodes(doc, i, id) = {}
    BY <1>1, <1>2
  <2>3. QED
    BY <2>1, <2>2
<1>3. CASE I # {}
  <2>1. PICK k \in I : TRUE
    BY <1>3
  <2>2. I = {k}
    BY <1>0, <2>1 DEF Distinct
  <2>3. last = k /\ last # 0
    <3>1. k \in Nat /\ k # 0
      BY <2>1
    <3> HIDE DEF I
    <3>2. Max(I) = k
      BY <2>2, <3>1, LastOfOne
    <3>3. QED
      BY <1>3, <3>1, <3>2
  <2>4. Bearers(doc, id) = {k}
    BY <1>0, <2>1 DEF Distinct, Bearers
  <2> HIDE DEF last
  <2>5. QED
    BY <1>1, <2>3, <2>4
<1>4. QED
  BY <1>2, <1>3

LEMMA ScosOfBearers ==
  ASSUME NEW doc \in Seq(Objects), Distinct(doc), NEW id \in Ids
  PROVE  Scos(doc, id) =
           UNION {IF doc[k].type = "sco" THEN doc[k].observables ELSE {} :
                    k \in Bearers(doc, id)}
<1> DEFINE I == {k \in 1..Len(doc) : doc[k].id = id /\ doc[k].type = "sco"
                                     /\ doc[k].observables # {}}
           last == IF I # {} THEN Max(I) ELSE 0
           own(k) == IF doc[k].type = "sco" THEN doc[k].observables ELSE {}
<1>0. DOMAIN doc = 1..Len(doc) /\ Len(doc) \in Nat /\ id # None
  BY StixAssumption
<1>1. Scos(doc, id) = IF last = 0 THEN {} ELSE doc[last].observables
  BY DEF Scos, SelectLastInSeq
<1>2. CASE I = {}
  <2>1. \A k \in Bearers(doc, id) : own(k) = {}
    BY <1>0, <1>2 DEF Bearers
  <2>2. Scos(doc, id) = {}
    BY <1>1, <1>2
  <2>3. QED
    BY <2>1, <2>2
<1>3. CASE I # {}
  <2>1. PICK k \in I : TRUE
    BY <1>3
  <2>2. I = {k}
    BY <1>0, <2>1 DEF Distinct
  <2>3. last = k /\ last # 0
    <3>1. k \in Nat /\ k # 0
      BY <2>1
    <3> HIDE DEF I
    <3>2. Max(I) = k
      BY <2>2, <3>1, LastOfOne
    <3>3. QED
      BY <1>3, <3>1, <3>2
  <2>4. Bearers(doc, id) = {k} /\ own(k) = doc[k].observables
    BY <1>0, <2>1 DEF Distinct, Bearers
  <2>5. UNION {own(j) : j \in Bearers(doc, id)} = own(k)
    <3> HIDE DEF own
    <3>1. QED
      BY <2>4
  <2> HIDE DEF last
  <2>6. QED
    BY <1>1, <2>3, <2>4, <2>5
<1>4. QED
  BY <1>2, <1>3

(* So it is the same in any order.                                         *)
LEMMA NamesStand ==
  ASSUME NEW doc \in Seq(Objects), Distinct(doc), NEW p \in Positions(doc)
  PROVE  LET re == Reordered(doc, p) IN
         /\ \A i, j, id : Nodes(re, i, id) = Nodes(doc, j, id)
         /\ \A id \in Ids : Scos(re, id) = Scos(doc, id)
<1> DEFINE re == Reordered(doc, p)
<1>1. /\ re \in Seq(Objects) /\ DOMAIN re = DOMAIN doc
      /\ \A i \in DOMAIN doc : p[i] \in DOMAIN doc /\ re[i] = doc[p[i]]
      /\ \A k \in DOMAIN doc : \E i \in DOMAIN doc : p[i] = k
      /\ Distinct(re)
  BY ReorderedObjects
<1> HIDE DEF re
<1>2. ASSUME NEW id
      PROVE  /\ \A k \in Bearers(re, id) : p[k] \in Bearers(doc, id)
             /\ \A k \in Bearers(doc, id) :
                  \E i \in Bearers(re, id) : p[i] = k
             /\ \A k \in Bearers(re, id) : re[k] = doc[p[k]]
  <2>1. \A k \in DOMAIN doc : re[k] = doc[p[k]] /\ p[k] \in DOMAIN doc
    BY <1>1
  <2>2. \A k \in Bearers(re, id) : k \in DOMAIN doc /\ re[k] = doc[p[k]]
    BY <1>1, <2>1 DEF Bearers
  <2>3. \A k \in Bearers(re, id) : p[k] \in Bearers(doc, id)
    BY <1>1, <2>1, <2>2 DEF Bearers
  <2>4. ASSUME NEW k \in Bearers(doc, id)
        PROVE  \E i \in Bearers(re, id) : p[i] = k
    <3>1. PICK i \in DOMAIN doc : p[i] = k
      BY <1>1 DEF Bearers
    <3>2. i \in Bearers(re, id)
      BY <1>1, <2>1, <3>1 DEF Bearers
    <3>3. QED
      BY <3>1, <3>2
  <2>5. QED
    BY <2>2, <2>3, <2>4
<1>3. ASSUME NEW i, NEW j, NEW id
      PROVE  Nodes(re, i, id) = Nodes(doc, j, id)
  <2>1. Nodes(re, i, id) = UNION {NodesOf(re[k]) : k \in Bearers(re, id)}
    BY <1>1, NodesOfBearers
  <2>2. Nodes(doc, j, id) = UNION {NodesOf(doc[k]) : k \in Bearers(doc, id)}
    BY NodesOfBearers
  <2>3. QED
    BY <2>1, <2>2, <1>2
<1>4. ASSUME NEW id \in Ids
      PROVE  Scos(re, id) = Scos(doc, id)
  <2> DEFINE own(o) == IF o.type = "sco" THEN o.observables ELSE {}
  <2>1. Scos(re, id) = UNION {own(re[k]) : k \in Bearers(re, id)}
    BY <1>1, ScosOfBearers
  <2>2. Scos(doc, id) = UNION {own(doc[k]) : k \in Bearers(doc, id)}
    BY ScosOfBearers
  <2> HIDE DEF own
  <2>3. QED
    BY <2>1, <2>2, <1>2
<1>5. QED
  BY <1>3, <1>4 DEF re

(* The records of an object: none when a check fails, and the reason is    *)
(* that of the only check that does.                                       *)
NoneWhenOneFails(checks, records) ==
  (\E k \in 1..Len(checks) : checks[k][1]) =>
    Mapped(checks, records).records = {}

AllWhenNoneFails(checks, records) ==
  (\A k \in 1..Len(checks) : ~checks[k][1]) =>
    Mapped(checks, records).records = records

NamesTheOnlyOne(checks, records) ==
  \A k \in 1..Len(checks) :
    /\ checks[k][1]
    /\ \A j \in 1..Len(checks) : j # k => ~checks[j][1]
    => Mapped(checks, records).reason = checks[k][2]

LEMMA MappedRecords ==
  ASSUME NEW checks, Len(checks) \in 0..5, NEW records
  PROVE  /\ NoneWhenOneFails(checks, records)
         /\ AllWhenNoneFails(checks, records)
         /\ NamesTheOnlyOne(checks, records)
<1> USE DEF NoneWhenOneFails, AllWhenNoneFails, NamesTheOnlyOne
<1> DEFINE I == {k \in 1..Len(checks) : checks[k][1]}
           first == IF I # {} THEN Min(I) ELSE 0
           result == IF first = 0 THEN [reason |-> "none", records |-> records]
                     ELSE [reason |-> checks[first][2], records |-> {}]
<1>1. Mapped(checks, records) = result
  BY DEF Mapped, SelectInSeq
<1>2. I \in SUBSET (1..5) /\ I \in SUBSET (1..Len(checks))
  OBVIOUS
<1>3. CASE I # {}
  <2>1. first \in I
    <3> HIDE DEF I
    <3>1. QED
      BY <1>2, <1>3, LeastOfFive
  <2>2. first # 0
    BY <2>1
  <2>3. /\ Mapped(checks, records).records = {}
        /\ Mapped(checks, records).reason = checks[first][2]
    BY <1>1, <2>2
  <2> HIDE DEF first
  <2>4. QED
    BY <1>3, <2>1, <2>3
<1>4. CASE I = {}
  BY <1>1, <1>4
<1>5. QED
  BY <1>3, <1>4

(* The last of some positions.                                             *)
LEMMA LastPosition ==
  ASSUME NEW n \in Nat, NEW S \in SUBSET (1..n), S # {}
  PROVE  \E m \in S : \A k \in S : k <= m
<1> DEFINE T == {k..n : k \in S}
           R == StrictSubsetOrdering(Nat)
<1>1. T \subseteq FiniteSubsetsOf(Nat) /\ T # {}
  <2>1. ASSUME NEW k \in S
        PROVE  IsFiniteSet(k..n) /\ k..n \in SUBSET Nat
    <3>1. k \in Int /\ n \in Int /\ k >= 1
      OBVIOUS
    <3>2. IsFiniteSet(k..n)
      BY <3>1, FS_Interval
    <3>3. QED
      BY <3>1, <3>2
  <2>2. QED
    BY <2>1 DEF FiniteSubsetsOf
<1>2. PICK x \in T : \A y \in T : <<y, x>> \notin R
  <2>1. IsWellFoundedOn(R, FiniteSubsetsOf(Nat))
    BY FS_StrictSubsetOrderingWellFounded
  <2> HIDE DEF T, R
  <2>2. QED
    BY <2>1, <1>1, WFMin
<1>3. PICK m \in S : x = m..n
  BY <1>2
<1>4. ASSUME NEW k \in S, m < k
      PROVE  FALSE
  <2>1. m \in m..n /\ m \notin k..n /\ k..n \subseteq m..n
    BY <1>4
  <2>2. <<k..n, m..n>> \in R
    BY <2>1 DEF StrictSubsetOrdering
  <2>3. QED
    BY <2>2, <1>2, <1>3
<1>5. QED
  BY <1>4

(* The edges counted are finitely many.                                    *)
LEMMA FewImages ==
  ASSUME NEW S, IsFiniteSet(S), NEW f
  PROVE  IsFiniteSet({f[x] : x \in S})
<1> DEFINE T == {f[x] : x \in S}
           g == [x \in S |-> f[x]]
<1>1. g \in Surjection(S, T)
  BY DEF Surjection
<1> HIDE DEF g, T
<1>2. IsFiniteSet(T)
  BY <1>1, FS_Surjection
<1>3. QED
  BY <1>2 DEF T

Counted(doc, i) ==
  {j \in 1..i : doc[j].type = "relationship" /\ doc[j].source = doc[i].source}
EdgesOf(doc, j) == {j} \X (Sources(doc, j) \X Targets(doc, j))

LEMMA FewNodes ==
  ASSUME NEW doc \in Seq(Objects), Distinct(doc), NEW i, NEW id
  PROVE  IsFiniteSet(Nodes(doc, i, id))
<1>1. Nodes(doc, i, id) = UNION {NodesOf(doc[k]) : k \in Bearers(doc, id)}
  BY NodesOfBearers
<1>2. \A j, k \in Bearers(doc, id) : j = k
  BY DEF Bearers, Distinct
<1>3. ASSUME NEW k \in Bearers(doc, id)
      PROVE  IsFiniteSet(NodesOf(doc[k]))
  <2>1. doc[k] \in Objects
    BY DEF Bearers
  <2>2. IsFiniteSet(doc[k].observables)
    BY <2>1 DEF Objects
  <2>3. IsFiniteSet({ObservableNode(v) : v \in doc[k].observables})
    <3> DEFINE Seen == doc[k].observables
               f == [v \in Seen |-> ObservableNode(v)]
    <3>1. {ObservableNode(v) : v \in Seen} = {f[v] : v \in Seen}
      OBVIOUS
    <3> HIDE DEF f
    <3>2. IsFiniteSet({f[v] : v \in Seen})
      BY <2>2, FewImages
    <3>3. QED
      BY <3>1, <3>2
  <2>4. IsFiniteSet({}) /\ IsFiniteSet({EntityNode(doc[k].name)})
    BY FS_EmptySet, FS_Singleton
  <2>5. QED
    BY <2>3, <2>4 DEF NodesOf
<1>4. CASE Bearers(doc, id) = {}
  BY <1>1, <1>4, FS_EmptySet
<1>5. CASE Bearers(doc, id) # {}
  <2>1. PICK k \in Bearers(doc, id) : TRUE
    BY <1>5
  <2>2. Nodes(doc, i, id) = NodesOf(doc[k])
    BY <1>1, <1>2, <2>1
  <2>3. QED
    BY <1>3, <2>1, <2>2
<1>6. QED
  BY <1>4, <1>5

LEMMA FewCounted ==
  ASSUME NEW doc \in Seq(Objects), Distinct(doc), NEW i \in DOMAIN doc
  PROVE  IsFiniteSet(UNION {EdgesOf(doc, j) : j \in Counted(doc, i)})
<1>1. \A j : IsFiniteSet(EdgesOf(doc, j))
  <2> TAKE j
  <2>1. IsFiniteSet(Sources(doc, j)) /\ IsFiniteSet(Targets(doc, j))
    BY FewNodes DEF Sources, Targets
  <2>2. IsFiniteSet(Sources(doc, j) \X Targets(doc, j))
    BY <2>1, FS_Product
  <2>3. IsFiniteSet({j})
    BY FS_Singleton
  <2>4. QED
    BY <2>2, <2>3, FS_Product DEF EdgesOf
<1>2. IsFiniteSet(Counted(doc, i))
  <2>1. i \in Int /\ 1 \in Int
    OBVIOUS
  <2>2. IsFiniteSet(1..i)
    BY <2>1, FS_Interval
  <2>3. Counted(doc, i) \in SUBSET (1..i)
    BY DEF Counted
  <2>4. QED
    BY <2>2, <2>3, FS_Subset
<1>3. IsFiniteSet({EdgesOf(doc, j) : j \in Counted(doc, i)})
  <2> DEFINE f == [j \in Counted(doc, i) |-> EdgesOf(doc, j)]
  <2>1. {EdgesOf(doc, j) : j \in Counted(doc, i)}
          = {f[j] : j \in Counted(doc, i)}
    OBVIOUS
  <2> HIDE DEF f
  <2>2. IsFiniteSet({f[j] : j \in Counted(doc, i)})
    BY <1>2, FewImages
  <2>3. QED
    BY <2>1, <2>2
<1>4. QED
  BY <1>1, <1>3, FS_UNION

(* Where no edge of a document is one too many, none is in another order:  *)
(* whatever is counted there against a source is counted here when its     *)
(* last relationship is mapped.                                            *)
LEMMA FanOutFits ==
  ASSUME NEW doc \in Seq(Objects), Distinct(doc), NEW p \in Positions(doc),
         \A m \in DOMAIN doc :
           /\ doc[m].type = "relationship"
           /\ Sources(doc, m) # {} /\ Targets(doc, m) # {}
           => FanOut(doc, m) <= MaxFanOut,
         NEW i \in DOMAIN doc,
         Reordered(doc, p)[i].type = "relationship",
         Sources(Reordered(doc, p), i) # {},
         Targets(Reordered(doc, p), i) # {}
  PROVE  ~(FanOut(Reordered(doc, p), i) > MaxFanOut)
<1> DEFINE re == Reordered(doc, p)
           K == {k \in DOMAIN doc :
                   /\ doc[k].type = "relationship"
                   /\ doc[k].source = re[i].source
                   /\ Sources(doc, k) # {} /\ Targets(doc, k) # {}}
<1>1. /\ re \in Seq(Objects) /\ DOMAIN re = DOMAIN doc
      /\ \A j \in DOMAIN doc : p[j] \in DOMAIN doc /\ re[j] = doc[p[j]]
      /\ \A j, k \in DOMAIN doc : p[j] = p[k] => j = k
      /\ Distinct(re)
  <2>1. /\ Reordered(doc, p) \in Seq(Objects)
        /\ DOMAIN Reordered(doc, p) = DOMAIN doc
        /\ \A m \in DOMAIN doc :
             p[m] \in DOMAIN doc /\ Reordered(doc, p)[m] = doc[p[m]]
        /\ \A m, k \in DOMAIN doc : p[m] = p[k] => m = k
        /\ Distinct(Reordered(doc, p))
    BY ReorderedObjects, Zenon
  <2>2. QED
    BY <2>1
<1>2. \A j, k, id : Nodes(re, j, id) = Nodes(doc, k, id)
  <2> HIDE DEF re
  <2>1. \A j, k, id : Nodes(Reordered(doc, p), j, id) = Nodes(doc, k, id)
    BY NamesStand, Zenon
  <2>2. QED
    BY <2>1 DEF re
<1>3. /\ re[i].type = "relationship"
      /\ Sources(re, i) # {} /\ Targets(re, i) # {}
  OBVIOUS
<1>4. DOMAIN doc = 1..Len(doc) /\ Len(doc) \in Nat
  OBVIOUS
<1> HIDE DEF re
<1>5. \A j \in DOMAIN doc : /\ Sources(re, j) = Sources(doc, p[j])
                            /\ Targets(re, j) = Targets(doc, p[j])
  BY <1>1, <1>2 DEF Sources, Targets
<1>6. p[i] \in K
  BY <1>1, <1>3, <1>5
<1>7. PICK m \in K : \A k \in K : k <= m
  <2>1. K \in SUBSET (1..Len(doc)) /\ K # {}
    BY <1>4, <1>6
  <2> HIDE DEF K
  <2>2. QED
    BY <1>4, <2>1, LastPosition
<1>8. FanOut(doc, m) <= MaxFanOut
  BY <1>7
<1> DEFINE A == UNION {EdgesOf(re, j) : j \in Counted(re, i)}
           B == UNION {EdgesOf(doc, j) : j \in Counted(doc, m)}
           f == [e \in A |-> <<p[e[1]], e[2]>>]
<1>9. FanOut(re, i) = Cardinality(A) /\ FanOut(doc, m) = Cardinality(B)
  BY DEF FanOut, EdgesOf, Counted
<1>10. ASSUME NEW e \in A
       PROVE  /\ e = <<e[1], e[2]>> /\ e[1] \in DOMAIN doc
              /\ <<p[e[1]], e[2]>> \in B
  <2>1. PICK j \in Counted(re, i) : e \in EdgesOf(re, j)
    OBVIOUS
  <2>2. /\ e = <<e[1], e[2]>> /\ e[1] = j
        /\ e[2] \in Sources(re, j) \X Targets(re, j)
    BY <2>1 DEF EdgesOf
  <2>3. /\ j \in DOMAIN doc /\ re[j].type = "relationship"
        /\ re[j].source = re[i].source
    BY <1>1, <1>4, <2>1 DEF Counted
  <2>4. e[2] \in Sources(doc, p[j]) \X Targets(doc, p[j])
    BY <1>5, <2>2, <2>3
  <2>5. p[j] \in K
    BY <1>1, <2>3, <2>4
  <2>6. p[j] \in Counted(doc, m)
    BY <1>4, <1>7, <2>5 DEF Counted
  <2>7. <<p[j], e[2]>> \in EdgesOf(doc, p[j])
    BY <2>4 DEF EdgesOf
  <2>8. QED
    BY <2>2, <2>3, <2>6, <2>7
<1>11. f \in Injection(A, B)
  <2>1. f \in [A -> B]
    BY <1>10
  <2>2. ASSUME NEW d \in A, NEW e \in A, f[d] = f[e]
        PROVE  d = e
    <3>1. p[d[1]] = p[e[1]] /\ d[2] = e[2]
      BY <2>2
    <3>2. d[1] = e[1]
      BY <1>1, <1>10, <3>1
    <3>3. QED
      BY <1>10, <3>1, <3>2
  <2>3. IsInjective(f)
    BY <2>2 DEF IsInjective
  <2>4. QED
    BY <2>1, <2>3 DEF Injection
<1>12. IsFiniteSet(B)
  BY <1>7, FewCounted
<1> HIDE DEF A, B, f, K
<1>13. Cardinality(A) <= Cardinality(B) /\ IsFiniteSet(A)
  BY <1>11, <1>12, FS_Injection
<1>14. Cardinality(A) \in Nat /\ Cardinality(B) \in Nat /\ MaxFanOut \in Nat
  BY <1>12, <1>13, FS_CardinalityType, StixAssumption
<1>15. QED
  BY <1>8, <1>9, <1>13, <1>14 DEF re

(* A relationship is refused for an end it does not name or that is not    *)
(* resolved, or for its fan-out.                                           *)
Unresolved(doc, i) ==
  \/ doc[i].source = None \/ doc[i].target = None
  \/ Sources(doc, i) = {} \/ Targets(doc, i) = {}

LEMMA RelationshipRecords ==
  ASSUME NEW doc, NEW i
  PROVE  /\ Unresolved(doc, i) \/ FanOut(doc, i) > MaxFanOut =>
              MapRelationship(doc, i).records = {}
         /\ ~(Unresolved(doc, i) \/ FanOut(doc, i) > MaxFanOut) =>
              MapRelationship(doc, i).records =
                {EdgeRecord(s, t) :
                   s \in Sources(doc, i), t \in Targets(doc, i)}
         /\ ~Unresolved(doc, i) /\ FanOut(doc, i) > MaxFanOut =>
              MapRelationship(doc, i).reason = "fan_out_exceeded"
<1> DEFINE checks ==
             << <<doc[i].source = None, "missing_source_ref">>,
                <<doc[i].target = None, "missing_target_ref">>,
                <<Sources(doc, i) = {}, "unresolved_source_ref">>,
                <<Targets(doc, i) = {}, "unresolved_target_ref">>,
                <<FanOut(doc, i) > MaxFanOut, "fan_out_exceeded">> >>
           records ==
             {EdgeRecord(s, t) : s \in Sources(doc, i), t \in Targets(doc, i)}
<1>1. Len(checks) = 5
  OBVIOUS
<1>2. /\ checks[1][1] <=> doc[i].source = None
      /\ checks[2][1] <=> doc[i].target = None
      /\ checks[3][1] <=> Sources(doc, i) = {}
      /\ checks[4][1] <=> Targets(doc, i) = {}
      /\ checks[5][1] <=> FanOut(doc, i) > MaxFanOut
      /\ checks[5][2] = "fan_out_exceeded"
  OBVIOUS
<1>3. MapRelationship(doc, i) = Mapped(checks, records)
  BY DEF MapRelationship
<1> HIDE DEF checks
<1>4. \A k : k \in 1..Len(checks) <=> k \in {1, 2, 3, 4, 5}
  BY <1>1
<1>5. /\ (\E k \in 1..Len(checks) : checks[k][1]) =>
           Mapped(checks, records).records = {}
      /\ (\A k \in 1..Len(checks) : ~checks[k][1]) =>
           Mapped(checks, records).records = records
      /\ \A k \in 1..Len(checks) :
           /\ checks[k][1]
           /\ \A j \in 1..Len(checks) : j # k => ~checks[j][1]
           => Mapped(checks, records).reason = checks[k][2]
  <2> HIDE DEF records
  <2>1. Len(checks) \in 0..5
    BY <1>1
  <2>2. /\ NoneWhenOneFails(checks, records)
        /\ AllWhenNoneFails(checks, records)
        /\ NamesTheOnlyOne(checks, records)
    BY <2>1, MappedRecords
  <2>3. QED
    BY <2>2 DEF NoneWhenOneFails, AllWhenNoneFails, NamesTheOnlyOne
<1> DEFINE busy == FanOut(doc, i) > MaxFanOut
<1> HIDE DEF records, busy
<1>6. /\ (\E k \in 1..Len(checks) : checks[k][1])
           <=> Unresolved(doc, i) \/ busy
      /\ 5 \in 1..Len(checks)
      /\ ~Unresolved(doc, i) =>
           \A j \in 1..Len(checks) : j # 5 => ~checks[j][1]
  BY <1>2, <1>4 DEF Unresolved, busy
<1>7. /\ Unresolved(doc, i) \/ busy => MapRelationship(doc, i).records = {}
      /\ ~(Unresolved(doc, i) \/ busy) =>
           MapRelationship(doc, i).records = records
  BY <1>3, <1>5, <1>6
<1>8. ~Unresolved(doc, i) /\ busy =>
        MapRelationship(doc, i).reason = "fan_out_exceeded"
  <2>1. checks[5][1] <=> busy
    BY <1>2 DEF busy
  <2>2. QED
    BY <1>2, <1>3, <1>5, <1>6, <2>1
<1>9. QED
  BY <1>7, <1>8 DEF busy, records

(* The records of an object are the same in any order of the document.     *)
LEMMA ObjectReordered ==
  ASSUME NEW doc \in Seq(Objects), Distinct(doc), NEW p \in Positions(doc),
         \A m \in DOMAIN doc :
           /\ doc[m].type = "relationship"
           /\ Sources(doc, m) # {} /\ Targets(doc, m) # {}
           => FanOut(doc, m) <= MaxFanOut,
         NEW i \in DOMAIN doc
  PROVE  MapObject(Reordered(doc, p), i).records
           = MapObject(doc, p[i]).records
<1> DEFINE re == Reordered(doc, p)
<1>1. /\ DOMAIN re = DOMAIN doc /\ p[i] \in DOMAIN doc /\ re[i] = doc[p[i]]
  BY ReorderedObjects
<1>2. /\ \A j, k, id : Nodes(re, j, id) = Nodes(doc, k, id)
      /\ \A id \in Ids : Scos(re, id) = Scos(doc, id)
  BY NamesStand
<1>3. /\ Sources(re, i) = Sources(doc, p[i])
      /\ Targets(re, i) = Targets(doc, p[i])
  BY <1>1, <1>2 DEF Sources, Targets
<1>4. doc[p[i]] \in Objects /\ doc[p[i]].type \in Types
  <2>1. doc[p[i]] \in Objects
    BY <1>1
  <2>2. QED
    BY <2>1 DEF Objects
<1>5. CASE re[i].type = "relationship"
  <2>1. /\ Sources(re, i) # {} /\ Targets(re, i) # {} =>
             /\ ~(FanOut(re, i) > MaxFanOut)
             /\ ~(FanOut(doc, p[i]) > MaxFanOut)
    <3>1. SUFFICES ASSUME Sources(re, i) # {}, Targets(re, i) # {}
                   PROVE  /\ ~(FanOut(re, i) > MaxFanOut)
                          /\ ~(FanOut(doc, p[i]) > MaxFanOut)
      OBVIOUS
    <3>2. ~(FanOut(re, i) > MaxFanOut)
      BY <1>5, <3>1, FanOutFits
    <3>3. FanOut(doc, p[i]) <= MaxFanOut
      BY <1>1, <1>3, <1>5, <3>1
    <3>4. FanOut(doc, p[i]) \in Nat /\ MaxFanOut \in Nat
      <4>1. IsFiniteSet(UNION {EdgesOf(doc, j) : j \in Counted(doc, p[i])})
        BY <1>1, FewCounted
      <4>2. QED
        BY <4>1, FS_CardinalityType, StixAssumption
        DEF FanOut, EdgesOf, Counted
    <3>5. QED
      BY <3>2, <3>3, <3>4
  <2> HIDE DEF re
  <2>2. MapRelationship(re, i).records = MapRelationship(doc, p[i]).records
    <3>1. Unresolved(re, i) <=> Unresolved(doc, p[i])
      BY <1>1, <1>3 DEF Unresolved
    <3>2. ~Unresolved(re, i) => /\ ~(FanOut(re, i) > MaxFanOut)
                                /\ ~(FanOut(doc, p[i]) > MaxFanOut)
      BY <2>1 DEF Unresolved
    <3>3. CASE Unresolved(re, i)
      <4>1. MapRelationship(re, i).records = {}
        BY <3>3, RelationshipRecords
      <4>2. MapRelationship(doc, p[i]).records = {}
        BY <3>1, <3>3, RelationshipRecords
      <4>3. QED
        BY <4>1, <4>2
    <3>4. CASE ~Unresolved(re, i)
      <4>1. MapRelationship(re, i).records =
              {EdgeRecord(s, t) : s \in Sources(re, i), t \in Targets(re, i)}
        BY <3>2, <3>4, RelationshipRecords
      <4>2. MapRelationship(doc, p[i]).records =
              {EdgeRecord(s, t) :
                 s \in Sources(doc, p[i]), t \in Targets(doc, p[i])}
        BY <3>1, <3>2, <3>4, RelationshipRecords
      <4>3. QED
        BY <4>1, <4>2, <1>3
    <3>5. QED
      BY <3>3, <3>4
  <2>3. QED
    BY <1>1, <1>5, <2>2 DEF MapObject, re
<1>6. CASE re[i].type = "observed-data"
  <2>1. ObservedObservables(re, i) = ObservedObservables(doc, p[i])
    <3>1. re[i].refs \subseteq Ids
      BY <1>1, <1>4 DEF Objects
    <3> HIDE DEF re
    <3>2. QED
      BY <1>1, <1>2, <3>1 DEF ObservedObservables
  <2>2. Observers(re, i) = Observers(doc, p[i])
    <3> HIDE DEF re
    <3>1. Nodes(re, i, re[i].by) = Nodes(doc, p[i], doc[p[i]].by)
      BY <1>1, <1>2
    <3>2. QED
      BY <3>1 DEF Observers
  <2> HIDE DEF re
  <2>3. MapObservedData(re, i) = MapObservedData(doc, p[i])
    BY <1>1, <2>1, <2>2 DEF MapObservedData
  <2>4. QED
    BY <1>1, <1>6, <2>3 DEF MapObject, re
<1>7. CASE re[i].type \notin {"relationship", "observed-data"}
  <2> HIDE DEF re
  <2>1. MapObject(re, i) = MapObject(doc, p[i])
    BY <1>1, <1>4, <1>7 DEF MapObject, Types
  <2>2. QED
    BY <2>1 DEF re
<1>8. QED
  BY <1>5, <1>6, <1>7

LEMMA ParsedRecords ==
  ASSUME NEW doc
  PROVE  Parse(doc).records
           = UNION {MapObject(doc, i).records : i \in DOMAIN doc}
<1> DEFINE outcome(k) == MapObject(doc, k)
           mapped == {<<k, outcome(k)>> : k \in DOMAIN doc}
<1>1. Parse(doc).records = UNION {m[2].records : m \in mapped}
  BY DEF Parse
<1> HIDE DEF outcome
<1>2. UNION {m[2].records : m \in mapped}
        = UNION {outcome(k).records : k \in DOMAIN doc}
  <2>1. ASSUME NEW m \in mapped
        PROVE  \E k \in DOMAIN doc : m[2].records = outcome(k).records
    OBVIOUS
  <2>2. ASSUME NEW k \in DOMAIN doc
        PROVE  \E m \in mapped : m[2].records = outcome(k).records
    <3>1. <<k, outcome(k)>> \in mapped
      OBVIOUS
    <3>2. <<k, outcome(k)>>[2] = outcome(k)
      OBVIOUS
    <3> HIDE DEF mapped
    <3>3. QED
      BY <3>1, <3>2
  <2> HIDE DEF mapped
  <2>3. QED
    BY <2>1, <2>2
<1>3. QED
  BY <1>1, <1>2 DEF outcome

-----------------------------------------------------------------------------
(* Whatever fails, and whenever, every record and every quarantined row in *)
(* the store has the document it came from there with it.                  *)
THEOREM RecordsBacked == Spec => []EvidenceBacksRecords
<1>1. IInv => EvidenceBacksRecords
  BY DEF IInv, Evidence, Backed, EvidenceBacksRecords
<1>2. QED
  BY <1>1, InitSound, StepSound, PTL DEF Spec

(* A batch that did not land has left nothing in the store.                *)
THEOREM BatchesWhole == Spec => []OnlyLandedIsStored
<1>1. IInv => OnlyLandedIsStored
  BY DEF IInv, Evidence, Backed, OnlyLandedIsStored
<1>2. QED
  BY <1>1, InitSound, StepSound, PTL DEF Spec

(* In either mode and whatever fails, no object of a batch that landed     *)
(* falls between the store and the quarantine.                             *)
THEOREM ObjectsAccounted == Spec => []EveryObjectAccounted
<1>1. IInv /\ Written => EveryObjectAccounted
  <2> SUFFICES ASSUME IInv, Written, NEW doc \in Landed, NEW i \in DOMAIN doc
               PROVE  \/ doc[i].type = "marking-definition"
                      \/ Shown(doc, i)
                      \/ mode = Permissive /\ QuarantinedAt(doc, i)
    BY DEF EveryObjectAccounted
  <2>1. Passed(doc) /\ Carried(store, doc)
    BY DEF Written
  <2>2. Output[doc] = Parse(doc)
    BY <2>1 DEF Passed, Readable, Output
  <2>3. doc \in Seq(Objects)
    <3>1. feed \in Feeds /\ landed \in 0..Len(feed)
      BY DEF IInv, Types0
    <3>2. PICK k \in 1..landed : doc \in ToSet(feed[k])
      BY DEF Landed
    <3>3. k \in 1..Len(feed)
      BY <3>1, <3>2, PipelineAssumption
    <3>4. feed[k] \in Seq(Seq(Objects) \union {Unreadable})
      BY <3>1, <3>3, BatchDocuments
    <3>5. doc \in Seq(Objects) \union {Unreadable}
      BY <3>2, <3>4 DEF ToSet
    <3>6. QED
      BY <3>5, <2>1 DEF Passed, Readable
  <2>4. \/ doc[i].type = "marking-definition"
        \/ Shown(doc, i)
        \/ \E reason : <<i, reason>> \in Output[doc].rejected
    BY <2>1, <2>2, <2>3, ObjectShown DEF Carried
  <2>5. ASSUME NEW reason, <<i, reason>> \in Output[doc].rejected
        PROVE  mode = Permissive /\ QuarantinedAt(doc, i)
    <3>1. mode = Permissive
      BY <2>1, <2>5, PipelineAssumption DEF Passed, Written
    <3>2. <<doc, i, reason>> \in store.quarantine
      <4>1. <<doc, <<i, reason>>[1], <<i, reason>>[2]>> \in RejectedRows(doc)
        BY <2>5 DEF RejectedRows
      <4>2. QED
        BY <4>1, <2>1 DEF Carried
    <3>3. QED
      BY <3>1, <3>2 DEF QuarantinedAt
  <2>6. QED
    BY <2>4, <2>5
<1>2. QED
  BY <1>1, InitSound, StepSound, InitWritten, StepWritten, PTL DEF Spec

(* Whatever order a producer lists the objects of a bundle in, the same    *)
(* records come of it, as long as no edge is one too many for its source.  *)
THEOREM OrderDecidesNothing == Spec => []MappingIgnoresOrder
<1>1. IInv => MappingIgnoresOrder
  <2> DEFINE n == Len(reports.documents)
             report == reports.documents[n]
             doc == report.document
  <2>1. SUFFICES ASSUME IInv, n > 0, Distinct(doc),
                        \A r \in report.rejected : r[2] # "fan_out_exceeded",
                        NEW p \in Positions(doc)
                 PROVE  Parse(Reordered(doc, p)).records = report.records
    BY DEF MappingIgnoresOrder, Distinct, Positions, Reordered
  <2>2. n \in 1..Len(reports.documents)
    BY <2>1 DEF IInv, Types0
  <2>3. doc \in Readable /\ report = Report(doc)
    BY <2>1, <2>2, ReportInHand DEF IInv
  <2> HIDE DEF doc, report
  <2>4. /\ Output[doc] = Parse(doc)
        /\ report.records = Parse(doc).records
        /\ report.rejected = Parse(doc).rejected
    <3>1. Output[doc] = Parse(doc)
      BY <2>3 DEF Output, Readable
    <3>2. QED
      BY <2>3, <3>1 DEF Report
  <2>5. doc \in Seq(Objects)
    <3>1. PICK f \in Feeds : \E batch \in ToSet(f) : doc \in ToSet(batch)
      BY <2>3 DEF Readable, Documents
    <3>1a. PICK batch \in ToSet(f) : doc \in ToSet(batch)
      BY <3>1
    <3>2. f \in Seq(Seq(Seq(Objects) \union {Unreadable}))
      BY PipelineAssumption
    <3>3. batch \in Seq(Seq(Objects) \union {Unreadable})
      BY <3>2 DEF ToSet
    <3>4. doc \in Seq(Objects) \union {Unreadable}
      BY <3>1a, <3>3 DEF ToSet
    <3>5. QED
      BY <3>4, <2>3 DEF Readable
  <2>6. ASSUME NEW m \in DOMAIN doc, doc[m].type = "relationship",
               Sources(doc, m) # {}, Targets(doc, m) # {}
        PROVE  FanOut(doc, m) <= MaxFanOut
    <3>1. doc[m].source # None /\ doc[m].target # None
      <4>1. \A i : Nodes(doc, i, None) = {}
        <5> TAKE i
        <5>1. Bearers(doc, None) = {}
          BY DEF Bearers
        <5>2. QED
          BY <5>1, <2>1, <2>5, NodesOfBearers
      <4>2. QED
        BY <4>1, <2>6 DEF Sources, Targets
    <3>2. MapObject(doc, m) = MapRelationship(doc, m)
      BY <2>6 DEF MapObject
    <3>3. FanOut(doc, m) > MaxFanOut =>
            MapObject(doc, m).reason = "fan_out_exceeded"
      BY <2>6, <3>1, <3>2, RelationshipRecords DEF Unresolved
    <3>4. MapObject(doc, m).reason # "none" =>
            <<m, MapObject(doc, m).reason>> \in report.rejected
      BY <2>4, ParsedObject
    <3>5. MapObject(doc, m).reason # "fan_out_exceeded"
      <4>1. SUFFICES ASSUME MapObject(doc, m).reason = "fan_out_exceeded"
                     PROVE  FALSE
        OBVIOUS
      <4>2. <<m, "fan_out_exceeded">> \in report.rejected
        BY <3>4, <4>1
      <4>3. <<m, "fan_out_exceeded">>[2] = "fan_out_exceeded"
        OBVIOUS
      <4>4. QED
        BY <2>1, <4>2, <4>3
    <3>6. FanOut(doc, m) \in Nat /\ MaxFanOut \in Nat
      <4>1. IsFiniteSet(UNION {EdgesOf(doc, j) : j \in Counted(doc, m)})
        BY <2>1, <2>5, FewCounted
      <4>2. QED
        BY <4>1, FS_CardinalityType, StixAssumption
        DEF FanOut, EdgesOf, Counted
    <3>7. QED
      BY <3>3, <3>5, <3>6
  <2> DEFINE re == Reordered(doc, p)
  <2>7. /\ DOMAIN re = DOMAIN doc
        /\ \A i \in DOMAIN doc : p[i] \in DOMAIN doc
        /\ \A k \in DOMAIN doc : \E i \in DOMAIN doc : p[i] = k
    BY <2>1, <2>5, ReorderedObjects
  <2>8. \A i \in DOMAIN doc :
          MapObject(re, i).records = MapObject(doc, p[i]).records
    BY <2>1, <2>5, <2>6, ObjectReordered
  <2> HIDE DEF re
  <2>9. /\ Parse(re).records
             = UNION {MapObject(re, i).records : i \in DOMAIN re}
        /\ Parse(doc).records
             = UNION {MapObject(doc, i).records : i \in DOMAIN doc}
    BY ParsedRecords
  <2> DEFINE here(i) == MapObject(doc, i).records
             there(i) == MapObject(re, i).records
  <2>10. Parse(re).records = Parse(doc).records
    <3>1. \A i \in DOMAIN doc : there(i) = here(p[i])
      BY <2>8
    <3>2. /\ Parse(re).records = UNION {there(i) : i \in DOMAIN doc}
          /\ Parse(doc).records = UNION {here(i) : i \in DOMAIN doc}
      BY <2>7, <2>9
    <3> HIDE DEF here, there
    <3>3. QED
      BY <2>7, <3>1, <3>2
  <2>11. QED
    BY <2>4, <2>10 DEF re
<1>2. QED
  BY <1>1, InitSound, StepSound, PTL DEF Spec
=============================================================================
