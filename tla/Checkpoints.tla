---------------------------- MODULE Checkpoints -----------------------------
(***************************************************************************)
(* brolga-graph/src/checkpoint.rs: what about a record is material, and    *)
(* what changed between two checkpoints.  GraphCapture has the capture.    *)
(*                                                                         *)
(* Record keys are numbers, in the order a BTreeMap keeps them.  A digest  *)
(* is the value it is a digest of.                                         *)
(***************************************************************************)
EXTENDS Absence, Integers, FiniteSets, Sequences, SequencesExt, FiniteSetsExt, Functions


Facets == {"kind", "names", "endpoints", "status", "validity", "confidence",
           "markings", "sources"}

(* What a record carries that is not material: a difference in these alone *)
(* is no change.                                                           *)
Excluded == {"observed", "retrieved", "description", "schema"}

(* Only the band of a confidence is material.                              *)
Band(confidence) ==
  IF confidence = None THEN "unstated"
  ELSE CASE confidence \in 0..19  -> "very_low"
         [] confidence \in 20..39 -> "low"
         [] confidence \in 40..59 -> "moderate"
         [] confidence \in 60..79 -> "high"
         [] OTHER                 -> "very_high"

(* The name first, then the aliases in an order of their own.              *)
Names(entity) == <<entity.name, entity.aliases>>

Validity(record) == <<record.valid_from, record.valid_until>>

(* Restrictions of every kind, a kind this build does not know included.   *)
Markings(record) == record.markings

Sources(record) == record.source_objects

Fingerprint(class, status, facets) ==
  [class |-> class, status |-> status, facets |-> facets]

FingerprintEntity(e) ==
  Fingerprint("entity", e.status,
    [kind |-> e.kind, names |-> Names(e), status |-> e.status,
     validity |-> Validity(e), confidence |-> Band(e.confidence),
     markings |-> Markings(e), sources |-> Sources(e)])

FingerprintRelationship(x) ==
  Fingerprint("relationship", x.status,
    [kind |-> x.kind, endpoints |-> <<x.source, x.target>>,
     status |-> x.status, validity |-> Validity(x),
     confidence |-> Band(x.confidence), markings |-> Markings(x),
     sources |-> Sources(x)])

FingerprintObservable == Fingerprint("observable", None, [kind |-> "observable"])

FacetState(fingerprint, facet) ==
  IF facet \in DOMAIN fingerprint.facets THEN fingerprint.facets[facet] ELSE None

DifferingFacets(was, is) ==
  {f \in Facets : FacetState(was, f) # FacetState(is, f)}

Digest(fingerprint) == <<fingerprint.class, fingerprint.facets>>

(* A record that left into one successor was merged, into several, split.  *)
IntoRecords(successors) ==
  CASE successors = {}             -> None
    [] Cardinality(successors) = 1 -> [kind |-> "merged", successors |-> successors]
    [] OTHER                       -> [kind |-> "split", successors |-> successors]

-----------------------------------------------------------------------------
(* A checkpoint: shape, records, successions, versions, configuration,     *)
(* sources, truncated, withheld, unrecognised, algorithm_version.          *)
CheckpointFingerprint(c) ==
  [algorithm_version |-> c.algorithm_version, shape |-> c.shape,
   configuration |-> c.configuration, versions |-> c.versions,
   truncated |-> c.truncated, unrecognised |-> c.unrecognised,
   records |-> [k \in DOMAIN c.records |-> Digest(c.records[k])],
   successions |-> c.successions]

Current == {"active", "deprecated"}

IsDeparture(category) == category \in {"merged", "split", "removed"}

(* The lifecycle outranks a plain change, when the status is what differs. *)
LifecycleOf(was, is, facets) ==
  CASE "status" \notin facets \/ was = None \/ is = None -> None
    [] is = "revoked"                                    -> "revoked"
    [] is = "expired"                                    -> "expired"
    [] is \in Current /\ was \notin Current              -> "reactivated"
    [] OTHER                                             -> None

QuoteDifferences(was, is, facets) ==
  [f \in facets |-> <<FacetState(was, f), FacetState(is, f)>>]

(* Quoted facets of the record that is there.                              *)
Quote(fingerprint, side) ==
  [f \in DOMAIN fingerprint.facets |-> <<side, fingerprint.facets[f]>>]

Change(key, category, facets, successors, evidence) ==
  [key |-> key, category |-> category, facets |-> facets,
   successors |-> successors, evidence |-> evidence]

Changed(key, was, is) ==
  LET facets == DifferingFacets(was, is)
      lifecycle == LifecycleOf(was.status, is.status, facets) IN
  Change(key, IF lifecycle = None THEN "changed" ELSE lifecycle, facets, {},
         QuoteDifferences(was, is, facets))

Departed(key, was, succession) ==
  IF succession = None THEN Change(key, "removed", {}, {}, Quote(was, "before"))
  ELSE Change(key, succession.kind, {}, succession.successors, Quote(was, "before"))

(* A record is in a checkpoint or not, and left with a succession or not.  *)
Lookup(map, key) == IF key \in DOMAIN map THEN map[key] ELSE None

(* Mutant: a departure looks its succession up in the earlier checkpoint.  *)
SuccessionOfEither(before, after, key) == Lookup(before.successions, key)

(* Only the later checkpoint can know where a record went.                 *)
SuccessionOf(before, after, key) == Lookup(after.successions, key)

(* Nothing where the material state is the same.                           *)
Categorise(before, after, key) ==
  LET was == Lookup(before.records, key)
      is  == Lookup(after.records, key) IN
  CASE was = None /\ is = None -> None
    [] was = None              -> Change(key, "added", DOMAIN is.facets, {},
                                         Quote(is, "after"))
    [] is = None               -> Departed(key, was, SuccessionOf(before, after, key))
    [] OTHER -> IF Digest(was) = Digest(is) THEN None ELSE Changed(key, was, is)

VersionChanges(was, is) ==
  {<<c, Lookup(was, c), Lookup(is, c)>> :
     c \in {d \in DOMAIN was \union DOMAIN is : Lookup(was, d) # Lookup(is, d)}}

CancelCheckInterval == 2   \* CANCEL_CHECK_INTERVAL, scaled down from 256

NoDelta == [changes |-> <<>>, compared |-> 0, unchanged |-> 0, truncated |-> {}]

Truncated(delta, reason) == [delta EXCEPT !.truncated = {reason}]

(* One record of the walk, which stops at the first limit it meets.        *)
CompareOne(before, after, limits, cancelledAt, delta, key) ==
  LET change == Categorise(before, after, key)
      seen == [delta EXCEPT !.compared = @ + 1] IN
  CASE delta.truncated # {} -> delta
    [] /\ delta.compared % CancelCheckInterval = 0
       /\ delta.compared >= cancelledAt
         -> Truncated(delta, "cancelled")
    [] delta.compared >= limits.max_records -> Truncated(delta, "records")
    [] change = None -> [seen EXCEPT !.unchanged = @ + 1]
    [] Len(delta.changes) >= limits.max_changes -> Truncated(seen, "changes")
    [] OTHER -> [seen EXCEPT !.changes = Append(@, change)]

CompareRefused(before, after, limits) ==
  CASE limits.max_records = 0       -> "empty budget: records"
    [] limits.max_changes = 0       -> "empty budget: changes"
    [] before.shape # after.shape   -> "shape mismatch"
    [] before.algorithm_version # after.algorithm_version -> "algorithm mismatch"
    [] OTHER                        -> None

(* compare: every key of either, in order.  The token is cancelled while   *)
(* the record numbered cancelledAt is compared.                            *)
Compare(before, after, limits, cancelledAt) ==
  LET keys == SetToSortSeq(DOMAIN before.records \union DOMAIN after.records, <)
      walked == FoldLeft(LAMBDA d, k : CompareOne(before, after, limits, cancelledAt, d, k),
                         NoDelta, keys) IN
  [delta |-> walked,
   inherited |-> before.truncated \union after.truncated,
   before |-> CheckpointFingerprint(before),
   after |-> CheckpointFingerprint(after),
   version_changes |-> VersionChanges(before.versions, after.versions),
   configuration_changed |-> before.configuration # after.configuration,
   sync_advanced |-> before.sources # after.sources,
   withheld |-> <<before.withheld, after.withheld>>]

IsMaterial(comparison) == comparison.delta.changes # <<>>

IsComplete(comparison) ==
  comparison.delta.truncated = {} /\ comparison.inherited = {}

Counts(comparison) ==
  LET categories == {c.category : c \in Range(comparison.delta.changes)} IN
  [c \in categories |->
     Len(SelectSeq(comparison.delta.changes, LAMBDA change : change.category = c))]

AttributableToVersionChange(comparison) ==
  comparison.version_changes # {} \/ comparison.configuration_changed
=============================================================================
