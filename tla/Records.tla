-------------------------------- MODULE Records --------------------------------
(***************************************************************************)
(* The canonical model (brolga-model): the records everything else speaks  *)
(* of, the identities they derive and what each demands when it is built   *)
(* and when it is read back.                                               *)
(*                                                                         *)
(* A record is read by a Deserialize that builds it field by field and     *)
(* calls `validated`; it is built by `new`, `push`, `cite` and `record`,   *)
(* each with a check of its own.  The state machine builds a provenance    *)
(* step by step, as a parser does.  Texts are characters in a sequence     *)
(* where an identity is derived of them, and otherwise a length and the    *)
(* worst character in them.                                                *)
(***************************************************************************)
EXTENDS Absence, Integers, FiniteSets, Sequences, SequencesExt, FiniteSetsExt

CONSTANTS
  SourceIds,       \* sources a provenance may list or cite
  MaxSteps,        \* MAX_TRANSFORMATION_STEPS
  MaxReferences,   \* MAX_EVIDENCE_REFERENCES
  MaxOriginals     \* MAX_ORIGINAL_FIELDS

ASSUME RecordsAssumption == {MaxSteps, MaxReferences, MaxOriginals} \subseteq Nat \ {0}

VARIABLE provenance   \* the one being built, None before it is

-----------------------------------------------------------------------------
(* Times, counts, states.                                                  *)
(***************************************************************************)
InOrder(earlier, later) == earlier = None \/ later = None \/ earlier <= later

TemporalValid(t) ==
  InOrder(t.first_seen, t.last_seen) /\ InOrder(t.valid_from, t.valid_until)

IsExpiredAt(t, now) == t.valid_until # None /\ t.valid_until < now

SightingCountValid(n) == n # 0

-----------------------------------------------------------------------------
(***************************************************************************)
(* Identities.                                                             *)
(***************************************************************************)
(* A number's text.                                                        *)
Decimal(n) ==
  LET Digit(k) == <<"0", "1", "2", "3", "4", "5", "6", "7", "8", "9">>[k + 1]
      text[k \in 0..n] ==
        IF k < 10 THEN <<Digit(k)>> ELSE Append(text[k \div 10], Digit(k % 10)) IN
  text[n]

(* The name a UUID is made of: each part after its length and a colon.     *)
Prefixed(part) == Decimal(Len(part)) \o <<":">> \o part
Derive(kind, parts) == <<kind, FlattenSeq([n \in DOMAIN parts |-> Prefixed(parts[n])])>>

IsSymmetric(kind) == kind \in {"duplicate_of", "related_to"}

(* The kinds' names, then the parts an identity is made of.  Nodes are     *)
(* ordered as derived: entities before observables, then by id; a node is  *)
(* the number of its place in that order.                                  *)
RelationshipId(kind, source, target) ==
  IF IsSymmetric(kind) /\ target < source THEN <<kind, target, source>> ELSE <<kind, source, target>>

EntityId(kind, authority, external) == <<kind, authority, external>>

DerivationParts(assertion) ==
  IF assertion.kind = "attribute" THEN <<assertion.name, assertion.value>>
  ELSE <<assertion.value>>

ClaimId(subject, assertion) == <<subject, assertion.kind>> \o DerivationParts(assertion)

SightingId(subject, observer, first, last) ==
  <<subject, IF observer = None THEN "-" ELSE observer, first, last>>

SourceObjectId(hash) == <<hash>>

-----------------------------------------------------------------------------
(* What a record is read back on: what `validated` refuses.  An entity, a  *)
(* claim, a relationship and a sighting keep the id they were given.       *)
(***************************************************************************)
EntityReadable(entity) == TemporalValid(entity.temporal)
ClaimReadable(claim) == TemporalValid(claim.temporal)
RelationshipReadable(r) == r.source # r.target /\ TemporalValid(r.temporal)
SightingReadable(s) ==
  /\ SightingCountValid(s.count)
  /\ s.first_seen <= s.last_seen
  /\ TemporalValid(s.temporal)
SourceObjectReadable(s) == s.id = SourceObjectId(s.content_hash)
MatchesBytes(s, bytes) == s.content_hash = bytes.hash /\ s.byte_length = bytes.length

-----------------------------------------------------------------------------
(* Provenance.                                                             *)
(***************************************************************************)
PipelineStages == <<"retrieval", "detection", "parsing", "validation", "normalisation",
            "canonicalisation", "resolution", "deduplication", "enrichment",
            "compression", "export">>
StageAt(stage) == CHOOSE n \in DOMAIN PipelineStages : PipelineStages[n] = stage

ChainValid(chain) ==
  /\ Len(chain) \in 1..MaxSteps
  /\ \A n \in 1..Len(chain) - 1 : StageAt(chain[n].stage) <= StageAt(chain[n + 1].stage)

CurrentStage(chain) == IF chain = <<>> THEN "retrieval" ELSE Last(chain).stage

(* Mutant: whatever the stage of the last.                                 *)
PushAnyStage(chain, step) == IF Len(chain) >= MaxSteps THEN chain ELSE Append(chain, step)

(* The pipeline does not run backwards: a step before the last is refused. *)
Push(chain, step) ==
  IF Len(chain) >= MaxSteps \/ StageAt(step.stage) < StageAt(CurrentStage(chain)) THEN chain
  ELSE Append(chain, step)

LocatorValid(locator) ==
  CASE locator.kind = "byte_range"   -> locator.start < locator.end
    [] locator.kind = "line"         -> locator.number > 0
    [] locator.kind = "json_pointer" -> locator.rooted
    [] OTHER                         -> TRUE

Whole(source) == [source |-> source, locator |-> [kind |-> "whole"]]
ReferenceAt(source, locator) ==
  IF LocatorValid(locator) THEN [source |-> source, locator |-> locator] ELSE None

GeneratedValid(g) == Len(g.evidence) \in 1..MaxReferences

(* What a provenance read back must be.                                    *)
ProvenanceReadable(p) ==
  LET cited == ToSet(p.evidence) \union
               (IF p.generated = None THEN {} ELSE ToSet(p.generated.evidence)) IN
  /\ Len(p.sources) \in 1..64
  /\ Len(p.evidence) <= MaxReferences
  /\ \A r \in cited : r.source \in ToSet(p.sources) /\ LocatorValid(r.locator)
  /\ p.generated # None => GeneratedValid(p.generated)
  /\ ChainValid(p.chain)
  /\ Cardinality(DOMAIN p.original) <= MaxOriginals

(* Evidence of the one source it came from, all of it.                     *)
FromSource(source, chain) ==
  LET p == [sources |-> <<source>>, chain |-> chain, original |-> [f \in {} |-> 0],
            evidence |-> <<Whole(source)>>, generated |-> None] IN
  IF ProvenanceReadable(p) THEN p ELSE None

(* A citation of a source that is listed, while there is room.             *)
Cite(p, reference) ==
  IF reference.source \notin ToSet(p.sources) \/ Len(p.evidence) >= MaxReferences THEN p
  ELSE [p EXCEPT !.evidence = Append(@, reference)]

(* What was said before it was made canonical, the last one of a field.    *)
RecordOriginal(p, field, value) ==
  IF field \notin DOMAIN p.original /\ Cardinality(DOMAIN p.original) >= MaxOriginals THEN p
  ELSE [p EXCEPT !.original = [f \in DOMAIN @ \union {field} |->
                                 IF f = field THEN value ELSE @[f]]]

-----------------------------------------------------------------------------
(* A provenance as it is built.                                            *)
(***************************************************************************)
StepsOf == {[stage |-> s, algorithm |-> "a", version |-> 1, output |-> None] :
              s \in {"retrieval", "parsing", "normalisation"}}

LocatorsOf == {[kind |-> "line", number |-> n] : n \in 0..1}
              \union {[kind |-> "byte_range", start |-> 1, end |-> n] : n \in 1..2}

Begin(source, step) ==
  /\ provenance = None
  /\ provenance' = FromSource(source, <<step>>)

Advance(step) ==
  /\ provenance # None
  /\ provenance' = [provenance EXCEPT !.chain = Push(@, step)]

CiteAt(source, locator) ==
  /\ provenance # None
  /\ ReferenceAt(source, locator) # None
  /\ provenance' = Cite(provenance, ReferenceAt(source, locator))

KeepOriginal(field, value) ==
  /\ provenance # None
  /\ provenance' = RecordOriginal(provenance, field, value)

RecordsInit == provenance = None

RecordsNext ==
  \/ \E source \in SourceIds, step \in StepsOf : Begin(source, step)
  \/ \E step \in StepsOf : Advance(step)
  \/ \E source \in SourceIds, locator \in LocatorsOf : CiteAt(source, locator)
  \/ \E field \in {"name", "value", "kind"}, value \in {"raw", "other"} :
       KeepOriginal(field, value)

(* Whatever calls built it, a provenance that was written can be read back *)
(* (each builder checks as it goes and the reader checks the whole).       *)
WhatIsBuiltReadsBack == provenance # None => ProvenanceReadable(provenance)
=============================================================================
