------------------------------ MODULE Identity ------------------------------
(***************************************************************************)
(* brolga-graph/src/resolve.rs and dedup.rs: which records are one thing,  *)
(* by what an analyst decided and by what the records carry, and which     *)
(* observations of one record are independent of each other.               *)
(*                                                                         *)
(* An identifier is a number, in the order of its text.  A name is what    *)
(* normalisation leaves of it and its significant tokens.                  *)
(***************************************************************************)
EXTENDS Integers, FiniteSets, Sequences

CONSTANTS
  Ids,           \* entity identifiers
  Actors,        \* who may perform an operation; "" is nobody
  Contexts,      \* under what authority; "" is none
  MaxHistory     \* bound: operations applied

ASSUME IdsAssumption == Ids \subseteq Nat /\ MaxHistory \in Nat

VARIABLES
  aliases,       \* alias -> canonical
  rejections,    \* ordered pairs
  pins,
  merges,        \* absorbed -> survivor
  history        \* every operation applied, in order

idVars == <<aliases, rejections, pins, merges, history>>

NoId == -1
Kinds == {"merge", "split", "reject", "alias", "pin"}
Operations == [kind : Kinds, left : Ids, right : Ids \union {NoId},
               actor : Actors, context : Contexts, withdraws : BOOLEAN]

Lower(a, b)  == IF a <= b THEN a ELSE b
Higher(a, b) == IF a <= b THEN b ELSE a
Ordered(a, b) == <<Lower(a, b), Higher(a, b)>>

With(map, key, value) ==
  [k \in DOMAIN map \union {key} |-> IF k = key THEN value ELSE map[k]]
Without(map, key) == [k \in DOMAIN map \ {key} |-> map[k]]

OperationRefused(op) ==
  \/ op.actor = ""
  \/ op.context = ""
  \/ op.kind # "pin" /\ op.right = NoId
  \/ op.kind = "merge" /\ (op.left \in pins \/ op.right \in pins)

Refuse(op) == OperationRefused(op) /\ UNCHANGED idVars

Recorded(op) ==
  /\ ~OperationRefused(op)
  /\ Len(history) < MaxHistory
  /\ history' = Append(history, op)

(* The lower identity survives; one absorbed before is absorbed anew.      *)
Merge(op) ==
  /\ op.kind = "merge" /\ Recorded(op)
  /\ merges' = With(merges, Higher(op.left, op.right), Lower(op.left, op.right))
  /\ UNCHANGED <<aliases, rejections, pins>>

(* Whatever absorbed the higher identity, it no longer does.               *)
Split(op) ==
  /\ op.kind = "split" /\ Recorded(op)
  /\ merges' = Without(merges, Higher(op.left, op.right))
  /\ UNCHANGED <<aliases, rejections, pins>>

Reject(op) ==
  /\ op.kind = "reject" /\ Recorded(op)
  /\ rejections' = IF op.withdraws THEN rejections \ {Ordered(op.left, op.right)}
                   ELSE rejections \union {Ordered(op.left, op.right)}
  /\ UNCHANGED <<aliases, pins, merges>>

Alias(op) ==
  /\ op.kind = "alias" /\ Recorded(op)
  /\ aliases' = IF op.withdraws THEN Without(aliases, Higher(op.left, op.right))
                ELSE With(aliases, Higher(op.left, op.right), Lower(op.left, op.right))
  /\ UNCHANGED <<rejections, pins, merges>>

Pin(op) ==
  /\ op.kind = "pin" /\ Recorded(op)
  /\ pins' = IF op.withdraws THEN pins \ {op.left} ELSE pins \union {op.left}
  /\ UNCHANGED <<aliases, rejections, merges>>

Apply(op) ==
  Refuse(op) \/ Merge(op) \/ Split(op) \/ Reject(op) \/ Alias(op) \/ Pin(op)

IdInit ==
  /\ aliases = [i \in {} |-> 0]
  /\ rejections = {}
  /\ pins = {}
  /\ merges = [i \in {} |-> 0]
  /\ history = <<>>

IdNext == \E op \in Operations : Apply(op)

IdSpec == IdInit /\ [][IdNext]_idVars

-----------------------------------------------------------------------------
IsRejected(a, b) == Ordered(a, b) \in rejections

IsAlias(a, b) ==
  Higher(a, b) \in DOMAIN aliases /\ aliases[Higher(a, b)] = Lower(a, b)

(* The chain of merges from an identity, as far as there are merges.       *)
CanonicalIdentity(id) ==
  LET follow[n \in 0..(Cardinality(DOMAIN merges) + 1)] ==
        IF n = 0 THEN id
        ELSE IF follow[n - 1] \in DOMAIN merges THEN merges[follow[n - 1]]
             ELSE follow[n - 1] IN
  follow[Cardinality(DOMAIN merges) + 1]

(* Records to resolve: id, kind, name [key, tokens], external_ids, marked, *)
(* sources.                                                                *)
SharedExternals(a, b) ==
  {ns \in DOMAIN a.external_ids \cap DOMAIN b.external_ids :
     a.external_ids[ns] = b.external_ids[ns]}

(* Only an authority, an analyst or the identity itself decides; a name is *)
(* at most a hint.                                                         *)
NameSignals(a, b) ==
  CASE a.kind # b.kind               -> {}
    [] a.kind = b.kind /\ a.name.key = b.name.key -> {"normalised-name"}
    [] a.kind = b.kind /\ a.name.key # b.name.key
       /\ a.name.tokens \cap b.name.tokens # {}   -> {"shared-name-token"}
    [] OTHER                         -> {}

Signals(a, b) ==
  (IF a.id = b.id THEN {"canonical-identifier"} ELSE {})
  \union (IF SharedExternals(a, b) # {} THEN {"external-identifier"} ELSE {})
  \union (IF IsAlias(a.id, b.id) THEN {"declared-alias"} ELSE {})
  \union NameSignals(a, b)

SignalScore(signal) ==
  CASE signal = "canonical-identifier" -> 100
    [] signal = "external-identifier"  -> 95
    [] signal = "declared-alias"       -> 90
    [] signal = "normalised-name"      -> 60
    [] signal = "shared-name-token"    -> 25

StrengthOf(signal) ==
  CASE SignalScore(signal) >= 90 -> "decisive"
    [] SignalScore(signal) = 60  -> "supporting"
    [] SignalScore(signal) = 25  -> "weak"

CanMergeAlone(signal) == StrengthOf(signal) = "decisive"

(* Mutant: the records speak before the analyst.                           *)
OutcomeUnreviewed(a, b) ==
  LET signals == Signals(a, b) IN
  CASE \E s \in signals : CanMergeAlone(s) -> "merged"
    [] OTHER -> IF IsRejected(a.id, b.id) THEN "rejected" ELSE "candidate"

(* A standing rejection first, then nothing to go on, then a pin.          *)
Outcome(a, b) ==
  LET signals == Signals(a, b) IN
  CASE IsRejected(a.id, b.id) -> "rejected"
    [] ~IsRejected(a.id, b.id) /\ signals = {} -> "distinct"
    [] OTHER -> CASE a.id \in pins \/ b.id \in pins -> "pinned"
                  [] OTHER -> IF \E s \in signals : CanMergeAlone(s)
                              THEN "merged" ELSE "candidate"

Resolve(a, b) ==
  [pair |-> Ordered(a.id, b.id), outcome |-> Outcome(a, b),
   signals |-> IF IsRejected(a.id, b.id) THEN {} ELSE Signals(a, b)]

(* The queue is sorted, so it is a set of candidates.                      *)
ResolveAll(records) ==
  {c \in {Resolve(records[p[1]], records[p[2]]) :
            p \in {q \in (DOMAIN records) \X (DOMAIN records) : q[1] < q[2]}} :
     c.outcome # "distinct"}

MergedMarkings(a, b) == a.marked \union b.marked
MergeLosesAMarking(a, b, merged) == ~((a.marked \union b.marked) \subseteq merged)

-----------------------------------------------------------------------------

IncreasesCorroboration(verdict) == verdict = "independent_corroboration"

(* The first prior observation that some condition holds of.               *)
FirstThat(prior, Holds(_)) ==
  LET found == {i \in DOMAIN prior : Holds(prior[i])} IN
  IF found = {} THEN 0 ELSE CHOOSE i \in found : \A j \in found : i <= j

(* The same bytes first, then the same publisher.                          *)
Judge(observation, prior) ==
  LET bytes == FirstThat(prior, LAMBDA o : o.content = observation.content)
      publisher == FirstThat(prior, LAMBDA o : o.publisher = observation.publisher) IN
  CASE bytes # 0 -> IF prior[bytes].publisher = observation.publisher
                    THEN "exact_duplicate" ELSE "syndicated_copy"
    [] bytes = 0 /\ publisher # 0 ->
         IF prior[publisher].record = observation.record
         THEN "canonical_duplicate" ELSE "update"
    [] OTHER -> "independent_corroboration"

NoLineage == [seen |-> <<>>, decisions |-> <<>>, publishers |-> {}, versions |-> <<>>]

Observe(lineage, observation) ==
  LET verdict == Judge(observation, lineage.seen) IN
  [seen |-> Append(lineage.seen, observation),
   decisions |-> Append(lineage.decisions, verdict),
   publishers |-> IF IncreasesCorroboration(verdict)
                  THEN lineage.publishers \union {observation.publisher}
                  ELSE lineage.publishers,
   versions |-> IF lineage.versions = <<>> \/ verdict = "update"
                THEN Append(lineage.versions, observation.record)
                ELSE lineage.versions]

Corroboration(lineage) == Cardinality(lineage.publishers)
=============================================================================
