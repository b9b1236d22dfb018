------------------------------ MODULE Ranking -------------------------------
(***************************************************************************)
(* brolga-graph/src/rank.rs, budget.rs and quality.rs: which records go in *)
(* a pack and in what order, what fits the budget asked for, and what the  *)
(* pack kept of what there was.  An id is a number, in the order of its    *)
(* text; a reason is left out.                                             *)
(***************************************************************************)
EXTENDS Absence, Integers, FiniteSets, Sequences, SequencesExt, FiniteSetsExt, Functions

SmallerOf(a, b) == IF a < b THEN a ELSE b

-----------------------------------------------------------------------------
Factors == {"confidence", "freshness", "corroboration", "novelty", "quality",
            "actionability", "cost"}

IsCost(factor) == factor = "cost"

Balanced ==
  [confidence |-> 90, corroboration |-> 80, freshness |-> 70, actionability |-> 60,
   quality |-> 50, novelty |-> 40, cost |-> 30]

NoWeights == [f \in Factors |-> 0]
IsInert(weights) == \A f \in Factors : weights[f] = 0

IsKept(verdict) == verdict \in {"included", "protected"}

(* A factor a record has nothing of counts as nought.                      *)
CompleteFactors(candidate) ==
  [f \in Factors |-> IF f \in DOMAIN candidate.factors THEN candidate.factors[f] ELSE 0]

(* The weighted mean, in whole points; a cheap record scores where a       *)
(* costly one does not.                                                    *)
WeightedMean(factors, weights, divisor) ==
  LET value(f) == IF IsCost(f) THEN 100 - factors[f] ELSE factors[f] IN
  IF divisor = 0 THEN 0
  ELSE SmallerOf(MapThenSumSet(LAMBDA f : value(f) * weights[f], Factors) \div divisor, 100)

ScoreOf(candidate, weights) ==
  WeightedMean(CompleteFactors(candidate), weights, MapThenSumSet(LAMBDA f : weights[f], Factors))

(* Records that share a key, two at least, none of them protected.         *)
Groups(candidates) ==
  LET Sharing(k) == {c \in Range(candidates) : ~c.protected /\ c.cluster_key = k}
      keys == {k \in {c.cluster_key : c \in Range(candidates)} \ {None} : Cardinality(Sharing(k)) >= 2} IN
  [k \in keys |-> Sharing(k)]

Best(group, scores) ==
  CHOOSE c \in group : \A d \in group \ {c} :
    scores[c] > scores[d] \/ (scores[c] = scores[d] /\ c.id < d.id)

Represented(group, weights) ==
  [representative |-> Best(group, [c \in group |-> ScoreOf(c, weights)]).id,
   members |-> {c.id : c \in group}]

Clusters(candidates, weights) ==
  LET Of(groups) == [k \in DOMAIN groups |-> Represented(groups[k], weights)] IN
  Of(Groups(candidates))

VerdictOf(candidate, clusters) ==
  CASE candidate.protected -> "protected"
    [] ~candidate.protected /\ candidate.cluster_key # None
       /\ candidate.cluster_key \in DOMAIN clusters
       /\ clusters[candidate.cluster_key].representative # candidate.id -> "clustered"
    [] OTHER -> "included"

(* The bound counts the included alone.                                    *)
CutAt(order, keep) ==
  LET before(i) == Cardinality({j \in 1..i : order[j].verdict = "included"}) IN
  [i \in DOMAIN order |-> IF order[i].verdict = "included" /\ before(i) > keep
                          THEN [order[i] EXCEPT !.verdict = "excluded"] ELSE order[i]]

(* By score, then by id.                                                   *)
Ordered(scored) ==
  SetToSortSeq(scored, LAMBDA a, b : a.score > b.score \/ (a.score = b.score /\ a.id < b.id))

Rank(candidates, weights, keep) ==
  LET Scored(c, clusters) == [id |-> c.id, score |-> ScoreOf(c, weights),
                              factors |-> CompleteFactors(c), verdict |-> VerdictOf(c, clusters)]
      Plan(clusters) ==
        [ranked |-> CutAt(Ordered({Scored(c, clusters) : c \in Range(candidates)}), keep),
         clusters |-> clusters, inert |-> IsInert(weights)] IN
  Plan(Clusters(candidates, weights))

KeptIds(plan) == {r.id : r \in {q \in Range(plan.ranked) : IsKept(q.verdict)}}

SecondsPerDay == 2   \* scaled down from 86400

(* Undated is not old; after now, or a horizon of nought, is fresh.        *)
Freshness(seen, now, horizonDays) ==
  LET horizon == horizonDays * SecondsPerDay  age == now - seen IN
  CASE seen = None                       -> 50
    [] seen # None /\ (horizon <= 0 \/ age <= 0) -> 100
    [] OTHER -> IF age >= horizon THEN 0 ELSE ((horizon - age) * 100) \div horizon

(* A claim is of the instant it was last seen, else first seen, else is    *)
(* valid from.                                                             *)
SeenAt(claim) ==
  LET said == SelectSeq(<<claim.last_seen, claim.first_seen, claim.valid_from>>, LAMBDA t : t # None) IN
  IF said = <<>> THEN None ELSE Head(said)

(* Sources are counted, whoever they come from.                            *)
CandidateFromClaim(claim, now, horizonDays, exactSubjects) ==
  LET sources == [corroboration |-> SmallerOf(Cardinality(claim.sources) * 25, 100),
                  freshness |-> Freshness(SeenAt(claim), now, horizonDays),
                  quality |-> IF claim.status \in {"active", "deprecated"}
                              THEN 100 ELSE 25] IN
  [id |-> claim.id,
   factors |-> [f \in DOMAIN sources \union
                      (IF claim.confidence = None THEN {} ELSE {"confidence"}) |->
                  IF f = "confidence" THEN claim.confidence ELSE sources[f]],
   protected |-> claim.subject \in exactSubjects, cluster_key |-> None]

-----------------------------------------------------------------------------
(* Budgets.  A limit that is None does not bind.                           *)
BytesPerToken == 4
Tokens(bytes) == (bytes + BytesPerToken - 1) \div BytesPerToken

Unlimited == [tokens |-> None, bytes |-> None, objects |-> None,
              relationships |-> None, depth |-> None, time_ms |-> None]

(* An item: id, section, bytes, is_relationship, required.                 *)
CostOf(item, dimension) ==
  CASE dimension = "tokens"  -> Tokens(item.bytes)
    [] dimension = "bytes"   -> item.bytes
    [] dimension = "objects" -> 1
    [] dimension = "relationships" -> IF item.is_relationship THEN 1 ELSE 0

Spent == <<"tokens", "bytes", "objects", "relationships">>

(* The first dimension, in this order, an item does not fit.               *)
Exceeds(item, limits, used) ==
  LET over == SelectSeq(Spent, LAMBDA d :
        /\ d = "relationships" => item.is_relationship
        /\ limits[d] # None /\ used[d] + CostOf(item, d) > limits[d]) IN
  IF over = <<>> THEN None ELSE Head(over)

NothingSpent == [d \in Range(Spent) |-> 0]

NoFit == [kept |-> <<>>, dropped |-> <<>>, used |-> NothingSpent, closed |-> <<>>,
          binding |-> {}, failure |-> None]

Closed(fit, section) ==
  LET found == SelectSeq(fit.closed, LAMBDA c : c[1] = section) IN
  IF found = <<>> THEN None ELSE Last(found)[2]

Dropped(fit, item, dimension) ==
  [fit EXCEPT !.dropped = Append(@, <<item.id, dimension>>)]

(* One item: the deadline, then a section already closed, then the rest.   *)
FitOne(fit, item, limits, late) ==
  LET over == Exceeds(item, limits, fit.used)
      closed == Closed(fit, item.section) IN
  CASE fit.failure # None -> fit
    [] fit.failure = None /\ late ->
         IF item.required THEN [fit EXCEPT !.failure = <<"deadline", item.id>>]
         ELSE [Dropped(fit, item, "time") EXCEPT !.binding = @ \union {"time"}]
    [] OTHER ->
  CASE closed # None /\ ~item.required -> Dropped(fit, item, closed)
    [] OTHER ->
  CASE over # None /\ item.required -> [fit EXCEPT !.failure = <<over, item.id>>]
    [] over # None /\ ~item.required ->
         [Dropped(fit, item, over) EXCEPT !.binding = @ \union {over},
            !.closed = Append(@, <<item.section, over>>)]
    [] OTHER -> [fit EXCEPT !.kept = Append(@, item.id),
                   !.used = [d \in DOMAIN @ |-> @[d] + CostOf(item, d)]]

(* Mutant: items are fitted in the order they were ranked.                 *)
RequiredFirstAsRanked(items) == items

RequiredFirst(items) ==
  SelectSeq(items, LAMBDA i : i.required) \o SelectSeq(items, LAMBDA i : ~i.required)

(* fit: the deadline passes as the item numbered lateFrom comes up.        *)
Fit(items, limits, lateFrom) ==
  LET ordered == RequiredFirst(items) IN
  FoldLeftDomain(LAMBDA f, i : FitOne(f, ordered[i], limits,
                                      limits.time_ms # None /\ i >= lateFrom),
                 NoFit, ordered)

IsTruncated(fit) == fit.dropped # <<>>

-----------------------------------------------------------------------------
(* Quality: counts of what there was and of what the pack has.             *)
(* A percentage is a byte: one beyond a byte is taken for all there was.   *)
PercentOf(part, whole) ==
  IF whole = 0 \/ (part * 100) \div whole > 255 THEN 100
  ELSE (part * 100) \div whole

Reconciles(report) ==
  report.included + report.clustered + report.dropped = report.canonical_records

EvidenceRetention(report) == PercentOf(report.evidence_after, report.evidence_before)
ContradictionRetention(report) ==
  PercentOf(report.contradictions_after, report.contradictions_before)
ReductionPercent(report) ==
  PercentOf(IF report.source_bytes < report.output_bytes THEN 0
            ELSE report.source_bytes - report.output_bytes, report.source_bytes)

IsAcceptable(report, floor) ==
  /\ Reconciles(report)
  /\ EvidenceRetention(report) >= floor
  /\ ContradictionRetention(report) = 100

Shortfalls(report, floor) ==
  (IF Reconciles(report) THEN {} ELSE {"counts do not reconcile"})
  \union (IF EvidenceRetention(report) < floor THEN {"evidence retention"} ELSE {})
  \union (IF ContradictionRetention(report) # 100 THEN {"contradictions dropped"} ELSE {})

=============================================================================
