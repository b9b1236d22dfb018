---------------------------- MODULE Assessments -----------------------------
(***************************************************************************)
(* brolga-graph/src/decay.rs, contradiction.rs and confidence.rs: what age *)
(* costs a record, which claims disagree, and the figure the two make.     *)
(*                                                                         *)
(* Time counts in parts of a day.  A reason, an excerpt and the version of *)
(* the algorithm are left out; a digest of a policy is the policy.         *)
(***************************************************************************)
EXTENDS Absence, Integers, FiniteSets, Sequences, SequencesExt, FiniteSetsExt, Functions, TLC

AtLeast(a, b) == IF a < b THEN b ELSE a
AtMost(a, b)  == IF a > b THEN b ELSE a

-----------------------------------------------------------------------------
(* Decay.  A timeline maps the anchors a record has to their instants.     *)
Anchors == <<"observed", "last_seen", "published", "modified", "created",
             "first_seen">>

SecondsPerDay == 2   \* scaled down from 86400

(* An instant after now has no age.                                        *)
AgeInDays(from, now) == AtLeast(now - from, 0) \div SecondsPerDay

RetentionFloor == 1
MinimumHalfLifeDays == 1

HalfLife(days, floor) ==
  [half_life |-> AtLeast(days, MinimumHalfLifeDays),
   floor |-> AtMost(AtLeast(floor, RetentionFloor), 100), never |-> FALSE]

Never == [half_life |-> 0, floor |-> 100, never |-> TRUE]

(* One half-life halves what remains; within it the fall is linear.        *)
StandingAfter(profile, age) ==
  LET whole == age \div profile.half_life
      upper == IF whole >= 7 THEN 0 ELSE 100 \div 2^whole
      lower == upper \div 2
      within == ((upper - lower) * (age % profile.half_life)) \div profile.half_life IN
  IF profile.never THEN 100 ELSE AtLeast(upper - within, profile.floor)

(* A policy: profiles by kind, default, anchors, dormant_at_or_below and   *)
(* future_dating.  A kind it does not name decays as the default does.     *)
DecayDefaults ==
  [revision |-> 1, default |-> HalfLife(90, 10),
   profiles |-> [url |-> HalfLife(30, 5), ipv4_address |-> HalfLife(14, 5),
                 file_hash |-> Never],
   anchors |-> Anchors, dormant_at_or_below |-> 25, future_dating |-> "rejected"]

ProfileFor(policy, kind) ==
  IF kind \in DOMAIN policy.profiles THEN policy.profiles[kind] ELSE policy.default

(* Mutant: an instant in the future is believed.                           *)
UsableAnyway(policy, timeline, now, anchor) == anchor \in DOMAIN timeline

Usable(policy, timeline, now, anchor) ==
  /\ anchor \in DOMAIN timeline
  /\ timeline[anchor] <= now \/ policy.future_dating = "accepted"

(* The first instant of the policy's order that is there and is believed.  *)
AnchorOf(policy, timeline, now) ==
  LET usable == SelectSeq(policy.anchors, LAMBDA a : Usable(policy, timeline, now, a)) IN
  IF usable = <<>> THEN None ELSE Head(usable)

AnyInstantInFuture(timeline, now) ==
  \E a \in DOMAIN timeline \cap Range(Anchors) : timeline[a] > now

IsExpiredAt(timeline, now) ==
  "valid_until" \in DOMAIN timeline /\ timeline.valid_until < now

(* Withdrawal before expiry, both before exemption, the curve last.        *)
Decide(policy, profile, inputs, anchor) ==
  LET standing == StandingAfter(profile, AgeInDays(inputs.timeline[anchor], inputs.now)) IN
  CASE inputs.status = "revoked"    -> <<"revoked", profile.floor>>
    [] inputs.status = "superseded" -> <<"superseded", profile.floor>>
    [] inputs.status \notin {"revoked", "superseded"}
       /\ (inputs.status = "expired" \/ IsExpiredAt(inputs.timeline, inputs.now))
                                    -> <<"expired", profile.floor>>
    [] OTHER -> CASE profile.never  -> <<"exempt", 100>>
                  [] ~profile.never /\ anchor = None -> <<"undated", None>>
                  [] OTHER -> <<IF standing <= policy.dormant_at_or_below
                                THEN "dormant" ELSE "live", standing>>

(* What a queue sorts on: never nought where something was asserted.       *)
RankingInput(asserted, standing) ==
  IF asserted = None \/ standing = None THEN None
  ELSE IF asserted > 0 THEN AtLeast((asserted * standing) \div 100, 1) ELSE 0

Evaluate(policy, inputs) ==
  LET profile == IF inputs.exempt THEN Never ELSE ProfileFor(policy, inputs.kind)
      anchor == AnchorOf(policy, inputs.timeline, inputs.now)
      decided == Decide(policy, profile, inputs, anchor) IN
  [state |-> decided[1], standing |-> decided[2], anchor |-> anchor,
   age |-> IF anchor = None THEN None
           ELSE AgeInDays(inputs.timeline[anchor], inputs.now),
   floor |-> profile.floor, asserted |-> inputs.asserted,
   ranking_input |-> RankingInput(inputs.asserted, decided[2]),
   future_dated |-> AnyInstantInFuture(inputs.timeline, inputs.now),
   policy |-> policy]

IsLive(state) == state \in {"live", "exempt"}

(* The ledger keeps the state each subject was last in, and an event for   *)
(* every change of it.                                                     *)
NoLedger == [states |-> [s \in {} |-> None], transitions |-> <<>>]

(* What was stored of a subject's state, without which a restart would     *)
(* take a change of it for its first.                                      *)
SeedState(ledger, subject, state) ==
  [ledger EXCEPT !.states = [s \in DOMAIN @ \union {subject} |->
                               IF s = subject THEN state ELSE @[s]]]

LedgerEvaluate(ledger, policy, subject, inputs) ==
  LET state == Evaluate(policy, inputs).state
      known == subject \in DOMAIN ledger.states
      event == [subject |-> subject, from |-> ledger.states[subject], to |-> state,
                at |-> inputs.now,
                reactivation |-> ~IsLive(ledger.states[subject]) /\ IsLive(state)] IN
  [states |-> [s \in DOMAIN ledger.states \union {subject} |->
                 IF s = subject THEN state ELSE ledger.states[s]],
   transitions |-> IF known /\ ledger.states[subject] # state
                   THEN Append(ledger.transitions, event) ELSE ledger.transitions]

-----------------------------------------------------------------------------
(* Contradiction.  A claim: id, subject, assertion, stance, status,        *)
(* publisher, asserted_at, tlp.                                            *)
Stances == {"observed", "reported", "inferred", "analyst"}
Dispositions == <<"malicious", "suspicious", "benign", "allow_listed", "unknown">>
TlpLevels == <<"clear", "green", "amber", "amber_strict", "red">>

RankIn(order, x) == CHOOSE i \in DOMAIN order : order[i] = x

(* A claim from the canonical one: dated by when it was last seen.         *)
FromClaim(claim, stance, publisher) ==
  [id |-> claim.id, subject |-> claim.subject, assertion |-> claim.assertion,
   stance |-> stance, status |-> claim.status, publisher |-> publisher,
   asserted_at |-> claim.last_seen, tlp |-> claim.tlp]

(* Narrative answers no question.                                          *)
PredicateOf(assertion) ==
  CASE assertion.is = "disposition" -> <<"disposition">>
    [] assertion.is = "attribute"   -> <<"attribute", assertion.name>>
    [] OTHER                        -> None

IsContradiction(relation) == relation = "conflicts"

DispositionRule(left, right) ==
  CASE "unknown" \in {left, right}                              -> "compatible"
    [] {left, right} \in {{"malicious", "suspicious"}, {"benign", "allow_listed"}}
                                                                -> "compatible"
    [] left = right                                             -> "undecided"
    [] OTHER                                                    -> "conflicts"

CompareValues(rules, left, right) ==
  CASE left.is = "disposition" -> DispositionRule(left.value, right.value)
    [] left.is = "attribute"   ->
         IF left.name \in rules.single_valued THEN "conflicts" ELSE "compatible"
    [] OTHER                   -> "undecided"

OrderedInTime(first, second) ==
  /\ first.asserted_at # None /\ second.asserted_at # None
  /\ first.asserted_at # second.asserted_at

(* A quotation neither claim's sharing level permits is withheld.          *)
QuotationForbidden(rules, claims) ==
  \E c \in claims : c.tlp # None /\ RankIn(TlpLevels, c.tlp)
                                    > RankIn(TlpLevels, rules.evidence_ceiling)

(* Only a relation of values has a pair to quote.                          *)
Quotable(first, second, relation) ==
  /\ relation \notin {"unrelated", "revoked"}
  /\ ~(relation = "supersedes" /\ "superseded" \in {first.status, second.status})

RelationOf(rules, first, second) ==
  LET slots == <<PredicateOf(first.assertion), PredicateOf(second.assertion)>>
      same == first.assertion = second.assertion
      statuses == {first.status, second.status} IN
  CASE \/ first.subject # second.subject
       \/ None \in Range(slots) \/ slots[1] # slots[2] -> "unrelated"
    [] OTHER ->
  CASE "revoked" \in statuses -> "revoked"
    [] OTHER ->
  CASE "superseded" \in statuses -> "supersedes"
    [] OTHER ->
  CASE ~same /\ first.publisher = second.publisher /\ OrderedInTime(first, second)
         -> "supersedes"
    [] OTHER ->
  CASE ~same /\ (first.stance = "analyst") # (second.stance = "analyst")
         -> "analyst_override"
    [] same -> "agrees"
    [] OTHER -> CompareValues(rules, first.assertion, second.assertion)

Pair(left, right) == IF left.id <= right.id THEN <<left, right>> ELSE <<right, left>>

Relate(rules, left, right) ==
  LET first == Pair(left, right)[1]
      second == Pair(left, right)[2]
      relation == RelationOf(rules, first, second)
      quotable == Quotable(first, second, relation)
      forbidden == QuotationForbidden(rules, {first, second}) IN
  [subject |-> first.subject,
   predicate |-> IF relation = "unrelated" THEN None ELSE PredicateOf(first.assertion),
   left |-> first.id, right |-> second.id, relation |-> relation,
   evidence |-> IF quotable /\ ~forbidden
                THEN <<first.assertion, second.assertion>> ELSE None,
   evidence_withheld |-> quotable /\ forbidden]

(* Every pair once; the report is sorted by what the decisions are about,  *)
(* so it is a set of them.                                                 *)
Review(rules, claims) ==
  {Relate(rules, claims[p[1]], claims[p[2]]) :
     p \in {q \in (DOMAIN claims) \X (DOMAIN claims) : q[1] < q[2]}}

ConflictCount(report) == Cardinality({d \in report : IsContradiction(d.relation)})

-----------------------------------------------------------------------------
(* Confidence.                                                             *)
ConfidenceDefaults ==
  [revision |-> 1,
   weights |-> [source_reliability |-> 3, information_credibility |-> 3,
                corroboration |-> 3, recency |-> 2, stance |-> 1],
   ladder |-> <<0, 25, 60, 80, 90, 100>>, decay |-> DecayDefaults,
   stances |-> [observed |-> 100, analyst |-> 90, reported |-> 70, inferred |-> 55],
   contradiction_penalty |-> 25, withdrawn_penalty |-> 40]

(* More parties than the ladder has rungs stand on its last.               *)
CorroborationScore(policy, parties) ==
  IF policy.ladder = <<>> THEN 0
  ELSE policy.ladder[AtMost(parties + 1, Len(policy.ladder))]

RecencyScore(policy, kind, age) == StandingAfter(ProfileFor(policy.decay, kind), age)

(* An override nobody signed, or under no stated policy, is refused.       *)
NewOverride(score, actor, context) ==
  IF "" \in {actor, context} THEN None
  ELSE [score |-> score, actor |-> actor, policy_context |-> context]

(* Components there is something to say about; the rest are absent.        *)
Components(policy, inputs) ==
  LET known == {c \in {"source_reliability", "information_credibility"} : inputs[c] # None}
               \union {c \in {"corroboration"} : inputs.corroboration # None}
               \union {c \in {"recency"} : inputs.observed_at # None}
               \union {c \in {"stance"} : inputs.stance \in DOMAIN policy.stances} IN
  [c \in known |->
     CASE c = "corroboration" -> CorroborationScore(policy, inputs.corroboration)
       [] c = "recency" -> RecencyScore(policy, inputs.kind,
                                        AgeInDays(inputs.observed_at, inputs.now))
       [] c = "stance" -> policy.stances[inputs.stance]
       [] OTHER -> inputs[c]]

TotalWeight(policy, components) ==
  MapThenSumSet(LAMBDA c : policy.weights[c], DOMAIN components)

WeightedMean(policy, components) ==
  LET total == TotalWeight(policy, components)
      weighted == MapThenSumSet(LAMBDA c : components[c] * policy.weights[c],
                                DOMAIN components) IN
  IF total = 0 THEN None ELSE AtMost(weighted \div total, 100)

Penalties(policy, inputs) ==
  LET contradicted == \E d \in inputs.contradictions : IsContradiction(d.relation) IN
  (IF contradicted THEN [contradicted |-> policy.contradiction_penalty] ELSE <<>>)
  @@ (IF inputs.status \in {"revoked", "superseded", "expired"}
      THEN [not_current |-> policy.withdrawn_penalty] ELSE <<>>)

Unexplained == [overall |-> 0, method |-> "unknown"]

Derived(policy, inputs) ==
  LET base == WeightedMean(policy, Components(policy, inputs))
      penalties == Penalties(policy, inputs)
      deduction == MapThenSumSet(LAMBDA p : penalties[p], DOMAIN penalties) IN
  IF base = None THEN Unexplained
  ELSE [overall |-> AtLeast(base - deduction, 0), method |-> "derived"]

(* An override replaces the figure, and what the sources support is kept.  *)
Assess(policy, inputs) ==
  LET derived == Derived(policy, inputs) IN
  [components |-> Components(policy, inputs), penalties |-> Penalties(policy, inputs),
   derived |-> derived, override |-> inputs.override,
   breakdown |-> IF inputs.override = None THEN derived
                 ELSE [overall |-> inputs.override.score, method |-> "operator_asserted"],
   contradictions |-> inputs.contradictions, policy |-> policy]

=============================================================================
