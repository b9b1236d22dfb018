------------------------------- MODULE Readings -------------------------------
(***************************************************************************)
(* The laws of what is read and of what is made of it: of two checkpoints  *)
(* compared, of what a parser or a mapping makes of a document, of the     *)
(* form a value is known by, of settings that are layered; of what age and *)
(* dispute do to a record's standing, and of what a pack keeps.            *)
(***************************************************************************)
EXTENDS Laws

CanonicalMark(kind, text) ==
  CASE text = <<"a">> /\ kind = "ip-address"              -> <<kind, text>>
    [] text = <<"c">> /\ kind \in {"ip-address", "url"}   -> <<kind, text>>
    [] OTHER                                              -> None

CP  == INSTANCE Checkpoints
FM  == INSTANCE Formats
DT  == INSTANCE Indicators
CA  == INSTANCE Canonical
MP  == INSTANCE Mapping WITH Canonical <- CanonicalMark
SE  == INSTANCE Settings
QL  == INSTANCE QueryLanguage
AS  == INSTANCE Assessments
RK  == INSTANCE Ranking

-----------------------------------------------------------------------------
(* Assessments: a record at two times, two claims, or a confidence.        *)
Believed(timeline, now) ==
  [a \in {b \in DOMAIN timeline : b = "valid_until" \/ timeline[b] <= now} |-> timeline[a]]

AgeOnlyLowers ==
  Sampled("age") =>
    LET policy == [AS!DecayDefaults EXCEPT !.future_dating = sample.future]
        At(now, timeline) == AS!Evaluate(policy, [sample.inputs EXCEPT !.now = now, !.timeline = timeline])
        timeline == sample.inputs.timeline
        soon == At(sample.soon, timeline)  late == At(sample.late, timeline) IN
    /\ ~soon.future_dated /\ None \notin {soon.standing, late.standing}
         => late.standing <= soon.standing
    /\ sample.future = "rejected" =>
         /\ soon.state = At(sample.soon, Believed(timeline, sample.soon)).state
         /\ soon.standing = At(sample.soon, Believed(timeline, sample.soon)).standing
    /\ soon.ranking_input # None /\ soon.asserted > 0 => soon.ranking_input \in 1 .. soon.asserted

ContradictionIsMutual ==
  Sampled("claims") =>
    LET rules == [single_valued |-> {"family"}, evidence_ceiling |-> "green"]
        said == AS!Relate(rules, sample[1], sample[2]) IN
    /\ said = AS!Relate(rules, sample[2], sample[1])
    /\ AS!IsContradiction(said.relation) =>
         /\ \A i \in 1 .. 2 : sample[i].status \notin {"revoked", "superseded"}
         /\ sample[1].assertion # sample[2].assertion
    /\ said.evidence # None => \A i \in 1 .. 2 : sample[i].tlp \in {None, "clear", "green"}
    /\ AS!Review(rules, sample) = {said} /\ AS!Review(rules, Reverse(sample)) = {said}
    /\ AS!ConflictCount(AS!Review(rules, sample)) = IF AS!IsContradiction(said.relation) THEN 1 ELSE 0

ConfidenceIsEarned ==
  Sampled("confidence") =>
    LET Overall(inputs) == AS!Assess(AS!ConfidenceDefaults, inputs).derived.overall
        disputed == [sample EXCEPT !.contradictions = {[relation |-> "conflicts"]}]
        whole == AS!Assess(AS!ConfidenceDefaults, sample) IN
    /\ Overall(sample) \in 0 .. 100
    /\ Overall(disputed) <= Overall(sample)
    /\ sample.corroboration # None =>
         Overall([sample EXCEPT !.corroboration = @ + 1]) >= Overall(sample)
    /\ whole.derived = AS!Assess(AS!ConfidenceDefaults, [sample EXCEPT !.override = None]).derived
    /\ (whole.derived.method = "unknown") <=> (DOMAIN whole.components = {})
    /\ whole.override # None => "" \notin {whole.override.actor, whole.override.policy_context}

(* Evaluations of some records, and a restart after any of them.           *)
LedgerSurvives ==
  Sampled("ledger") =>
    LET Ran(from, steps) ==
          FoldLeft(LAMBDA l, e : AS!LedgerEvaluate(l, AS!DecayDefaults, e.subject, e.inputs), from, steps)
        whole == Ran(AS!NoLedger, sample)
        Seeded(states) ==
          FoldSet(LAMBDA s, l : AS!SeedState(l, s, states[s]), AS!NoLedger, DOMAIN states)
        After(n) == Ran(AS!NoLedger, SubSeq(sample, 1, n))
        Restarted(n) == Ran(Seeded(After(n).states), SubSeq(sample, n + 1, Len(sample))) IN
    /\ \A n \in 0 .. Len(sample) :
         /\ After(n).transitions \o Restarted(n).transitions = whole.transitions
         /\ Restarted(n).states = whole.states
    /\ \A s \in DOMAIN whole.states :
         LET of == SelectSeq(whole.transitions, LAMBDA t : t.subject = s) IN
         /\ \A i \in DOMAIN of : of[i].from # of[i].to
         /\ \A i \in 1 .. Len(of) - 1 : of[i].to = of[i + 1].from
         /\ of # <<>> => Last(of).to = whole.states[s]

(* A record that says nothing new only loses standing, an instant yet to   *)
(* come lends it none, two claims contradict each other from either side   *)
(* and show only what both may show, and a confidence is never raised by a *)
(* dispute nor changed by an override (decay.rs:1005, confidence.rs:635).  *)
(* The changes of a record's state are told once each and the same whether *)
(* or not the process was restarted on its states (decay.rs:1210).         *)
AssessmentsHold == AgeOnlyLowers /\ ContradictionIsMutual /\ ConfidenceIsEarned /\ LedgerSurvives

-----------------------------------------------------------------------------
(* Ranking: candidates, weights and a bound; items, limits and a deadline. *)
PlanKeeps(all, plan) ==
  LET VerdictIn(id) == (CHOOSE r \in Range(plan.ranked) : r.id = id).verdict IN
  /\ {r.id : r \in Range(plan.ranked)} = {c.id : c \in all} /\ Len(plan.ranked) = Cardinality(all)
  /\ \A c \in all : c.protected <=> VerdictIn(c.id) = "protected"
  /\ {c.id : c \in {d \in all : d.protected}} \subseteq RK!KeptIds(plan)
  /\ Len(SelectSeq(plan.ranked, LAMBDA r : r.verdict = "included")) <= sample.keep
  /\ \A k \in DOMAIN plan.clusters :
       LET of == plan.clusters[k] IN
       /\ of.representative \in of.members
       /\ \A id \in of.members : (VerdictIn(id) = "clustered") <=> id # of.representative

RankingKeeps ==
  Sampled("rank") =>
    LET Plan(candidates) == RK!Rank(candidates, sample.weights, sample.keep) IN
    /\ PlanKeeps(Range(sample.candidates), Plan(sample.candidates))
    /\ Plan(sample.candidates) = Plan(Reverse(sample.candidates))

FitHolds(items, fit) ==
  LET required == {i \in DOMAIN items : items[i].required}
      CostOfAll(indices, d) == MapThenSumSet(LAMBDA i : RK!CostOf(items[i], d), indices)
      kept == {i \in DOMAIN items : Contains(fit.kept, items[i].id)}
      dropped == {i \in DOMAIN items : \E d \in Range(fit.dropped) : d[1] = items[i].id}
      bound == {d \in Range(RK!Spent) : sample.limits[d] # None} IN
  /\ \A d \in bound : CostOfAll(kept, d) <= sample.limits[d]
  /\ \A d \in Range(RK!Spent) : fit.used[d] = CostOfAll(kept, d)
  /\ fit.failure = None =>
       /\ required \subseteq kept
       /\ kept \union dropped = DOMAIN items /\ kept \cap dropped = {}
       /\ {d[2] : d \in Range(fit.dropped)} = fit.binding
       /\ RK!IsTruncated(fit) => \/ sample.limits.time_ms # None
                                 \/ \E d \in bound : CostOfAll(DOMAIN items, d) > sample.limits[d]
       /\ RK!Reconciles([included |-> Len(fit.kept), clustered |-> 0, dropped |-> Len(fit.dropped),
                         canonical_records |-> Len(items)])
  /\ fit.failure # None => \/ sample.limits.time_ms # None
                           \/ \E d \in bound : CostOfAll(required, d) > sample.limits[d]

FitKeeps ==
  Sampled("fit") => FitHolds(sample.items, RK!Fit(sample.items, sample.limits, sample.lateFrom))

QualityIsTold ==
  Sampled("quality") =>
    LET r == sample.report IN
    /\ RK!IsAcceptable(r, sample.floor) <=> RK!Shortfalls(r, sample.floor) = {}
    /\ r.contradictions_after <= r.contradictions_before =>
         (RK!ContradictionRetention(r) = 100 <=> r.contradictions_after = r.contradictions_before)
    /\ RK!IsAcceptable(r, 100) /\ r.evidence_after <= r.evidence_before => r.evidence_after = r.evidence_before
    /\ r.source_bytes > 0 => (RK!ReductionPercent(r) > 0 =>
                               r.output_bytes < r.source_bytes)

(* A claim, and the same claim when more is known of it.                   *)
KnowingMoreRanksHigher ==
  Sampled("candidate") =>
    LET claim == sample.claim
        Of(c) == RK!CandidateFromClaim(c, sample.now, 2, sample.exact)
        Score(c) == RK!ScoreOf(Of(c), RK!Balanced)
        known == Score(claim) IN
    /\ Score([claim EXCEPT !.sources = @ \union {"another"}]) >= known
    /\ claim.last_seen # None => Score([claim EXCEPT !.last_seen = @ + 1]) >= known
    /\ Score([claim EXCEPT !.status = "active"]) >= known
    /\ RK!KeptIds(RK!Rank(<<Of(claim)>>, RK!Balanced, 0)) # {} <=> claim.subject \in sample.exact

(* What a pack must keep it keeps: a protected record is never folded into *)
(* another's cluster nor cut by the bound (rank.rs:329), a required item is*)
(* dropped for nothing, only what is required may make a budget fail, and  *)
(* every item is accounted for (budget.rs:378).  A pack that is acceptable *)
(* has no shortfall to tell and lost no contradiction (quality.rs:124); a  *)
(* claim more is known of is ranked no lower for it (rank.rs:516).         *)
PackKeepsWhatItMust == RankingKeeps /\ FitKeeps /\ QualityIsTold /\ KnowingMoreRanksHigher

-----------------------------------------------------------------------------
(* Checkpoints: a sample is two checkpoints, limits and a cancellation.    *)
ChangeIsMaterial(before, after, delta) ==
  LET material == {k \in DOMAIN before.records \union DOMAIN after.records :
                     CP!Lookup(before.records, k) # CP!Lookup(after.records, k)} IN
  /\ {c.key : c \in Range(delta.changes)} = material
  /\ Len(delta.changes) = Cardinality(material)
  /\ delta.compared = delta.unchanged + Len(delta.changes)

DepartureIsTraced(after, change) ==
  CP!IsDeparture(change.category) =>
    LET to == CP!Lookup(after.successions, change.key) IN
    change.successors = IF to = None THEN {} ELSE to.successors

MirrorOf(changes) ==
  {<<c.key, IF CP!IsDeparture(c.category) THEN "added"
            ELSE IF c.category = "added" THEN "departed" ELSE "stays">> : c \in Range(changes)}
AsMirrored(changes) ==
  {<<c.key, IF CP!IsDeparture(c.category) THEN "departed"
            ELSE IF c.category = "added" THEN "added" ELSE "stays">> : c \in Range(changes)}

OneIsExact ==
  Sampled("compare") =>
    LET before == sample.before  after == sample.after
        whole == CP!Compare(before, after, [max_records |-> 9, max_changes |-> 9], 99).delta
        cut == CP!Compare(before, after, sample.limits, sample.cancelledAt).delta
        back == CP!Compare(after, before, [max_records |-> 9, max_changes |-> 9], 99).delta IN
    CP!CompareRefused(before, after, sample.limits) = None =>
      /\ whole.truncated = {} /\ ChangeIsMaterial(before, after, whole)
      /\ Every(LAMBDA c : DepartureIsTraced(after, c), whole.changes)
      /\ AsMirrored(back.changes) = MirrorOf(whole.changes)
      /\ IsPrefix(cut.changes, whole.changes)
      /\ cut.truncated = {} => cut = whole

Printed(class, record) ==
  CASE class = "entity"       -> CP!FingerprintEntity(record)
    [] class = "relationship" -> CP!FingerprintRelationship(record)
    [] class = "observable"   -> CP!FingerprintObservable

CaptureOf(class, record, made) ==
  [records |-> [k \in {1} |-> Printed(class, record)], successions |-> <<>>, shape |-> 1,
   algorithm_version |-> 1, versions |-> made.versions, configuration |-> made.configuration,
   sources |-> {}, truncated |-> {}, withheld |-> 0, unrecognised |-> {}]

(* What a record says that anybody acts on: a confidence to its fifth.     *)
Says(record) ==
  [a \in DOMAIN record \ CP!Excluded |->
     IF a = "confidence" /\ record[a] # None THEN record[a] \div 20 ELSE record[a]]

(* Two captures of one record differ where it says something else; that it *)
(* was seen or described otherwise is no change.                           *)
RecaptureIsExact ==
  Sampled("recaptured") =>
    LET was == CaptureOf(sample.class, sample.was, sample.made[1])
        is == CaptureOf(sample.class, sample.is, sample.made[2])
        limits == [max_records |-> 9, max_changes |-> 9]
        there == CP!Compare(was, is, limits, 99)  back == CP!Compare(is, was, limits, 99)
        counts == CP!Counts(there) IN
    /\ CP!IsMaterial(there) <=> Says(sample.was) # Says(sample.is)
    /\ MapThenSumSet(LAMBDA c : counts[c], DOMAIN counts) = Len(there.delta.changes)
    /\ CP!AttributableToVersionChange(there) <=> CP!AttributableToVersionChange(back)
    /\ there.before = there.after
         <=> ~CP!IsMaterial(there) /\ ~CP!AttributableToVersionChange(there)

(* What a comparison that ran to its end reports is what differs, each     *)
(* record once, a departure with where it went, and the comparison the     *)
(* other way round is its mirror; one that was cut short reports the       *)
(* beginning of that and says so (checkpoint.rs:1490).  Two captures of a  *)
(* record differ where, and only where, it says something else             *)
(* (checkpoint.rs:535).                                                    *)
ComparisonIsExact == OneIsExact /\ RecaptureIsExact

-----------------------------------------------------------------------------
(* What is read out of a document: a pattern, a flat file, a choice of     *)
(* parser, rules, the events of an XML reader.                             *)
PatternIsWhole ==
  Sampled("pattern") =>
    LET pattern == sample.tokens
        answer == DT!ObservablesOf(pattern)
        At(mark) == {i \in DOMAIN pattern : DT!IsMark(pattern[i], mark)}
        Path(i) == SubSeq(pattern, Max({j \in At("[") \union At("OR") : j < i}) + 1, i - 1)
        Alternative(i) == DT!Read(pattern[i + 1].quoted, DT!PathKind(Path(i))) IN
    ~DT!IsRefused(answer) =>
      /\ At("[") = {1} /\ At("]") = {Len(pattern)}
      /\ {i \in DOMAIN pattern : "mark" \in DOMAIN pattern[i]} = UNION {At(m) : m \in {"[", "]", "=", "OR"}}
      /\ Cardinality(At("=")) = Cardinality(At("OR")) + 1
      /\ answer.observables = {Alternative(i) : i \in At("=")} /\ None \notin answer.observables

AmbiguousIn(fields) == {i \in DOMAIN fields : FM!Inferred(fields[i]) = "ambiguous"}
Refusals(out, why) == Len(SelectSeq(out.rejected, LAMBDA r : r.why = why))
OnlyReadings(out, fields) ==
  \A r \in Range(out.records) : \E f \in fields : FM!IsUsable(f) /\ r.about = f.reads[FM!TheKind(f)]

(* A column that says what it holds is believed, and no other may guess.   *)
FlatIsRead ==
  Sampled("flat") =>
    LET lines == sample.lines  delimiter == FM!SniffDelimiter(lines)
        out == FM!ParseDelimited(lines, sample.given, sample.cancelAt, sample.max_records)
        data == SelectSeq(lines, LAMBDA l : ~FM!IsSkipped(l))
        Fields(l) == l.split[delimiter]
        typed == sample.given # None \/ \E f \in Range(Fields(data[1])) : f.names # None IN
    data # <<>> /\ ~typed /\ "why" \notin DOMAIN out =>
      /\ OnlyReadings(out, UNION {Range(Fields(l)) : l \in Range(data)})
      /\ \A l \in Range(Tail(data)) : \A i \in AmbiguousIn(Fields(l)) :
           Fields(l)[i].size <= FM!MaxFieldBytes =>
             \E r \in Range(out.rejected) : r.why = "ambiguous_inference"

JsonIsRead ==
  Sampled("json") =>
    LET out == FM!ParseJsonLines(sample.lines, sample.cancelAt, sample.max_records)
        read == SelectSeq(sample.lines, LAMBDA l : ~l.blank /\ ~l.malformed /\ l.record # None) IN
    "why" \notin DOMAIN out =>
      /\ OnlyReadings(out, UNION {Range(l.record) : l \in Range(read)})
      /\ Refusals(out, "ambiguous_inference")
           = FoldLeft(LAMBDA n, l : n + Cardinality(AmbiguousIn(l.record)), 0, read)
      /\ Refusals(out, "malformed_json_line")
           = Len(SelectSeq(sample.lines, LAMBDA l : ~l.blank /\ l.malformed))
      /\ (\A l \in Range(sample.lines) : l \in Range(read)) =>
           out.records = FM!ParseJsonArray([i \in DOMAIN read |-> read[i].record], 9).records

(* A parser that is told a document is its own is the one that reads it.   *)
ChoiceIsTold ==
  Sampled("choice") =>
    LET claims == FM!Detect(sample)  chosen == FM!Select(claims)
        named == {i \in DOMAIN FM!ParserIds : FM!ParserIds[i] = chosen}
        owner == [stix |-> "brolga.stix.bundle", openioc |-> "brolga.xml.openioc",
                  iodef |-> "brolga.xml.iodef", sigma |-> "brolga.detection.sigma"] IN
    /\ \A i \in named : FM!IsClaim(claims[i])
    /\ \A i, j \in DOMAIN claims : i # j /\ claims[i] = "certain" /\ claims[j] = "certain"
                                     => chosen = "ambiguous_format"
    /\ sample.media \in DOMAIN owner => chosen \in {owner[sample.media], "ambiguous_format"}

UnreadOf(records) == UNION {r[4] : r \in {q \in Range(records) : Len(q) = 4 /\ q[2] = "unread"}}
AboutOf(records) == {r[3] : r \in {q \in Range(records) : Len(q) = 3 /\ q[1] = "claim"}}
ItemsTold(items, records) ==
  \A item \in Range(items) : \/ item.name \in UnreadOf(records)
                             \/ \E k \in DOMAIN item.value.kinds : item.value.kinds[k] \in AboutOf(records)

RulesAreTold ==
  Sampled("rules") =>
    LET out == DT!ParseSigma(sample, 0, 99)
        good == SelectSeq(sample, LAMBDA d : d.readable /\ ~DT!IsRefused(DT!MapRule(d))) IN
    ~DT!IsRefused(out) =>
      /\ Len(good) + Len(out.rejected) = Len(sample)
      /\ \A d \in Range(good) : ItemsTold(FlattenSeq(d.selections), DT!MapRule(d).records)
      /\ out.records = FlattenSeq([i \in DOMAIN good |-> DT!ParseSigma(<<good[i]>>, 0, 99).records])

IncidentsAreTold ==
  Sampled("incidents") =>
    LET out == DT!ParseIodef(sample, 0, 9)
        numbered == SelectSeq(sample, LAMBDA i : i.number # None)
        ioc == DT!ParseOpenIoc([id |-> sample[1].number, fields |-> {}, items |-> sample[1].items], FALSE, 99) IN
    ~DT!IsRefused(out) =>
      /\ Len(out.rejected) = Len(sample) - Len(numbered)
      /\ \A i \in Range(numbered) :
           ItemsTold(SelectSeq(i.items, LAMBDA t : t.complete), DT!MapIncident(i).records)
      /\ ~DT!IsRefused(ioc) =>
           /\ ItemsTold(SelectSeq(sample[1].items, LAMBDA t : t.complete), ioc.records)
           /\ (ioc.rejected # <<>>) <=> ~\E t \in Range(sample[1].items) : t.complete

XmlIsWhole ==
  Sampled("xml") =>
    LET Count(e) == Len(SelectSeq(sample, LAMBDA x : x = e))
        answer == DT!ReadXml(sample) IN
    ~DT!IsRefused(answer) =>
      /\ Count("doctype") = 0 /\ Count("start") = Count("end")
      /\ Count("start") + Count("empty") \in 1 .. DT!MaxXmlElements
      /\ answer.depth <= DT!MaxXmlDepth + (IF Count("empty") = 0 THEN 0 ELSE 1)

(* Mappings of the three shapes, and a document none of them is named for. *)
OneShapeClaims ==
  Sampled("claimed") =>
    LET claims == [s \in {"json", "xml", "csv"} |-> MP!DetectMapped([source |-> s], sample.media, sample.marks)] IN
    Cardinality({s \in DOMAIN claims : claims[s] # "declined"})
      = CASE sample.media = "mapping" -> 3
          [] sample.media # "mapping" /\ sample.marks = None -> 0
          [] OTHER -> 1

(* The expression of a search: what may stand next to what in it, which is *)
(* all its grammar but for the brackets.                                   *)
IsPiece(pieces, i, marks) == i \in DOMAIN pieces /\ pieces[i].is \in marks
RoleOf(pieces, i) ==
  CASE i = 0                                        -> "start"
    [] i = Len(pieces) + 1                          -> "end"
    [] IsPiece(pieces, i, QL!Operators)             -> "operator"
    [] IsPiece(pieces, i, {"and", "or"})            -> "joiner"
    [] IsPiece(pieces, i, {"("})                    -> "open"
    [] IsPiece(pieces, i, {")"})                    -> "close"
    [] IsPiece(pieces, i, {"word", "quoted"})       ->
         IF IsPiece(pieces, i - 1, QL!Operators) THEN "value"
         ELSE IF pieces[i].is = "word" /\ pieces[i].text \in QL!Fields THEN "field" ELSE "stray"
    [] OTHER                                        -> "stray"
Follows(role) ==
  CASE role \in {"start", "joiner", "open"} -> {"field", "open"}
    [] role \in {"value", "close"}          -> {"joiner", "close", "end"}
    [] role = "field"                       -> {"operator"}
    [] role = "operator"                    -> {"value"}
    [] role = "stray"                       -> {}

Brackets(pieces, upto) ==
  Cardinality({j \in 1 .. upto : pieces[j].is = "("}) - Cardinality({j \in 1 .. upto : pieces[j].is = ")"})
ReadsWell(pieces) ==
  /\ \A i \in 0 .. Len(pieces) : RoleOf(pieces, i + 1) \in Follows(RoleOf(pieces, i))
  /\ \A i \in DOMAIN pieces : Brackets(pieces, i) >= 0
  /\ Brackets(pieces, Len(pieces)) = 0

(* What can be searched for: only comparisons for known values, joined by  *)
(* "and"; the values each field is compared with.                          *)
Searchable(pieces, compared) ==
  /\ \A i \in DOMAIN pieces : pieces[i].is \notin {"or", "!="}
  /\ \A i \in compared : pieces[i + 1].text \in QL!Named[pieces[i - 1].text]
ComparedWith(pieces, compared, field) == {pieces[i + 1].text : i \in {c \in compared : pieces[c - 1].text = field}}

Found(table, query) == Range(SearchEntities(table, query, First(9)))

ExpressionSays(pieces, compared, query, table) ==
  /\ Found(table, query) =
       {e \in DOMAIN table : \A f \in QL!Fields : Selects(ComparedWith(pieces, compared, f), table[e][f])}
  /\ {e \in DOMAIN table : \A i \in compared : table[e][pieces[i - 1].text] = pieces[i + 1].text}
       \subseteq Found(table, query)

(* An expression and limits: refused for what is wrong with it, and for no *)
(* other thing, or it finds the entities each of its comparisons is true   *)
(* of, and with them only those that differ in what a field is compared    *)
(* with twice.  The flags that name the same values search for the same.   *)
SearchIsWhatItSays ==
  Sampled("search") =>
    LET pieces == SelectSeq(sample.input, LAMBDA p : p.is # "space")
        query == QL!CompileEntityQuery(sample.input, sample.limits)
        compared == {i \in DOMAIN pieces : pieces[i].is \in QL!Operators}
        opened == Cardinality({i \in DOMAIN pieces : pieces[i].is = "("}) IN
    IF QL!IsRefused(query)
    THEN \/ ~ReadsWell(pieces) \/ ~Searchable(pieces, compared)
         \/ Len(sample.input) > sample.limits.max_input_bytes
         \/ Len(pieces) >= sample.limits.max_tokens
         \/ Cardinality(compared) + opened > sample.limits.max_depth
    ELSE /\ ReadsWell(pieces) /\ Searchable(pieces, compared)
         /\ Len(sample.input) <= sample.limits.max_input_bytes
         /\ Len(pieces) < sample.limits.max_tokens
         /\ \A i \in DOMAIN pieces : Brackets(pieces, i) < sample.limits.max_depth
         /\ opened = 0 => Cardinality(compared) <= sample.limits.max_depth
         /\ ExpressionSays(pieces, compared, query, sample.table)
         /\ LET flags == {f \in DOMAIN QL!Wanted : QL!Wanted[f] \in query.kinds \union query.statuses}
                Naming(names) == {f \in flags : QL!Wanted[f] \in names} IN
            QL!SearchFilter(None, sample.limits, Naming(query.kinds), Naming(query.statuses)) = query

(* What has more than one reading is refused or passed over by name, never *)
(* decided: a pattern is read whole or not at all (stix_pattern.rs:104), a *)
(* value in a flat file by its column or its one reading                   *)
(* (delimited.rs:462), a document by the one parser sure of it             *)
(* (registry.rs:150), an item of a rule that is no observable is named     *)
(* (sigma.rs:554) and a bad rule costs the file nothing else.  A search is *)
(* what its expression says in one reading, or none (parse.rs:256).        *)
NothingIsGuessed ==
  /\ PatternIsWhole /\ FlatIsRead /\ JsonIsRead /\ ChoiceIsTold
  /\ RulesAreTold /\ IncidentsAreTold /\ XmlIsWhole /\ OneShapeClaims /\ SearchIsWhatItSays

-----------------------------------------------------------------------------
(* Canonical forms, by the kind of text.                                   *)
CanonicalOf(kind, text) ==
  CASE kind = "ip"    -> CA!IpAddress(text)    [] kind = "range"   -> CA!IpRange(text)
    [] kind = "domain" -> CA!DomainName(text)  [] kind = "email"   -> CA!EmailAddress(text)
    [] kind = "url"   -> CA!Url(text)          [] kind = "network" -> CA!AnyNetwork(text)
    [] kind = "hash"  -> CA!FileHash(text)     [] kind = "file"    -> CA!FileName(text)
    [] kind = "cve"   -> CA!Cve(text)          [] kind = "cwe"     -> CA!Cwe(text)
    [] kind = "attack" -> CA!AttackId(text)    [] kind = "time"    -> CA!Timestamp(text)
    [] kind = "mac"   -> CA!MacAddress(text)   [] kind = "path"    -> CA!FilePath(text)
    [] OTHER -> CA!Parted(kind, text)

(* A path's form as a text: the family comes first, so that it has neither *)
(* a drive nor a share.                                                    *)
AsPath(form) ==
  [form.body EXCEPT !.drive = None, !.unc = FALSE, !.of = <<form.flavour>> \o @, !.size = @ + 1]

(* The form a value is known by is a form of that value: read again it is  *)
(* the same, and the text is kept where, and only where, it was spelled    *)
(* otherwise (canon/mod.rs:41).  The paths alone do not keep what mod.rs:14*)
(* says of every canonicaliser: the form names the family, which no source *)
(* writes (file.rs:194), and is read again as a POSIX path of another      *)
(* identity, or refused for its length.  What follows the family is stable.*)
CanonicalFormIsStable ==
  Sampled("canon") =>
    LET once == CanonicalOf(sample.kind, sample.text)
        again == CanonicalOf(sample.kind, once.form) IN
    ~CA!IsBad(once) =>
      /\ once.original = IF once.form = sample.text THEN None ELSE sample.text
      /\ sample.kind # "path" =>
           /\ ~CA!IsBad(again) /\ CA!ObservableId(again) = CA!ObservableId(once)
           /\ again.form = once.form /\ again.original = None
      /\ sample.kind = "path" =>
           LET body == CA!FilePath(once.form.body)
               whole == CA!FilePath(AsPath(once.form)) IN
           /\ ~CA!IsBad(body) /\ CA!ObservableId(body) = CA!ObservableId(once) /\ body.form = once.form
           /\ CA!IsBad(whole) \/ CA!ObservableId(whole) # CA!ObservableId(once)
      /\ sample.kind = "hash" =>
           \A algorithm \in CA!Algorithms :
             LET told == CA!FileHashWithAlgorithm(algorithm, sample.text) IN
             ~CA!IsBad(told) => CA!ObservableId(told) = CA!ObservableId(once)

-----------------------------------------------------------------------------
(* A mapping: what became of each record it selected.                      *)
LeftOut(mapping, reader) ==
  \E i \in DOMAIN mapping.filters :
    /\ MP!Passes(mapping, mapping.filters[i], reader) = "filtered"
    /\ \A j \in 1 .. i - 1 : MP!Passes(mapping, mapping.filters[j], reader) = "passes"

(* The records a mapping selects in a document.                            *)
ReadersOf(mapping, document) ==
  IF mapping.source = "csv" THEN MP!RowReaders(mapping, document)
  ELSE MP!TreeReaders(mapping, MP!RecordsIn(mapping, document).nodes)

SubjectClaims(out) == SelectSeq(out.claims, LAMBDA c : c.name = "mapping.subject")

(* Each record filtered, rejected once or told whole.                      *)
AccountsFor(readers, filtered, out) ==
  /\ Len(SubjectClaims(out)) + Len(out.rejected) + Cardinality(filtered) = Len(readers)
  /\ \A r \in Range(out.rejected) : r.at + 1 \in DOMAIN readers \ filtered
  /\ IsInjective([i \in DOMAIN out.rejected |-> out.rejected[i].at])
  /\ \A c \in Range(out.claims) : \E s \in Range(SubjectClaims(out)) : s.subject = c.subject
  /\ Len(out.claims) <= sample.limits.max_records

MapsWhole(mapping, readers, out) ==
  ~MP!IsRefused(out) =>
    AccountsFor(readers, {i \in DOMAIN readers : LeftOut(mapping, readers[i])}, out)

(* A record a mapping selects is left out by a filter, refused once, or    *)
(* has all its claims and the one that says what they are about; nothing   *)
(* is said of a record that was refused (mapping/engine.rs:394).           *)
MappingAccounts ==
  Sampled("mapping") =>
    LET mapping == MP!Validate(sample.mapping) IN
    ~MP!IsRefused(mapping) =>
      MapsWhole(mapping, ReadersOf(mapping, sample.document),
                MP!ParseMapped(mapping, sample.document, 1, FALSE, sample.limits, <<>>))

-----------------------------------------------------------------------------
(* Settings: a later layer that says something else of a leaf.             *)
Unsays(layer, p) ==
  \E q \in DOMAIN layer : IF SE!IsScalar(layer[q]) THEN SE!Comparable(p, q) ELSE IsPrefix(p, q)

SaidLast(layers) ==
  UNION {{<<p, layers[i][p], i>> : p \in {q \in DOMAIN layers[i] :
            /\ SE!IsScalar(layers[i][q])
            /\ \A j \in i + 1 .. Len(layers) : ~Unsays(layers[j], q)}} : i \in DOMAIN layers}

LayersHold ==
  Sampled("layers") =>
    LET layers == <<SE!DefaultsValue>> \o sample
        merged == SE!MergeLayers(layers)
        resolved == SE!ResolveSettings(sample)
        said == SE!Explain(resolved) IN
    /\ SaidLast(layers) = {<<p, merged.values[p], merged.from[p]>> :
                             p \in {q \in DOMAIN merged.values : SE!IsScalar(merged.values[q])}}
    /\ "config" \in DOMAIN resolved => ValidatedLimits(InputBounds, SE!ToInputLimits(resolved.config))
    /\ "config" \in DOMAIN resolved =>
         \A p \in DOMAIN said : SE!IsScalar(said[p].value) =>
           /\ p \in DOMAIN layers[said[p].source] /\ layers[said[p].source][p] = said[p].value
           /\ SE!FieldReads(p, said[p].value)

(* The nearest of a profile's line that says anything of a section.        *)
NearestSays(set, names, s) ==
  LET saying == {i \in DOMAIN names : s \in DOMAIN set[names[i]].sections} IN
  IF saying = {} THEN "preferred" ELSE set[names[Min(saying)]].sections[s]

ProfilesHold ==
  Sampled("profile") =>
    LET set == sample.set  names == SE!ChainOf(set, sample.name).names
        resolved == SE!ResolveProfile(set, sample.name)
        alone == [name |-> "z", inherits |-> None, sections |-> resolved.sections, weights |-> resolved.weights,
                  allocation |-> resolved.allocation, environments |-> resolved.environments]
        told == SE!ExplainProfile(resolved) IN
    ~SE!IsInvalid(resolved) =>
      /\ \A s \in SE!Sections :
           /\ told[s].action = IF s \in SE!AlwaysPreserved THEN "required" ELSE NearestSays(set, names, s)
           /\ s \in SE!AlwaysPreserved => ~SE!MayDrop(resolved, s)
           /\ told[s].reason = "default" <=>
                s \notin SE!AlwaysPreserved /\ \A n \in Range(names) : s \notin DOMAIN set[n].sections
      /\ SE!Fingerprint(SE!ResolveProfile([z |-> alone], "z")) = SE!Fingerprint(resolved)

(* An anchor that stands where a value does: in no quotes and no comment.  *)
Anchored(line, quote) ==
  LET Quoted(i) == Cardinality({j \in 1 .. i - 1 : line[j] = quote}) % 2 = 1
      comments == {i \in DOMAIN line : line[i] = "#" /\ ~Quoted(i)} IN
  \E i \in DOMAIN line :
    /\ line[i] = "&" /\ ~Quoted(i) /\ (i = 1 \/ line[i - 1] = " ")
    /\ i < Len(line) /\ line[i + 1] = "x" /\ \A c \in comments : i < c

(* A document of one line, in one kind of quotes or the other.             *)
DocumentsHold ==
  Sampled("document") =>
    LET ReadAs(quote) ==
          [size |-> sample.size, values |-> sample.values,
           lines |-> << [i \in DOMAIN sample.line |->
                           IF sample.line[i] = "'" THEN quote ELSE sample.line[i]] >>]
        read == SE!ParseDocument(ReadAs("'"), sample.format) IN
    /\ SE!FindAnchorOrAlias(sample.line) <=> Anchored(sample.line, "'")
    /\ read = SE!ParseDocument(ReadAs("double"), sample.format)
    /\ ~SE!IsInvalid(read) =>
         /\ sample.format = "yaml" => ~Anchored(sample.line, "'")
         /\ \A p \in DOMAIN read.values : Len(p) <= SE!MaxConfigDepth

(* A setting is what the last layer to speak of it says, and is said to be *)
(* of that layer (layer.rs:142); a section of a pack is kept as the        *)
(* nearest profile that speaks of it has it, but for those that are always *)
(* kept, and is said to be so on whose word it is (profile.rs:541); a      *)
(* document that names a part of itself is refused and one that quotes the *)
(* mark is not (load.rs:360).                                              *)
WhatIsSaidLastHolds == LayersHold /\ ProfilesHold /\ DocumentsHold
=============================================================================
