--------------------------------- MODULE Laws ---------------------------------
(***************************************************************************)
(* The laws of the small machines and of guards, markings and listings.  A *)
(* behaviour is about one topic: either one of the machines (identity      *)
(* decisions, tables, tokens, a provenance, a walk) runs, or one sample of *)
(* the topic is taken and the algorithm's law is stated of it.  Readings   *)
(* has the laws of the samples of the other topics.                        *)
(***************************************************************************)
EXTENDS Identity, StoreTables, Guards, Records, Walk

CONSTANTS
  Samples,    \* topic -> what may be sampled of it
  Resolvable  \* the records whose identity is decided, by id

PO == INSTANCE Policy

(* The samples about guards: what a fetch may be sent to has an answer,    *)
(* and an address is of one kind.                                          *)
Fetchable(f) ==
  /\ f.policy \in [allow_plaintext_http : BOOLEAN, allow_private_addresses : BOOLEAN,
                   allow_cloud_metadata : BOOLEAN, max_redirects : Nat,
                   allow_redirect_downgrade : BOOLEAN]
  /\ f.start \in DOMAIN f.replies
  /\ \A u \in DOMAIN f.replies :
       LET reply == f.replies[u] IN
       /\ reply.status \in Nat \union {None} /\ reply.size \in Nat
       /\ None \notin [status : {reply.status}, size : {0, reply.size}]
       /\ Leads(u, reply) # None /\ SplitUrl(Leads(u, reply)) => Leads(u, reply) \in DOMAIN f.replies
       /\ \A i \in 1 .. f.policy.max_redirects + 1 : \A a \in f.lookups[i][u.host].checked :
            DOMAIN a \in {{"category"}, {"mapped"}}

(* The samples about tables: a blob, and a table of rows that were seen at *)
(* some instant or never.                                                  *)
Filed(blob) == blob # None /\ blob.length \in Nat /\ blob.deflated \in Nat

Listable(listing) ==
  /\ DOMAIN listing.rows \subseteq Nat /\ IsFiniteSet(DOMAIN listing.rows)
  /\ \A i \in DOMAIN listing.rows : listing.rows[i].last_seen \in Nat \union {None}
  /\ listing.limit \in Nat /\ listing.day \in Nat \ {None}

(* The samples about records: texts of whatever characters; two records    *)
(* of a class whose instants, ends and counts are numbers, an observer     *)
(* that is named by its id and an assertion that is what its kind says.    *)
Spellable(s) ==
  LET characters == UNION {Range(text) : text \in Range(s[1]) \union Range(s[2])} IN
  {s[1], s[2]} \subseteq Seq(Seq(characters))

Asserted(assertion) ==
  assertion = IF assertion.kind = "attribute"
              THEN [kind |-> "attribute", name |-> assertion.name, value |-> assertion.value]
              ELSE [kind |-> assertion.kind, value |-> assertion.value]

Recordable(s) ==
  /\ s.class \in {"relationship", "claim", "entity", "sighting", "source"} /\ s.now \in Int
  /\ \A r \in {s.a, s.b} :
       /\ s.class # "source" =>
            {r.temporal.valid_from, r.temporal.valid_until} \subseteq Int \union {None}
       /\ s.class = "relationship" => r.source \in Nat /\ r.target \in Nat
       /\ s.class = "claim" => Asserted(r.assertion)
       /\ s.class = "sighting" => r.observer # "-" /\ r.count \in Nat

(* The samples about markings: an identity as some build may state it.     *)
Stateable(identity) ==
  DOMAIN identity = DOMAIN PO!Anonymous /\ identity.max_tlp \in Range(PO!TlpLevel)

ASSUME SamplesAssumption ==
  /\ None \notin {"denied", "transport", "too_large", "tlp_above_ceiling", "pap_above_ceiling",
                  "handling_not_cleared", "attribution_required"}
  /\ \A i \in DOMAIN Resolvable : Resolvable[i].id \in Ids
  /\ "lineage" \in DOMAIN Samples => \A l \in Samples["lineage"] : l \in Seq(Range(l))
  /\ "blob" \in DOMAIN Samples => \A b \in Samples["blob"] : Filed(b.blob)
  /\ "listing" \in DOMAIN Samples => \A l \in Samples["listing"] : Listable(l)
  /\ "identities" \in DOMAIN Samples => \A s \in Samples["identities"] : Spellable(s)
  /\ "records" \in DOMAIN Samples => \A s \in Samples["records"] : Recordable(s)
  /\ "marked" \in DOMAIN Samples => \A m \in Samples["marked"] : Stateable(m.identity)
  /\ "fetch" \in DOMAIN Samples => \A f \in Samples["fetch"] : Fetchable(f)
  /\ "trust" \in DOMAIN Samples => Samples["trust"] \subseteq Seq(Range(TrustLevels))
  /\ "limits" \in DOMAIN Samples =>
       \A l \in Samples["limits"] :
         /\ l.part \in DOMAIN ResourceBounds /\ l.name \in DOMAIN ResourceBounds[l.part]
         /\ l.value \in Int
  /\ "ratio" \in DOMAIN Samples => Samples["ratio"] \subseteq [ratio : Nat, input : Nat, output : Nat]

VARIABLES topic, sample


Machines == {"identity", "tables", "tokens", "provenance", "walk"}

lawVars == <<topic, sample, idVars, tablesVars, guardVars, provenance, walkVars>>

(* Where nobody walks there is one graph and one request.                  *)
NoWalk ==
  CHOOSE w \in Graphs \X [start : Nodes, query : Queries, limits : Limits, permitted : PermittedLevels] : TRUE

LawsInit ==
  /\ topic \in Machines \union DOMAIN Samples
  /\ sample = None
  /\ IdInit /\ TablesInit /\ GuardsInit /\ RecordsInit /\ WalkInit
  /\ topic # "tables" => backend = "sqlite"
  /\ topic # "walk" => <<links, sought>> = NoWalk

TakeSample ==
  /\ topic \in DOMAIN Samples
  /\ sample = None
  /\ sample' \in Samples[topic]
  /\ UNCHANGED <<topic, idVars, tablesVars, guardVars, provenance, walkVars>>

Identifies ==
  /\ topic = "identity" /\ IdNext
  /\ UNCHANGED <<topic, sample, tablesVars, guardVars, provenance, walkVars>>
Tabulates ==
  /\ topic = "tables" /\ TablesNext
  /\ UNCHANGED <<topic, sample, idVars, guardVars, provenance, walkVars>>
Guarding ==
  /\ topic = "tokens" /\ GuardsNext
  /\ UNCHANGED <<topic, sample, idVars, tablesVars, provenance, walkVars>>
Builds ==
  /\ topic = "provenance" /\ RecordsNext
  /\ UNCHANGED <<topic, sample, idVars, tablesVars, guardVars, walkVars>>
Walks ==
  /\ topic = "walk" /\ WalkNext
  /\ UNCHANGED <<topic, sample, idVars, tablesVars, guardVars, provenance>>

LawsNext == TakeSample \/ Identifies \/ Tabulates \/ Guarding \/ Builds \/ Walks

LawsSpec == LawsInit /\ [][LawsNext]_lawVars

Sampled(t) == topic = t /\ sample # None
Every(Of(_), seq) == \A i \in DOMAIN seq : Of(seq[i])

-----------------------------------------------------------------------------
(* Identity: what was decided last, of the operations picked out.          *)
Latest(S, i) == i \in S /\ \A j \in S : j <= i

Stands(S) == \E i \in S : Latest(S, i) /\ ~history[i].withdraws

PinsOf(p) == {i \in DOMAIN history : history[i].kind = "pin" /\ history[i].left = p}
RejectionsOf(pair) ==
  {i \in DOMAIN history : history[i].kind = "reject" /\ Ordered(history[i].left, history[i].right) = pair}
AbsorptionsOf(id) ==
  {i \in DOMAIN history : history[i].kind \in {"merge", "split"}
                          /\ Higher(history[i].left, history[i].right) = id}

UnifiedByReview ==
  /\ \A p \in Ids : p \in pins <=> Stands(PinsOf(p))
  /\ \A id \in Ids :
       /\ id \in DOMAIN merges <=>
            \E i \in AbsorptionsOf(id) : Latest(AbsorptionsOf(id), i) /\ history[i].kind = "merge"
       /\ \A i \in AbsorptionsOf(id) :
            Latest(AbsorptionsOf(id), i) /\ history[i].kind = "merge" =>
              merges[id] = Lower(history[i].left, history[i].right)
  /\ \A id \in Ids : CanonicalIdentity(CanonicalIdentity(id)) = CanonicalIdentity(id)
  /\ \A c \in ResolveAll(Resolvable) :
       LET a == c.pair[1]  b == c.pair[2] IN
       /\ c.outcome = "rejected" <=> Stands(RejectionsOf(Ordered(a, b)))
       /\ c.outcome = "merged" => {a, b} \cap pins = {}
       /\ c.outcome = "candidate" => c.signals # {} /\ ~\E s \in c.signals : CanMergeAlone(s)

ObserveEach(lineage, observations) ==
  LET after[n \in 0 .. Len(observations)] ==
        IF n = 0 THEN lineage ELSE Observe(after[n - 1], observations[n]) IN
  after[Len(observations)]

CorroborationIsIndependent ==
  Sampled("lineage") =>
    LET once == ObserveEach(NoLineage, sample)
        again == ObserveEach(once, sample) IN
    /\ Corroboration(once) <= Cardinality({sample[i].content : i \in DOMAIN sample})
    /\ Corroboration(once) <= Cardinality({sample[i].publisher : i \in DOMAIN sample})
    /\ again.publishers = once.publishers /\ again.versions = once.versions

(* Two records, marked each its way, before and after they are merged, and *)
(* an identity before and after it is given more.                          *)
MergedIsBothTheirs ==
  Sampled("marked") =>
    LET identity == sample.identity
        merged == MergedMarkings([marked |-> sample.a], [marked |-> sample.b])
        May(who, marks) == PO!Allowed(who, marks, sample.capability)
        Plainly(kind) == \A m \in merged : m[1] = kind IN
    /\ May(identity, merged) <=> May(identity, sample.a) /\ May(identity, sample.b)
    /\ ~MergeLosesAMarking([marked |-> sample.a], [marked |-> sample.b], merged)
    /\ May(identity, merged) => PO!Can(identity, sample.capability)
    /\ merged # {} /\ Plainly("tlp") =>
         (May(identity, merged) <=> May(identity, {PO!Tlp(PO!MostRestrictiveTlp(merged))}))
    /\ merged # {} /\ Plainly("pap") =>
         (May(identity, merged) <=> May(identity, {PO!Pap(PO!MostRestrictivePap(merged))}))
    /\ \A wider \in {PO!ClearedFor(identity, "h"), PO!WithCapability(identity, "redistribute"),
                      PO!WithMaxTlp(identity, "red")} : May(identity, merged) => May(wider, merged)

(* What an analyst said last of a pair or of an identity stands over what  *)
(* the records carry, identities only ever merge downwards, one            *)
(* publication corroborates once, however often and by whomever it is      *)
(* passed on, and what two records were merged into may be shown to whoever*)
(* either might be shown to and nobody else (resolve.rs:595, dedup.rs:297, *)
(* policy.rs:356).                                                         *)
IdentityIsReviewed ==
  (topic = "identity" => UnifiedByReview) /\ CorroborationIsIndependent /\ MergedIsBothTheirs

-----------------------------------------------------------------------------
BlobsAreTheirs ==
  Sampled("blob") =>
    LET blob == sample.blob
        own == EncodeBytes(blob)
        Got(row, codec) == GetSourceBlob(blob.content, [codec |-> codec, original_length |-> blob.length], row) IN
    /\ Got(own, own.codec) = blob /\ own.stored <= blob.length
    /\ LET got == Got(EncodeBytes(sample.found), sample.codec) IN
       got # None => got.content = blob.content /\ got.length = blob.length

(* The pages of a listing, one after the other: as many as it has rows.    *)
PageNumber(limit, n) ==
  LET page[k \in 0 .. n] == IF k = 0 THEN First(limit) ELSE NextPage(page[k - 1]) IN page[n]
InPages(PageOf(_), table, limit) ==
  FlattenSeq([n \in 1 .. Cardinality(DOMAIN table) + 1 |-> PageOf(PageNumber(limit, n - 1))])
ListsOnce(listed, ids) == IsInjective(listed) /\ Range(listed) = ids

(* A table of rows seen at some instant or never, a page's limit, a day.   *)
ListingsAreWhole ==
  Sampled("listing") =>
    LET table == sample.rows  limit == sample.limit
        any == [kinds |-> {}, statuses |-> {}, last_seen_from |-> None, last_seen_before |-> None]
        Found(query) == InPages(LAMBDA p : SearchEntities(table, query, p), table, limit)
        newest == InPages(LAMBDA p : ListEntities(table, p), table, limit)
        from == Found([any EXCEPT !.last_seen_from = sample.day])
        before == Found([any EXCEPT !.last_seen_before = sample.day]) IN
    /\ ListsOnce(newest, DOMAIN table)
    /\ \A i, j \in DOMAIN newest : i < j =>
         \/ table[newest[j]].last_seen = None
         \/ table[newest[i]].last_seen # None /\ table[newest[i]].last_seen >= table[newest[j]].last_seen
    /\ ListsOnce(Found(OnlyCurrent(any)), {i \in DOMAIN table : table[i].status \in CurrentStatuses})
    /\ ListsOnce(from \o before, {i \in DOMAIN table : table[i].last_seen # None})
    /\ ListsOnce(InPages(LAMBDA p : ClaimsAbout(table, 1, p), table, limit), {i \in DOMAIN table : table[i].subject = 1})
    /\ ListsOnce(InPages(LAMBDA p : SightingsOf(table, 1, p), table, limit), {i \in DOMAIN table : table[i].subject = 1})
    /\ ListsOnce(InPages(LAMBDA p : RelationshipsTouching(table, 1, p), table, limit),
                 {i \in DOMAIN table : 1 \in {table[i].source, table[i].target}})

(* The tables: a failure met again is one row that adds up, a decision     *)
(* keeps its actor, a metric's labels stay bounded and a checkpoint is the *)
(* last put under its name (StoreTables has the four).  A blob read is the *)
(* one that was stored, or none (sqlite.rs:676), and the pages of a        *)
(* listing have each row it is of once, newest first (store.rs:171).       *)
TablesAnswerForCalls ==
  /\ topic = "tables" =>
       FailuresAddUp /\ DecisionsKeepTheirActors /\ LabelsStayBounded /\ CheckpointsByName
  /\ BlobsAreTheirs /\ ListingsAreWhole

-----------------------------------------------------------------------------
IdsTellApart ==
  Sampled("identities") =>
    (Derive("k", sample[1]) = Derive("k", sample[2])) <=> (sample[1] = sample[2])

IdOf(class, r) ==
  CASE class = "relationship" -> RelationshipId(r.kind, r.source, r.target)
    [] class = "claim"        -> ClaimId(r.subject, r.assertion)
    [] class = "entity"       -> EntityId(r.kind, r.authority, r.external)
    [] class = "sighting"     -> SightingId(r.subject, r.observer, r.first_seen, r.last_seen)
    [] class = "source"       -> SourceObjectId(r.content_hash)

IsReadable(class, r) ==
  CASE class = "relationship" -> RelationshipReadable(r) [] class = "claim" -> ClaimReadable(r)
    [] class = "entity" -> EntityReadable(r) [] class = "sighting" -> SightingReadable(r)
    [] class = "source" -> SourceObjectReadable(r)

(* What a record states, and not when, how often or how surely.            *)
Stated(class, r) ==
  CASE class = "relationship" -> <<r.kind, {<<r.source, r.target>>} \union
                                           (IF IsSymmetric(r.kind) THEN {<<r.target, r.source>>} ELSE {})>>
    [] class = "claim"        -> <<r.subject, r.assertion.kind, <<r.assertion>>>>
    [] class = "entity"       -> <<r.kind, r.authority, r.external>>
    [] class = "sighting"     -> <<r.subject, r.observer, r.first_seen, r.last_seen>>
    [] class = "source"       -> <<r.content_hash>>

(* Two records of a class, and an instant.                                 *)
RecordsHold ==
  Sampled("records") =>
    LET a == sample.a  b == sample.b  class == sample.class IN
    /\ (IdOf(class, a) = IdOf(class, b)) <=> (Stated(class, a) = Stated(class, b))
    /\ class # "source" /\ IsReadable(class, a) /\ IsExpiredAt(a.temporal, sample.now) =>
         \/ a.temporal.valid_from = None
         \/ a.temporal.valid_from < sample.now
    /\ class = "sighting" /\ IsReadable(class, a) => a.first_seen <= a.last_seen /\ a.count > 0
    /\ class = "source" /\ IsReadable(class, a) /\ IsReadable(class, b) /\ a.id = b.id =>
         \A n \in 1 .. 2 : LET bytes == [hash |-> a.content_hash, length |-> n] IN
           MatchesBytes(a, bytes) /\ a.byte_length = b.byte_length => MatchesBytes(b, bytes)

(* Whatever calls built it, a provenance that was written can be read back *)
(* (each builder checks as it goes and the reader checks the whole:        *)
(* provenance/mod.rs:159, transformation.rs:228).  Two records have one    *)
(* identity when, and only when, they state the same, read from either end *)
(* where the relation has none, and no two lists of parts spell one name   *)
(* (id.rs:85).                                                             *)
BuiltReadsBack == WhatIsBuiltReadsBack /\ IdsTellApart /\ RecordsHold

-----------------------------------------------------------------------------
(* Guards: a fetch of a policy, a start, replies and what each lookup of a *)
(* host answers; a line of values of some trust.                           *)
(*                                                                         *)
(* What the check was told of a request's host is permitted.  Where the    *)
(* request then goes need not be: it goes to what a later lookup says, and *)
(* an address the policy refuses is reached exactly there (transport.rs:25 *)
(* admits this; network.rs:19 asks for the opposite).                      *)
EveryHopPermitted ==
  Sampled("fetch") =>
    LET policy == sample.policy
        s == FetchUrl(policy, sample.start, sample.lookups, sample.replies)
        asked == FetchQuery(policy, sample.start, sample.lookups, sample.replies)
        sent == s.contacted IN
    /\ s.result # None
    /\ Len(sent) <= policy.max_redirects + 1
    /\ \A i \in 1 .. Len(sent) :
         LET url == sent[i].url
             looked == sample.lookups[i][url.host]
             Refused(a) == "private" \in Range(a) /\ ~policy.allow_private_addresses IN
         /\ ~url.userinfo /\ (url.scheme = "http" => policy.allow_plaintext_http)
         /\ \A a \in looked.checked : ~Refused(a)
         /\ Refused(sent[i].to) => sent[i].to = looked.connected /\ looked.connected \notin looked.checked
    /\ \A i \in 1 .. Len(sent) - 1 : sent[i].url.scheme = "https" /\ sent[i + 1].url.scheme = "http"
                                      => policy.allow_redirect_downgrade
    /\ asked.contacted = SubSeq(sent, 1, Min({1, Len(sent)})) /\ asked.url = sample.start

TrustOnlyFalls ==
  Sampled("trust") =>
    LET Made[n \in 0 .. Len(sample)] ==
          IF n = 0 THEN Classified("text", "internal")
          ELSE MappedTo(CombinedWith(Made[n - 1], Classified("text", sample[n])), "made of it")
        whole == Made[Len(sample)] IN
    /\ Every(LAMBDA level : TrustOf(whole.trust) >= TrustOf(level), sample)
    /\ ExposeFor(whole, "instruction") # None => Range(sample) \subseteq {"internal"}
    /\ ExposeFor(whole, "model_context").delimited <=> ~(Range(sample) \subseteq {"internal"})

(* One limit is set to a value, the others left as they are built.         *)
LimitsHold ==
  Sampled("limits") =>
    LET built == [part \in DOMAIN ResourceBounds |-> DefaultLimits(ResourceBounds[part])]
        bounds == ResourceBounds[sample.part][sample.name]
        set == [built EXCEPT ![sample.part] = [@ EXCEPT ![sample.name] = sample.value]] IN
    /\ ResourceLimitsValidated(built)
    /\ ResourceLimitsValidated(set) <=> bounds.min <= sample.value /\ sample.value <= bounds.max

RatioHolds ==
  Sampled("ratio") =>
    LET Expands(output) == RatioPermits(sample.ratio, sample.input, output) IN
    /\ sample.output < Word => (Expands(sample.output) <=> sample.output <= sample.input * sample.ratio)
    /\ Expands(sample.output + 1) => Expands(sample.output)

(* Each request of a fetch, the redirected ones too, is one the policy     *)
(* allows, and they end (transport.rs:337); what is made of several values *)
(* is trusted no more than any of them (trust.rs:97); a limit out of its   *)
(* range is refused whatever the others are, and an expansion is permitted *)
(* up to its ratio, also where the product leaves the word                 *)
(* (limits.rs:234).                                                        *)
NothingPassesTheGuards == EveryHopPermitted /\ TrustOnlyFalls /\ LimitsHold /\ RatioHolds

=============================================================================
