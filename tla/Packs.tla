-------------------------------- MODULE Packs --------------------------------
(***************************************************************************)
(* brolga-model/src/pack.rs and brolga-graph/src/assemble.rs: a context    *)
(* pack, the rules it must satisfy and how it is made from what was read.  *)
(* brolga-api/src/context.rs assembles by the same rules.  Then the        *)
(* formats brolga-export writes it in.                                     *)
(*                                                                         *)
(* A record: id, markings, sources, status, assertion, ends.  A statement, *)
(* a gap's detail and the subject's text are left out; bytes of a value    *)
(* are whether it is longer than a summary may carry.                      *)
(***************************************************************************)
EXTENDS Policy, SequencesExt, FiniteSetsExt

PermitsRawObjects(level) == level \in {"L3", "L4", "L5"}
RequiresExpansion(level) == level \in {"L4", "L5"}
ParseLevel(text) == IF text \in {"L0", "L1", "L2", "L3"} THEN text ELSE None

IsRetryable(reason) == reason = "budget_exhausted"

Exclusion(category, reason) == [category |-> category, reason |-> reason]

EmptyGraph == [entities |-> <<>>, claims |-> <<>>, relationships |-> <<>>,
               sightings |-> <<>>]

Handle(target, version, issued) ==
  [target |-> target, max_level |-> "L5", graph_version |-> version, issued_at |-> issued]

(* The answer: all of the pack but what only this run of it made.          *)
FingerprintOf(pack) ==
  [f \in DOMAIN pack \ {"fingerprint", "generated_at", "request_id"} |-> pack[f]]

SaysTheSameAs(pack, other) == FingerprintOf(pack) = FingerprintOf(other)

Cited(pack) == UNION {f.evidence : f \in pack.findings}

(* What validated refuses, in its order; None is a pack.                   *)
Invalid(pack) ==
  LET reasons == {e.reason : e \in pack.exclusions} IN
  CASE \E f \in pack.findings : f.evidence = {} -> "finding without evidence"
    [] pack.restricted /\ "policy_restricted" \notin reasons -> "restricted, unexplained"
    [] pack.exhausted /\ "budget_exhausted" \notin reasons  -> "exhausted, unexplained"
    [] ~PermitsRawObjects(pack.detail_level)
       /\ \E c \in ToSet(pack.graph.claims) : c.long -> "raw content in a summary"
    [] RequiresExpansion(pack.detail_level)         -> "level needs expansion"
    [] OTHER -> None

(* Reading a pack back: valid, and its fingerprint its own.                *)
Deserialised(pack) ==
  CASE Invalid(pack) # None                        -> Invalid(pack)
    [] pack.fingerprint # FingerprintOf(pack)      -> "fingerprint mismatch"
    [] OTHER                                       -> pack

-----------------------------------------------------------------------------
IsCurrent(claim) == claim.status \in {"active", "deprecated"}

Severity(disposition) ==
  CASE disposition = "malicious"    -> 5
    [] disposition = "suspicious"   -> 4
    [] disposition = "allow_listed" -> 3
    [] disposition = "benign"       -> 2
    [] OTHER                        -> 1

(* The strongest word among the current claims.                            *)
DispositionOf(claims) ==
  LET said == {c.assertion : c \in {d \in ToSet(claims) :
                 IsCurrent(d) /\ d.assertion # "attribute"}} IN
  IF said = {} THEN "unknown"
  ELSE CHOOSE d \in said : \A e \in said : Severity(e) <= Severity(d)

(* Mutant: what was read is cited, permitted or not.                       *)
EvidenceOfAll(gathered, allowed) == UNION {c.sources : c \in ToSet(gathered.claims)}

EvidenceOf(gathered, allowed) == UNION {c.sources : c \in ToSet(allowed)}

(* A claim without sources of its own cites all of the pack's.             *)
SummariseClaim(claim, evidence) ==
  [assertion |-> claim.assertion, long |-> claim.long, status |-> claim.status,
   evidence |-> IF claim.sources = {} THEN evidence ELSE claim.sources]

SummariseEdge(edge) == [id |-> edge.id, ends |-> edge.ends]

(* A summary has no markings.                                              *)
SummariseEntity(entity) == [id |-> entity.id, kind |-> entity.kind]
SummariseSighting(sighting) == [last_seen |-> sighting.last_seen]

PackMarkings(claims, edges) == UNION {r.markings : r \in ToSet(claims) \union ToSet(edges)}

Gaps(claims, edges, sightings, evidence, withheld) ==
  {g \in {"store", "sightings", "evidence", "claims", "policy"} :
     CASE g = "store"     -> claims = <<>> /\ edges = <<>>
       [] g = "sightings" -> sightings = <<>>
       [] g = "evidence"  -> evidence = {} /\ claims # <<>>
       [] g = "claims"    -> claims # <<>> /\ \A c \in ToSet(claims) : ~IsCurrent(c)
       [] g = "policy"    -> withheld > 0}

(* Mutant: a page that is exactly full is not taken to be cut.             *)
ReachesBeyond(records, budget) == Len(records) > budget

Reaches(records, budget) == Len(records) >= budget

Exclusions(claims, edges, withheld, request) ==
  (IF withheld > 0 THEN {Exclusion("claims", "policy_restricted")} ELSE {})
  \union (IF Reaches(claims, request.max_objects)
          THEN {Exclusion("claims", "budget_exhausted")} ELSE {})
  \union (IF Reaches(edges, request.max_relationships)
          THEN {Exclusion("relationships", "budget_exhausted")} ELSE {})
  \union (IF request.level = "L0" THEN {Exclusion("graph", "below_detail_level")} ELSE {})

(* A level below the first carries no graph.  Claims and edges are those   *)
(* that were let through; entities and sightings are all that were read.   *)
GraphOf(level, gathered, claims, edges, evidence) ==
  IF level = "L0" THEN EmptyGraph
  ELSE [entities |-> [i \in DOMAIN gathered.entities |-> SummariseEntity(gathered.entities[i])],
        claims |-> [i \in DOMAIN claims |-> SummariseClaim(claims[i], evidence)],
        relationships |-> [i \in DOMAIN edges |-> SummariseEdge(edges[i])],
        sightings |-> [i \in DOMAIN gathered.sightings |-> SummariseSighting(gathered.sightings[i])]]

(* request has identity, level, max_objects, max_relationships, now,       *)
(* version, request_id; what was read has claims, edges, sightings and     *)
(* entities.                                                               *)
Assembled(request, gathered) ==
  LET readClaims == Partition(request.identity, gathered.claims, "read")
      readEdges == Partition(request.identity, gathered.edges, "read")
      claims == readClaims.allowed
      edges == readEdges.allowed
      withheld == readClaims.denials + readEdges.denials
      evidence == EvidenceOf(gathered, claims) IN
  [detail_level |-> request.level,
   disposition |-> DispositionOf(claims),
   graph |-> GraphOf(request.level, gathered, claims, edges, evidence),
   handles |-> [i \in DOMAIN claims |-> Handle(claims[i].id, request.version, request.now)],
   findings |-> IF evidence = {} THEN {} ELSE {[evidence |-> evidence]},
   gaps |-> Gaps(claims, edges, gathered.sightings, evidence, withheld),
   exclusions |-> Exclusions(claims, edges, withheld, request),
   requested |-> <<request.max_objects, request.max_relationships>>,
   consumed |-> <<Len(claims), Len(edges)>>,
   exhausted |-> \/ Reaches(claims, request.max_objects)
                 \/ Reaches(edges, request.max_relationships),
   recipient |-> request.identity.name,
   markings |-> PackMarkings(claims, edges),
   restricted |-> withheld > 0,
   graph_version |-> request.version,
   generated_at |-> request.now, request_id |-> request.request_id]

Validated(made) ==
  IF Invalid(made) # None THEN [invalid |-> Invalid(made)]
  ELSE [f \in DOMAIN made \union {"fingerprint"} |->
          IF f = "fingerprint" THEN FingerprintOf(made) ELSE made[f]]

Build(request, gathered) == Validated(Assembled(request, gathered))

IsPack(answer) == "fingerprint" \in DOMAIN answer

-----------------------------------------------------------------------------
(* brolga-export: a pack in the formats others read, and who may have it.  *)
(* Bytes are the sections of the pack that they carry, in their order: a   *)
(* section is its name and what of the pack it holds.  The wording, the    *)
(* escaping and the syntax are left out.                                   *)

Orientation == {"machine", "human", "agent", "interchange"}
Lossiness == {"lossless", "lossless_structural", "partially_lossless", "compressed",
              "derived", "narrative"}
MustDeclareLosses(lossiness) == lossiness \in {"partially_lossless", "compressed", "derived"}

Metadata(orientation, lossiness) ==
  [orientation |-> orientation, lossiness |-> lossiness]

(* Mutant: a file for another platform is only read.                       *)
CapabilityReadOnly(metadata) == "read"

(* A file for another platform is redistribution.                          *)
Capability(metadata) ==
  IF metadata.orientation = "interchange" THEN "redistribute" ELSE "read"

(* ExporterRegistry::shipped, by short name.                               *)
Registry ==
  [json     |-> Metadata("machine", "lossless"),
   compact  |-> Metadata("machine", "lossless"),
   yaml     |-> Metadata("machine", "lossless"),
   jsonl    |-> Metadata("machine", "lossless_structural"),
   stix     |-> Metadata("interchange", "partially_lossless"),
   markdown |-> Metadata("human", "narrative"),
   text     |-> Metadata("human", "narrative"),
   brief    |-> Metadata("agent", "compressed")]

Names == DOMAIN Registry

ASSUME FormatsDescribed ==
  \A n \in Names : Registry[n] \in [orientation : Orientation, lossiness : Lossiness]

Section(name, content) == <<name, content>>

(* A section that is written only where there is something in it.          *)
Where(there, sections) == IF there THEN sections ELSE <<>>

Header(pack) == Section("header", <<pack.detail_level, pack.disposition>>)
HandlingOf(pack) == Where(pack.markings # {}, <<Section("handling", pack.markings)>>)
RestrictedOf(pack) == Where(pack.restricted, <<Section("restricted", TRUE)>>)

-----------------------------------------------------------------------------
EmitJson(pack) == <<Section("pack", pack)>>
EmitCompact(pack) == <<Section("pack", pack)>>
EmitYaml(pack) == <<Section("pack", pack)>>

(* A line each, in the documented order; the budget and the policy last.   *)
EmitJsonl(pack) ==
  <<Header(pack), Section("finding", pack.findings),
    Section("entity", pack.graph.entities), Section("claim", pack.graph.claims),
    Section("relationship", pack.graph.relationships),
    Section("sighting", pack.graph.sightings), Section("handle", pack.handles),
    Section("gap", pack.gaps), Section("exclusion", pack.exclusions),
    Section("budget", pack.exhausted), Section("policy", pack.markings)>>

(* Of the levels, of the sightings, of the relationships and of what may   *)
(* be expanded nothing is told.                                            *)
IndicatorLabel(disposition) ==
  CASE disposition = "malicious"  -> "malicious-activity"
    [] disposition = "suspicious" -> "anomalous-activity"
    [] disposition = "benign"     -> "benign"
    [] OTHER                      -> None

SdoKinds == {"threat_actor", "malware", "campaign", "intrusion_set", "tool",
             "vulnerability", "identity", "location", "attack_technique",
             "infrastructure"}
ScoKinds == {"ipv4_address", "ipv6_address", "domain_name", "url", "email_address",
             "file_name", "mac_address", "ip_range"}

Mapped(entities) == SelectSeq(entities, LAMBDA e : e.kind \in SdoKinds)
Unmapped(entities) == {e.kind : e \in ToSet(entities)} \ SdoKinds

(* An identifier is made of what it identifies, the pack's of the          *)
(* fingerprint: exporting the same answer again says the same.             *)
DeterministicId(type, parts) == <<type, parts>>

NoteOf(pack) ==
  LET unmapped == Unmapped(pack.graph.entities) IN
  Where(pack.graph.claims # <<>> \/ pack.gaps # {} \/ pack.exclusions # {} \/ unmapped # {},
        <<Section("note", <<pack.graph.claims, pack.gaps, pack.exclusions, unmapped>>)>>)

SubjectObject(kind) ==
  Section(IF kind \in ScoKinds THEN kind ELSE "indicator", DeterministicId("subject", kind))

EmitStix(kind, pack) ==
  <<SubjectObject(kind)>>
  \o Where(IndicatorLabel(pack.disposition) # None,
           <<Section("indicator", <<IndicatorLabel(pack.disposition), pack.findings>>)>>)
  \o <<Section("entity", Mapped(pack.graph.entities))>>
  \o NoteOf(pack)
  \o <<Section("bundle", DeterministicId("bundle", pack.fingerprint))>>

(* A heading is there whether or not there is anything under it.           *)
MarkdownAssertions(pack) ==
  <<Header(pack)>> \o RestrictedOf(pack) \o HandlingOf(pack)
  \o <<Section("finding", pack.findings), Section("entity", pack.graph.entities),
       Section("claim", pack.graph.claims)>>

MarkdownOmissions(pack) ==
  <<Section("gap", pack.gaps), Section("exclusion", pack.exclusions)>>
  \o Where(pack.handles # <<>>, <<Section("handle", Len(pack.handles))>>)
  \o <<Section("fingerprint", pack.fingerprint)>>

EmitMarkdown(pack) == MarkdownAssertions(pack) \o MarkdownOmissions(pack)

EmitText(pack) ==
  <<Header(pack)>> \o RestrictedOf(pack) \o HandlingOf(pack)
  \o <<Section("finding", pack.findings), Section("gap", pack.gaps),
       Section("exclusion", pack.exclusions), Section("fingerprint", pack.fingerprint)>>

(* What is not known stands before what is.                                *)
EmitBrief(pack) ==
  <<Header(pack), Section("gap", pack.gaps)>> \o RestrictedOf(pack)
  \o <<Section("finding", pack.findings), Section("claim", pack.graph.claims),
       Section("handle", pack.handles)>>

Losses(name, kind) ==
  CASE name = "stix" -> {"budget", "exclusion structure", "gap structure", "fingerprint",
                         "relationship confidence", "handle"}
                        \union (IF kind \in ScoKinds THEN {} ELSE {"subject kind"})
    [] name \in {"markdown", "text"} -> {"fingerprint", "budget", "structure"}
    [] name = "brief" -> {"structure", "budget", "entity", "relationship"}
    [] OTHER -> {}

Emit(name, kind, pack) ==
  CASE name = "json"     -> EmitJson(pack)
    [] name = "compact"  -> EmitCompact(pack)
    [] name = "yaml"     -> EmitYaml(pack)
    [] name = "jsonl"    -> EmitJsonl(pack)
    [] name = "stix"     -> EmitStix(kind, pack)
    [] name = "markdown" -> EmitMarkdown(pack)
    [] name = "text"     -> EmitText(pack)
    [] name = "brief"    -> EmitBrief(pack)

(* clear: decided after the format is known, on the pack's own markings.   *)
Clear(identity, pack, name) ==
  Denials(identity, pack.markings, Capability(Registry[name]))

Export(name, kind, pack, identity) ==
  CASE name \notin Names                -> [refused |-> "unknown format"]
    [] name \in Names /\ Clear(identity, pack, name) # {}
                                        -> [refused |-> "denied"]
    [] OTHER -> [bytes |-> Emit(name, kind, pack), losses |-> Losses(name, kind)]
=============================================================================
