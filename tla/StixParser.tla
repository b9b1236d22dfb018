----------------------------- MODULE StixParser -----------------------------
(***************************************************************************)
(* StixParser::parse of brolga-ingest: one bundle to canonical records and *)
(* rejections.  A pure function of the document.                           *)
(*                                                                         *)
(* A document is the sequence of its objects, so that two documents are    *)
(* the same bytes when they are equal.  An object carries what the parser  *)
(* decides on: its identifier, its type, the canonical (kind, name) of an  *)
(* SDO, the observables it names itself, the identifiers it refers to, and *)
(* whether the rest of its fields (pattern language, labels, windows and   *)
(* counts) are ones the parser takes.                                      *)
(***************************************************************************)
EXTENDS Naturals, Sequences, FiniteSets, SequencesExt

CONSTANTS
  Ids,           \* STIX identifiers
  Names,         \* (kind, lower-case name) of an SDO, as published
  Artefacts,     \* observables, canonicalised
  None,          \* a field that is not there
  Cut,           \* a name as `bounded` leaves it
  Unusable,      \* names UntrustedText refuses: control characters
  MaxFanOut,     \* MAX_FAN_OUT
  MaxRecords     \* limits.max_records

ASSUME StixAssumption ==
  /\ None \notin Ids \union Names \union Artefacts
  /\ Cut \in [Names -> Names]
  /\ Unusable \subseteq Names
  /\ MaxFanOut \in Nat /\ MaxRecords \in Nat

Types == {"sdo", "sco", "indicator", "observed-data", "relationship",
          "marking-definition", "bundle", "other", "untyped"}

Objects ==
  [id : Ids \union {None}, type : Types, name : Names \union {None},
   observables : {a \in SUBSET Artefacts : IsFiniteSet(a)}, refs : SUBSET Ids,
   source : Ids \union {None}, target : Ids \union {None},
   by : Ids \union {None}, usable : BOOLEAN]

-----------------------------------------------------------------------------
(* NodeRef, and the identity of the four kinds of ParsedRecord.            *)
EntityNode(name) == <<"entity", name>>
ObservableNode(v) == <<"observable", v>>
IsEntity(node) == node[1] = "entity"

EntityRecord(name) ==
  [kind |-> "entity", node |-> EntityNode(name), with |-> None]
EdgeRecord(source, target) ==
  [kind |-> "relationship", node |-> source, with |-> target]
ClaimRecord(v, says) ==
  [kind |-> "claim", node |-> ObservableNode(v), with |-> says]
SightingRecord(v, observer) ==
  [kind |-> "sighting", node |-> ObservableNode(v), with |-> observer]

-----------------------------------------------------------------------------
(* The nodes one object contributes to collect_nodes: an SDO under the     *)
(* name it was published with, an SCO, the alternatives of an indicator.   *)
NodesOf(object) ==
  IF object.type = "sdo" /\ object.name # None
  THEN {EntityNode(object.name)}
  ELSE IF object.type \in {"sco", "indicator"}
  THEN {ObservableNode(v) : v \in object.observables}
  ELSE {}

(* Mutant: nodes are collected while mapping, so only what came before is  *)
(* known.                                                                  *)
NodesSoFar(doc, i, id) ==
  LET last == SelectLastInSubSeq(doc, 1, i, LAMBDA object :
                object.id = id /\ id # None /\ NodesOf(object) # {})
  IN IF last = 0 THEN {} ELSE NodesOf(doc[last])

(* collect_nodes: what an identifier stands for in this bundle; a later    *)
(* object of the same identifier replaces an earlier one.  `i` is the      *)
(* position that asks.                                                     *)
Nodes(doc, i, id) ==
  LET last == SelectLastInSeq(doc, LAMBDA object :
                object.id = id /\ id # None /\ NodesOf(object) # {})
  IN IF last = 0 THEN {} ELSE NodesOf(doc[last])

(* collect_scos: the same for the observables of top-level SCOs.           *)
Scos(doc, id) ==
  LET last == SelectLastInSeq(doc, LAMBDA object :
                object.id = id /\ object.type = "sco"
                               /\ object.observables # {})
  IN IF last = 0 THEN {} ELSE doc[last].observables

-----------------------------------------------------------------------------
(* Result<Vec<ParsedRecord>, Rejection>: the reason of the first check     *)
(* that fails, or the records.                                             *)
Mapped(checks, records) ==
  LET first == SelectInSeq(checks, LAMBDA check : check[1])
  IN IF first = 0 THEN [reason |-> "none", records |-> records]
     ELSE [reason |-> checks[first][2], records |-> {}]

Refused(reason) == [reason |-> reason, records |-> {}]

MapEntity(object) ==
  Mapped(<< <<object.name = None, "missing_name">>,
            <<object.name # None /\ Cut[object.name] \in Unusable,
              "unusable_name">> >>,
         {EntityRecord(Cut[name]) : name \in {object.name} \ {None}})

MapObservable(object) ==
  Mapped(<< <<object.observables = {}, "uncanonicalisable_observable">> >>,
         {ClaimRecord(v, "stix.sco") : v \in object.observables})

(* One set of assertions for every alternative of the pattern.             *)
MapIndicator(object) ==
  Mapped(<< <<object.observables = {}, "unrepresentable_pattern">>,
            <<~object.usable, "unusable_indicator">> >>,
         {ClaimRecord(v, "stix.indicator") : v \in object.observables})

(* An observer that is not an entity of the bundle is none at all.         *)
Observers(doc, i) ==
  LET entities == {n \in Nodes(doc, i, doc[i].by) : IsEntity(n)}
  IN IF entities = {} THEN {None} ELSE entities

ObservedObservables(doc, i) ==
  doc[i].observables \union UNION {Scos(doc, id) : id \in doc[i].refs}

MapObservedData(doc, i) ==
  LET observed == ObservedObservables(doc, i)
  IN Mapped(<< <<~doc[i].usable, "unusable_observation">>,
               <<observed = {}, "no_mappable_observable">> >>,
            {SightingRecord(v, o) : v \in observed, o \in Observers(doc, i)}
              \union {ClaimRecord(v, "stix.observed_data") : v \in observed})

Sources(doc, i) == Nodes(doc, i, doc[i].source)
Targets(doc, i) == Nodes(doc, i, doc[i].target)

(* The edges counted against a source when its i-th object is mapped; a    *)
(* relationship whose end is unresolved is rejected before it is counted   *)
(* and has none.                                                           *)
FanOut(doc, i) ==
  LET counted == {j \in 1..i : /\ doc[j].type = "relationship"
                               /\ doc[j].source = doc[i].source}
  IN Cardinality(UNION {{j} \X (Sources(doc, j) \X Targets(doc, j)) :
                          j \in counted})

MapRelationship(doc, i) ==
  Mapped(<< <<doc[i].source = None, "missing_source_ref">>,
            <<doc[i].target = None, "missing_target_ref">>,
            <<Sources(doc, i) = {}, "unresolved_source_ref">>,
            <<Targets(doc, i) = {}, "unresolved_target_ref">>,
            <<FanOut(doc, i) > MaxFanOut, "fan_out_exceeded">> >>,
         {EdgeRecord(s, t) : s \in Sources(doc, i), t \in Targets(doc, i)})

(* Mutant: what is not mapped yet is passed over.                          *)
MapObjectLeniently(doc, i) ==
  IF doc[i].type = "sdo" THEN MapEntity(doc[i])
  ELSE IF doc[i].type = "sco" THEN MapObservable(doc[i])
  ELSE IF doc[i].type = "indicator" THEN MapIndicator(doc[i])
  ELSE IF doc[i].type = "observed-data" THEN MapObservedData(doc, i)
  ELSE IF doc[i].type = "relationship" THEN MapRelationship(doc, i)
  ELSE Mapped(<< >>, {})

MapObject(doc, i) ==
  CASE doc[i].type = "sdo"                -> MapEntity(doc[i])
    [] doc[i].type = "sco"                -> MapObservable(doc[i])
    [] doc[i].type = "indicator"          -> MapIndicator(doc[i])
    [] doc[i].type = "observed-data"      -> MapObservedData(doc, i)
    [] doc[i].type = "relationship"       -> MapRelationship(doc, i)
    [] doc[i].type = "marking-definition" -> Mapped(<< >>, {})
    [] doc[i].type = "bundle"             -> Refused("nested_bundle")
    [] doc[i].type = "other"   -> Refused("unsupported_object_type")
    [] doc[i].type = "untyped" -> Refused("missing_type")

-----------------------------------------------------------------------------
(* ParseOutput: the records, the reason of every rejected position, and    *)
(* whether neither the objects nor the records they become are too many.   *)
Parse(doc) ==
  LET mapped == {<<i, MapObject(doc, i)>> : i \in DOMAIN doc}
      refused == {m \in mapped : m[2].reason # "none"}
      produced == MapThenSumSet(LAMBDA m : Cardinality(m[2].records), mapped)
  IN [records |-> UNION {m[2].records : m \in mapped},
      rejected |-> {<<m[1], m[2].reason>> : m \in refused},
      within |-> Len(doc) <= MaxRecords /\ produced <= MaxRecords]
=============================================================================
