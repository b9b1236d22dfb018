------------------------------ MODULE Indicators ------------------------------
(***************************************************************************)
(* brolga-ingest: what is read out of a detection, and what is not.  STIX  *)
(* patterns (formats/stix_pattern.rs), Sigma rules (formats/sigma.rs) and  *)
(* the OpenIOC and IODEF documents of formats/xml.rs.                      *)
(*                                                                         *)
(* A value is a record: `kinds` the observables it canonicalises to, by    *)
(* kind of canonicaliser.  A record produced is a tuple.                   *)
(***************************************************************************)
EXTENDS Absence, Integers, FiniteSets, Sequences, SequencesExt, FiniteSetsExt

(* The bounds, scaled down.                                                *)
MaxAlternatives == 2   \* MAX_ALTERNATIVES, 64
MaxDocuments == 2      \* MAX_DOCUMENTS, 256
MaxTags == 2           \* MAX_TAGS, 64
MaxXmlDepth == 2       \* MAX_XML_DEPTH, 64
MaxXmlElements == 4    \* MAX_XML_ELEMENTS, 100 000

Read(value, kind) == IF kind \in DOMAIN value.kinds THEN value.kinds[kind] ELSE None

-----------------------------------------------------------------------------
(* stix_pattern: a token is "[", "]", "=", "OR", another keyword or        *)
(* symbol, a word, or a quoted value.                                      *)
Refused(why) == [refused |-> why]
IsRefused(reading) == "refused" \in DOMAIN reading
IsWord(token) == "word" \in DOMAIN token
IsQuoted(token) == "quoted" \in DOMAIN token
IsMark(token, mark) == "mark" \in DOMAIN token /\ token.mark = mark

TokenAt(tokens, i) == IF i \in DOMAIN tokens THEN tokens[i] ELSE [mark |-> "end"]

(* comparison_at: the words and literals up to `=` are one path; one       *)
(* literal follows.                                                        *)
ComparisonAt(tokens, from) ==
  LET InPath(i) == IsWord(tokens[i]) \/ IsQuoted(tokens[i])
      stops == {i \in from .. Len(tokens) : ~InPath(i)}
      stop == IF stops = {} THEN Len(tokens) + 1 ELSE Min(stops)
      value == TokenAt(tokens, stop + 1) IN
  CASE ~IsMark(TokenAt(tokens, stop), "=")                            -> Refused("no comparison")
    [] IsMark(TokenAt(tokens, stop), "=") /\ stop = from              -> Refused("no object path")
    [] IsMark(TokenAt(tokens, stop), "=") /\ stop > from /\ ~IsQuoted(value) -> Refused("no value")
    [] OTHER -> [path |-> SubSeq(tokens, from, stop - 1), value |-> value.quoted, next |-> stop + 2]

(* Nothing may follow, least of all a second observation.                  *)
AfterClose(tokens, i) == i = Len(tokens) + 1

(* comparisons_of, a comparison at a time.                                 *)
NextComparison(tokens, state) ==
  LET one == ComparisonAt(tokens, state.at) IN
  IF IsRefused(one) THEN [state EXCEPT !.done = one]
  ELSE LET found == Append(state.found, one)  after == TokenAt(tokens, one.next) IN
    CASE Len(found) > MaxAlternatives -> [state EXCEPT !.done = Refused("over-long disjunction")]
      [] Len(found) <= MaxAlternatives /\ IsMark(after, "OR") ->
           [state EXCEPT !.found = found, !.at = one.next + 1]
      [] Len(found) <= MaxAlternatives /\ IsMark(after, "]") ->
           [state EXCEPT !.done = IF AfterClose(tokens, one.next + 1) THEN [comparisons |-> found]
                                  ELSE Refused("more than one observation")]
      [] OTHER -> [state EXCEPT !.done = Refused("not an alternative")]

ComparisonsOf(tokens) ==
  IF ~IsMark(TokenAt(tokens, 1), "[") THEN Refused("no observation")
  ELSE FoldLeft(LAMBDA s, i : IF s.done # None THEN s ELSE NextComparison(tokens, s),
         [at |-> 2, found |-> <<>>, done |-> None],
         [i \in 1 .. MaxAlternatives + 1 |-> i]).done

(* The object paths that are canonicalised, and as what.                   *)
PathKind(path) ==
  CASE path \in {<<[word |-> "ipv4-addr:value"]>>, <<[word |-> "ipv6-addr:value"]>>} -> "ip-address"
    [] path = <<[word |-> "domain-name:value"]>>                                      -> "domain-name"
    [] path = <<[word |-> "file:hashes."], [quoted |-> "SHA-256"]>>                   -> "sha-256"
    [] OTHER -> None

(* observables_of: a pattern whole, or nothing of it.                      *)
ObservablesOf(tokens) ==
  LET all == ComparisonsOf(tokens)
      found == {Read(all.comparisons[i].value, PathKind(all.comparisons[i].path)) :
                  i \in DOMAIN all.comparisons} IN
  IF IsRefused(all) THEN all
  ELSE IF None \in found THEN Refused("unreadable alternative") ELSE [observables |-> found]

-----------------------------------------------------------------------------
(* What the three document formats share: values whose place says what     *)
(* they are and which are matched by equality are observables, once each;  *)
(* every other is named as unread.                                         *)
Collected(items) ==
  FoldLeft(LAMBDA found, item :
      LET o == IF item.equality /\ item.kind # None /\ item.string THEN Read(item.value, item.kind) ELSE None IN
      IF o = None THEN [found EXCEPT !.unread = @ \union {item.name}]
      ELSE IF Contains(found.observables, o) THEN found
      ELSE [found EXCEPT !.observables = Append(@, o)],
    [observables |-> <<>>, unread |-> {}], items)

RecordsOf(subject, found, edge, claim) ==
  FlattenSeq([i \in DOMAIN found.observables |->
     << <<"relationship", edge, subject, found.observables[i]>>,
        <<"claim", claim, found.observables[i]>> >>])
  \o (IF found.unread = {} THEN <<>> ELSE << <<"claim", "unread", subject, found.unread>> >>)

Claims(subject, names) == SetToSeq({<<"claim", n, subject>> : n \in names})

-----------------------------------------------------------------------------
(* Sigma.  A tag that names a technique is an entity and an edge to it.    *)
TagRecords(rule, tag) ==
  IF tag.technique = None THEN << <<"claim", "tag", rule>> >>
  ELSE << <<"claim", "tag", rule>>, <<"relationship", "indicates", rule, tag.technique>>,
          <<"entity", tag.technique>> >>

StatusOf(status) ==
  CASE status = "deprecated" -> "deprecated" [] status = "unsupported" -> "revoked" [] OTHER -> "active"

(* map_rule: a document's records or the reason it has none.  Every        *)
(* selection is read, those the condition negates with the rest.           *)
MapRule(document) ==
  LET rule == IF document.id # None THEN document.id ELSE document.title
      items == FlattenSeq(document.selections) IN
  CASE ~document.mapping                                                -> Refused("not_a_rule")
    [] document.mapping /\ document.title = None                        -> Refused("missing_title")
    [] document.mapping /\ document.title # None /\ ~document.detection -> Refused("missing_detection")
    [] document.mapping /\ document.title # None /\ document.detection /\ Len(document.tags) > MaxTags
                                                                        -> Refused("tags_exceeded")
    [] OTHER -> [records |->
         Claims(rule, document.fields)
         \o FlattenSeq([i \in DOMAIN document.tags |-> TagRecords(rule, document.tags[i])])
         \o RecordsOf(rule, Collected(items), "indicates", "detection")
         \o << <<"entity", rule, StatusOf(document.status)>> >>]

(* Documents are read one by one, and a bad one costs itself only; too     *)
(* many, or too many records, cost the file.                               *)
ReadDocument(out, document, index) ==
  LET rule == IF document.readable THEN MapRule(document) ELSE Refused("invalid_yaml") IN
  IF IsRefused(rule) THEN [out EXCEPT !.rejected = Append(@, <<index - 1, rule.refused>>)]
  ELSE [out EXCEPT !.records = @ \o rule.records]

ParseSigma(documents, cancelAt, maxRecords) ==
  LET out == FoldLeft(LAMBDA o, i : ReadDocument(o, documents[i], i),
               [records |-> <<>>, rejected |-> <<>>], [i \in DOMAIN documents |-> i]) IN
  CASE cancelAt \in 1 .. Min({Len(documents), MaxDocuments})   -> Refused("cancelled")
    [] cancelAt \notin 1 .. Min({Len(documents), MaxDocuments}) /\ Len(documents) > MaxDocuments
                                                               -> Refused("document limit")
    [] OTHER -> IF out.records = <<>> /\ out.rejected = <<>> THEN Refused("no document")
                ELSE IF Len(out.records) > maxRecords THEN Refused("record limit") ELSE out

-----------------------------------------------------------------------------
(* read_document: the events of an XML reader.  An element that is empty   *)
(* is counted; only one that is opened is measured for depth.              *)
ReadEvent(state, event) ==
  LET counted == state.elements + 1 IN
  CASE event \in {"start", "empty"} /\ counted > MaxXmlElements -> [state EXCEPT !.error = "elements"]
    [] event = "start" /\ counted <= MaxXmlElements ->
         IF state.open + 1 > MaxXmlDepth THEN [state EXCEPT !.error = "depth"]
         ELSE [state EXCEPT !.elements = counted, !.open = @ + 1,
                 !.roots = IF state.open = 0 THEN @ + 1 ELSE @, !.depth = Max({@, state.open + 1})]
    [] event = "empty" /\ counted <= MaxXmlElements ->
         [state EXCEPT !.elements = counted, !.roots = IF state.open = 0 THEN @ + 1 ELSE @,
            !.depth = Max({@, state.open + 1})]
    [] event = "end" -> IF state.open = 0 THEN [state EXCEPT !.error = "unopened"]
                        ELSE [state EXCEPT !.open = @ - 1]
    [] event = "doctype" -> [state EXCEPT !.error = "doctype"]
    [] event = "text" -> state

ReadXml(events) ==
  LET end == FoldLeft(LAMBDA s, e : IF s.error # None THEN s ELSE ReadEvent(s, e),
               [elements |-> 0, open |-> 0, roots |-> 0, depth |-> 0, error |-> None], events) IN
  CASE end.error # None                    -> Refused(end.error)
    [] end.error = None /\ end.open > 0    -> Refused("truncated")
    [] OTHER -> IF end.roots = 1 THEN [depth |-> end.depth] ELSE Refused("no single root")

(* OpenIOC: an item that lacks its context or content is no item at all.   *)
MapOpenIoc(ioc) ==
  LET found == Collected(SelectSeq(ioc.items, LAMBDA item : item.complete)) IN
  IF ioc.id = None THEN Refused("unidentified")
  ELSE [records |-> Claims(ioc.id, ioc.fields) \o RecordsOf(ioc.id, found, "indicates", "indicator")
                    \o << <<"entity", ioc.id>> >>,
        rejected |-> IF found.observables = <<>> /\ found.unread = {}
                     THEN << <<None, "no_indicator_items">> >> ELSE <<>>]

(* IODEF: an incident is known by its number, within its authority.        *)
MapIncident(incident) ==
  IF incident.number = None THEN Refused("missing_incident_id")
  ELSE LET id == <<incident.authority, incident.number>>
           found == Collected(SelectSeq(incident.items, LAMBDA item : item.complete)) IN
    [records |-> Claims(id, incident.fields) \o RecordsOf(id, found, "part_of", "address")
                 \o << <<"entity", id>> >>]

ParseIodef(incidents, cancelAt, maxRecords) ==
  LET out == FoldLeft(LAMBDA o, i : LET one == MapIncident(incidents[i]) IN
                 IF IsRefused(one) THEN [o EXCEPT !.rejected = Append(@, <<i - 1, one.refused>>)]
                 ELSE [o EXCEPT !.records = @ \o one.records],
               [records |-> <<>>, rejected |-> <<>>], [i \in DOMAIN incidents |-> i]) IN
  CASE Len(incidents) > maxRecords                                       -> Refused("incident limit")
    [] Len(incidents) <= maxRecords /\ cancelAt \in DOMAIN incidents     -> Refused("cancelled")
    [] OTHER -> IF incidents = <<>> THEN Refused("no incident") ELSE out

ParseOpenIoc(ioc, cancelled, maxRecords) ==
  LET out == MapOpenIoc(ioc) IN
  IF cancelled THEN Refused("cancelled")
  ELSE IF IsRefused(out) \/ Len(out.records) <= maxRecords THEN out ELSE Refused("record limit")
=============================================================================
