-------------------------------- MODULE Mapping --------------------------------
(***************************************************************************)
(* brolga-ingest/mapping: a feed read as a declaration says it is to be.   *)
(* The declaration and its refusals (mod.rs), paths into JSON, XML and     *)
(* rows (path.rs), the closed set of transforms (transform.rs) and the     *)
(* parser that applies them (engine.rs).                                   *)
(*                                                                         *)
(* A text is a sequence of marks: letters, " ", ".", a defanged "[.]".     *)
(***************************************************************************)
EXTENDS Absence, Integers, FiniteSets, Sequences, SequencesExt, FiniteSetsExt

CONSTANT Canonical(_, _)   \* the observable a text is, of a kind, or None

(* The bounds, scaled down.                                                *)
MaxPathBytes == 6       \* MAX_PATH_BYTES, 512
MaxSegments == 3        \* MAX_SEGMENTS, 16
MaxWildcards == 1       \* MAX_WILDCARDS, 2
MaxNodeCeiling == 9     \* MAX_NODE_CEILING, 10 million
MaxRecordCeiling == 4   \* MAX_RECORD_CEILING, 5 million
MaxRowsScanned == 3     \* MAX_ROWS_SCANNED
MaxFields == 3          \* MAX_FIELDS, 256
MaxFilters == 2         \* MAX_FILTERS, 64
MaxChain == 2           \* MAX_CHAIN, 8
MaxOutput == 4          \* MAX_OUTPUT_BYTES, 8 KiB

Refused(why) == [refused |-> why]
IsRefused(result) == "refused" \in DOMAIN result

ObservableKinds == {"ip-address", "ip-range", "domain-name", "url", "email-address",
                    "file-hash", "file-name", "file-path"}
Inferable == {"url", "ip-range", "ip-address", "email-address", "file-hash", "domain-name"}

-----------------------------------------------------------------------------
(* A path: its segments, each a name and what stands in brackets after it. *)
IsName(step) == "name" \in DOMAIN step
IsIndex(step) == "index" \in DOMAIN step
IsWildcard(step) == "wildcard" \in DOMAIN step

SegmentSteps(segment) ==
  (IF segment.name = "" THEN <<>> ELSE << [name |-> segment.name, attribute |-> segment.attribute] >>)
  \o segment.brackets

CheckedSteps(steps) ==
  CASE \E i \in DOMAIN steps : ~(IsName(steps[i]) \/ IsIndex(steps[i]) \/ IsWildcard(steps[i])) ->
         Refused("malformed_index")
    [] OTHER -> IF steps = <<>> THEN Refused("empty")
                ELSE IF Len(steps) > MaxSegments THEN Refused("too_many_segments")
                ELSE IF Len(SelectSeq(steps, IsWildcard)) > MaxWildcards THEN Refused("too_many_wildcards")
                ELSE [steps |-> steps]

(* Path::parse: what is no part of the grammar is refused by name.         *)
ParsePath(path) ==
  CASE path.size = 0                                        -> Refused("empty")
    [] path.size > MaxPathBytes                             -> Refused("too_long")
    [] path.size \in 1 .. MaxPathBytes /\ path.marks # {}   -> Refused("unsupported")
    [] OTHER ->
         IF \E i \in DOMAIN path.segments : SegmentSteps(path.segments[i]) = <<>> THEN Refused("empty_segment")
         ELSE CheckedSteps(FlattenSeq([i \in DOMAIN path.segments |-> SegmentSteps(path.segments[i])]))

IsSingular(steps) == \A i \in DOMAIN steps : ~IsWildcard(steps[i])

(* A JSON value: what it is, what it holds, what it says.                  *)
Children(node, step) ==
  LET NodesOf(kids) == [i \in DOMAIN kids |-> kids[i].node] IN
  CASE IsName(step)  -> IF node.is # "object" \/ step.attribute THEN <<>>
                        ELSE NodesOf(SelectSeq(node.kids, LAMBDA k : k.name = step.name))
    [] IsIndex(step) -> IF node.is = "array" /\ step.index < Len(node.kids)
                        THEN << node.kids[step.index + 1].node >> ELSE <<>>
    [] IsWildcard(step) -> IF node.is \in {"object", "array"} THEN NodesOf(node.kids) ELSE <<>>

(* A walk's nodes, unless it looked at too many: then none.                *)
Within(end, maxNodes) == IF end.visited > maxNodes THEN Refused("nodes") ELSE [nodes |-> end.nodes]

(* select_json: each node is counted when it is looked into and again when *)
(* it is reached; too many refuse the selection, and cut nothing off it.   *)
SelectJson(root, steps, maxNodes) ==
  LET Reached(s, next) == [nodes |-> next, visited |-> s.visited + Len(s.nodes) + Len(next)] IN
  Within(FoldLeft(LAMBDA s, step :
           Reached(s, FlattenSeq([i \in DOMAIN s.nodes |-> Children(s.nodes[i], step)])),
           [nodes |-> <<root>>, visited |-> 1], steps), maxNodes)

(* One step of an XML path.  A name takes the first of its children alone  *)
(* when `first` says so, and an index counts in what is left.              *)
XmlStep(s, step, first) ==
  LET all == FlattenSeq([i \in DOMAIN s.nodes |-> s.nodes[i].kids])
      named == SelectSeq(all, LAMBDA e : e.name = step.name) IN
  CASE s.attribute # None -> [s EXCEPT !.nodes = <<>>, !.ended = TRUE]
    [] s.attribute = None /\ IsName(step) /\ step.attribute -> [s EXCEPT !.attribute = step.name]
    [] s.attribute = None /\ IsName(step) /\ ~step.attribute ->
         [s EXCEPT !.nodes = IF first THEN SubSeq(named, 1, Min({1, Len(named)})) ELSE named,
                   !.visited = @ + Len(all)]
    [] s.attribute = None /\ IsIndex(step) ->
         [s EXCEPT !.nodes = IF step.index < Len(@) THEN <<@[step.index + 1]>> ELSE <<>>, !.visited = @ + 1]
    [] s.attribute = None /\ IsWildcard(step) -> s

WalkXml(root, steps, maxNodes, first) ==
  FoldLeft(LAMBDA s, step : IF s.ended \/ s.nodes = <<>> \/ s.visited > maxNodes THEN s
                            ELSE XmlStep(s, step, first),
    [nodes |-> <<root>>, visited |-> 1, attribute |-> None, ended |-> FALSE], steps)

(* select_elements: the elements themselves, of which an attribute is none.*)
SelectElements(root, steps, maxNodes) ==
  LET Elements(end) == [end EXCEPT !.nodes = IF end.attribute # None THEN <<>> ELSE @] IN
  Within(Elements(WalkXml(root, steps, maxNodes, FALSE)), maxNodes)

-----------------------------------------------------------------------------
Blank(mark) == mark = " "

(* What is left of a text when the blanks around it go.                    *)
Trim(text) ==
  LET solid == {i \in DOMAIN text : ~Blank(text[i])} IN
  IF solid = {} THEN <<>> ELSE SubSeq(text, Min(solid), Max(solid))

NonEmpty(texts) == SelectSeq(texts, LAMBDA t : t # <<>>)

(* A scalar as a text; what holds other values is none.                    *)
ScalarString(node) == IF node.is = "scalar" THEN Trim(node.text) ELSE <<>>

TextsOf(nodes, attribute) ==
  LET Text(e) == IF attribute = None THEN Trim(e.text)
                 ELSE IF attribute \in DOMAIN e.attributes /\ Trim(e.attributes[attribute]) # <<>>
                      THEN e.attributes[attribute] ELSE <<>> IN
  NonEmpty([i \in DOMAIN nodes |-> Text(nodes[i])])

SelectXml(root, steps, maxNodes) ==
  LET Texts(end) == IF end.visited > maxNodes THEN Refused("nodes")
                    ELSE [values |-> TextsOf(end.nodes, end.attribute)] IN
  Texts(WalkXml(root, steps, maxNodes, IsSingular(steps)))

(* A row has columns, by name or by number, and nothing below them.        *)
SelectRow(headers, row, steps) ==
  LET step == steps[1]
      named == IF IsName(step) THEN {i \in DOMAIN headers : headers[i] = <<step.name>>} ELSE {}
      column == IF IsIndex(step) THEN step.index + 1
                ELSE IF named = {} THEN 0 ELSE Min(named) IN
  IF Len(steps) # 1 \/ column \notin DOMAIN row \/ Trim(row[column]) = <<>> THEN [values |-> <<>>]
  ELSE [values |-> << Trim(row[column]) >>]

(* Reader: one record of any of the three shapes.                          *)
SelectFrom(reader, steps, maxNodes) ==
  LET Scalars(found) ==
        IF IsRefused(found) THEN found
        ELSE [values |-> NonEmpty([i \in DOMAIN found.nodes |-> ScalarString(found.nodes[i])])] IN
  CASE reader.shape = "json" -> Scalars(SelectJson(reader.value, steps, maxNodes))
    [] reader.shape = "xml" -> SelectXml(reader.value, steps, maxNodes)
    [] reader.shape = "csv" -> SelectRow(reader.headers, reader.value, steps)

-----------------------------------------------------------------------------
(* The transforms: a closed set, each total and none of them a program.    *)
Fold(mark) == IF mark = "A" THEN "a" ELSE mark
Raise(mark) == IF mark = "a" THEN "A" ELSE mark
Fang(mark) == IF mark \in {"[.]", "[dot]", "(.)"} THEN "." ELSE mark

EachMark(text, Op(_)) == [i \in DOMAIN text |-> Op(text[i])]

SplitAt(text, mark) ==
  FoldLeft(LAMBDA parts, m : IF m = mark THEN Append(parts, <<>>)
                             ELSE [parts EXCEPT ![Len(parts)] = Append(@, m)], << <<>> >>, text)

CollapseWhitespace(text) ==
  LET words == NonEmpty(SplitAt(text, " ")) IN
  FlattenSeq([i \in DOMAIN words |-> IF i = 1 THEN words[i] ELSE <<" ">> \o words[i]])

Validated(t) ==
  CASE t.op \in {"strip_prefix", "strip_suffix", "replace", "split_take"} -> t.of # None
    [] t.op = "substring" -> t.length # 0
    [] OTHER -> TRUE

Applied(t, text) ==
  CASE t.op = "trim"      -> Trim(text)
    [] t.op = "lowercase" -> EachMark(text, Fold)
    [] t.op = "uppercase" -> EachMark(text, Raise)
    [] t.op = "strip_prefix" -> IF IsPrefix(<<t.of>>, text) THEN Tail(text) ELSE text
    [] t.op = "strip_suffix" -> IF IsSuffix(<<t.of>>, text) THEN Front(text) ELSE text
    [] t.op = "replace"      -> EachMark(text, LAMBDA m : IF m = t.of THEN t.to ELSE m)
    [] t.op = "split_take"   -> LET parts == SplitAt(text, t.of) IN
                                IF t.index < Len(parts) THEN parts[t.index + 1] ELSE text
    [] t.op = "substring"    -> SubSeq(text, t.start + 1, Min({t.start + t.length, Len(text)}))
    [] t.op = "undefang"     -> EachMark(text, Fang)
    [] t.op = "collapse_whitespace" -> CollapseWhitespace(text)

Bounded(text, size) == SubSeq(text, 1, Min({size, Len(text)}))
Apply(t, text) == Bounded(Applied(t, text), MaxOutput)
ApplyChain(transforms, text) ==
  FoldLeft(LAMBDA value, t : Apply(t, value), text, Bounded(transforms, MaxChain))

-----------------------------------------------------------------------------
(* Mapping::validate: a declaration is taken whole or refused.             *)
NeedsValue(op) == op \notin {"present", "absent"}

FieldRefused(f) ==
  \/ IsRefused(ParsePath(f.path))
  \/ Len(f.transforms) > MaxChain
  \/ \E i \in DOMAIN f.transforms : ~Validated(f.transforms[i])
  \/ f.target.is = "observable" /\ f.target.kind \notin ObservableKinds
  \/ f.target.is = "attribute" /\ f.target.name = ""
  \/ f.subject /\ f.target.is \notin {"observable", "infer"}

Subjects(mapping) == {i \in DOMAIN mapping.fields : mapping.fields[i].subject}

Validate(mapping) ==
  LET fields == mapping.fields  filters == mapping.filters IN
  CASE mapping.schema # "brolga.mapping/1.0"                       -> Refused("unknown_schema")
    [] mapping.schema = "brolga.mapping/1.0" /\ (mapping.id = "" \/ fields = <<>>) -> Refused("missing")
    [] OTHER ->
         IF Len(fields) > MaxFields \/ Len(filters) > MaxFilters THEN Refused("too_many")
         ELSE IF mapping.max_records > MaxRecordCeiling \/ mapping.max_nodes > MaxNodeCeiling
              THEN Refused("limit_too_high")
         ELSE IF \/ mapping.source = "csv" /\ mapping.records # None
                 \/ mapping.source # "csv" /\ mapping.delimiter # None
                 \/ mapping.records # None /\ IsRefused(ParsePath(mapping.records))
                 \/ \E i \in DOMAIN filters : \/ IsRefused(ParsePath(filters[i].path))
                                              \/ NeedsValue(filters[i].op) # (filters[i].value # None)
              THEN Refused("field")
         ELSE IF \E i \in DOMAIN fields : FieldRefused(fields[i]) THEN Refused("field")
         ELSE IF \E i, j \in DOMAIN fields : /\ i # j /\ fields[i].target = fields[j].target
                                             /\ fields[i].target.is = "attribute"
              THEN Refused("duplicate_attribute")
         ELSE IF Cardinality(Subjects(mapping)) # 1 THEN Refused("subject") ELSE mapping

SubjectField(mapping) == mapping.fields[Min(Subjects(mapping))]

-----------------------------------------------------------------------------
(* What a record adds to the output.                                       *)
Output(claims, rejected, notes) == [claims |-> claims, rejected |-> rejected, notes |-> notes]
NoOutput == Output(<<>>, <<>>, 0)
Joined(a, b) == Output(a.claims \o b.claims, a.rejected \o b.rejected, a.notes + b.notes)
RejectedAt(index, why) == Output(<<>>, << [at |-> index, why |-> why] >>, 0)

(* values_for: transformed, the empty ones gone, the default if none is.   *)
ValuesFor(mapping, field, reader) ==
  LET Defaulted(kept) == IF kept = <<>> /\ field.default \notin {None, <<>>} THEN <<field.default>> ELSE kept
      Transformed(raw) ==
        IF IsRefused(raw) THEN raw
        ELSE [values |-> Defaulted(NonEmpty([i \in DOMAIN raw.values |->
                                               ApplyChain(field.transforms, raw.values[i])]))] IN
  Transformed(SelectFrom(reader, ParsePath(field.path).steps, mapping.max_nodes))

Holds(filter, values) ==
  LET first == IF values = <<>> THEN <<>> ELSE values[1] IN
  CASE filter.op = "equals"      -> Contains(values, filter.value)
    [] filter.op = "not_equals"  -> ~Contains(values, filter.value)
    [] filter.op = "present"     -> values # <<>>
    [] filter.op = "absent"      -> values = <<>>
    [] filter.op = "starts_with" -> IsPrefix(filter.value, first)
    [] filter.op = "contains"    -> \E i \in 0 .. Len(first) : IsPrefix(filter.value, SubSeq(first, i + 1, Len(first)))

Passes(mapping, filter, reader) ==
  LET Verdict(read) == IF IsRefused(read) THEN "failed"
                       ELSE IF Holds(filter, read.values) THEN "passes" ELSE "filtered" IN
  Verdict(SelectFrom(reader, ParsePath(filter.path).steps, mapping.max_nodes))

(* infer: the one observable it can be.                                    *)
Infer(value) ==
  LET readings == {k \in Inferable : Canonical(k, value) # None} IN
  IF Cardinality(readings) = 1 THEN Canonical(CHOOSE k \in readings : TRUE, value) ELSE None

Canonicalise(target, value) ==
  IF target.is = "observable" THEN Canonical(target.kind, value) ELSE Infer(value)

Truthy == {<<"a">>}    \* TRUTHY, "true", "yes", "malicious" and others
Falsy == {<<"b">>}     \* FALSY

Claim(subject, name, says) == << [subject |-> subject, name |-> name, says |-> says] >>

(* claim_for: a claim, nothing where the field is ignored, or a note.      *)
ClaimFor(target, value, subject) ==
  LET Noted == Output(<<>>, <<>>, 1)
      Said(name, says) == Output(Claim(subject, name, says), <<>>, 0)
      folded == EachMark(Trim(value), Fold) IN
  CASE target.is = "ignore"      -> NoOutput
    [] target.is = "attribute"   -> Said(target.name, value)
    [] target.is = "disposition" -> IF folded \in Truthy THEN Said("disposition", "malicious")
                                    ELSE IF folded \in Falsy THEN Said("disposition", "benign") ELSE Noted
    [] target.is \in {"observable", "infer"} ->
         LET o == Canonicalise(target, value) IN IF o = None THEN Noted ELSE Said(target.is, o)

(* What was read for one field, of a record that says `out` so far.        *)
FieldSays(out, field, read, index, subject) ==
  IF IsRefused(read) THEN [out EXCEPT !.notes = @ + 1]
  ELSE IF read.values = <<>> /\ field.required
       THEN [out EXCEPT !.rejected = << [at |-> index, why |-> "required_field_absent"] >>]
  ELSE FoldLeft(Joined, out, [i \in DOMAIN read.values |->
         ClaimFor(field.target, read.values[i], subject)])

(* The fields but the subject, up to one that has to be there and is not.  *)
MapFields(mapping, reader, index, subject) ==
  FoldLeft(LAMBDA out, field :
      IF out.rejected # <<>> \/ field.subject THEN out
      ELSE FieldSays(out, field, ValuesFor(mapping, field, reader), index, subject),
    NoOutput, mapping.fields)

(* Mutant: the claims made before a record is given up are kept.           *)
WholeOrKept(out, subject) ==
  IF out.rejected # <<>> THEN out
  ELSE Joined(out, Output(Claim(subject, "mapping.subject", subject), <<>>, 0))

(* All that a record says of its subject, or, where it lacks what it has   *)
(* to have, none of it.                                                    *)
WholeOrNone(out, subject) ==
  IF out.rejected # <<>> THEN [out EXCEPT !.claims = <<>>]
  ELSE Joined(out, Output(Claim(subject, "mapping.subject", subject), <<>>, 0))

MapAbout(mapping, reader, index, subject) ==
  WholeOrNone(MapFields(mapping, reader, index, subject), subject)

FirstThatStops(verdicts) ==
  LET stopping == SelectSeq(verdicts, LAMBDA v : v # "passes") IN
  IF stopping = <<>> THEN "passes" ELSE Head(stopping)

(* map_one: the first filter that does not pass decides; then the subject, *)
(* of which there has to be one.                                           *)
MapOne(mapping, reader, index) ==
  LET field == SubjectField(mapping)
      About(subject) == IF subject = None THEN RejectedAt(index, "subject_not_canonical")
                        ELSE MapAbout(mapping, reader, index, subject)
      OfSubject(read) ==
        IF IsRefused(read) THEN RejectedAt(index, "path_limit_exceeded")
        ELSE IF read.values = <<>> THEN RejectedAt(index, "no_subject_value")
        ELSE IF Len(read.values) > 1 THEN RejectedAt(index, "ambiguous_subject")
        ELSE About(Canonicalise(field.target, read.values[1]))
      Decided(verdict) ==
        CASE verdict = "filtered" -> NoOutput
          [] verdict = "failed"   -> RejectedAt(index, "filter_evaluation_failed")
          [] verdict = "passes"   -> OfSubject(ValuesFor(mapping, field, reader)) IN
  Decided(FirstThatStops([i \in DOMAIN mapping.filters |-> Passes(mapping, mapping.filters[i], reader)]))

-----------------------------------------------------------------------------
(* finish: a document that said nothing is an error, not an empty answer.  *)
Finish(out, maxRecords) ==
  IF out.claims = <<>> /\ out.rejected = <<>> THEN Refused("matched_nothing")
  ELSE IF Len(out.claims) > maxRecords THEN Refused("record_limit") ELSE out

MapAll(mapping, readers, maxRecords) ==
  Finish(FoldLeft(LAMBDA out, i : Joined(out, MapOne(mapping, readers[i], i - 1)), NoOutput,
                  [i \in DOMAIN readers |-> i]), maxRecords)

(* A record path that selects too much refuses the document.               *)
RecordsIn(mapping, document) ==
  LET steps == ParsePath(mapping.records).steps IN
  IF mapping.records = None THEN [nodes |-> <<document>>]
  ELSE IF mapping.source = "json" THEN SelectJson(document, steps, mapping.max_nodes)
  ELSE SelectElements(document, steps, mapping.max_nodes)

TreeReaders(mapping, nodes) == [i \in DOMAIN nodes |-> [shape |-> mapping.source, value |-> nodes[i]]]

ParseTree(mapping, document, cancelled, maxRecords) ==
  LET Parsed(found) ==
        CASE IsRefused(found)                                            -> found
          [] ~IsRefused(found) /\ Len(found.nodes) > mapping.max_records -> Refused("too_many_records")
          [] OTHER -> IF cancelled /\ found.nodes # <<>> THEN Refused("cancelled")
                      ELSE MapAll(mapping, TreeReaders(mapping, found.nodes), maxRecords) IN
  Parsed(RecordsIn(mapping, document))

(* split_row: a delimiter within quotes is none, a quote doubled within    *)
(* quotes is one.                                                          *)
SplitRow(line, delimiter) ==
  LET end == FoldLeft(LAMBDA s, i :
        CASE s.skip -> [s EXCEPT !.skip = FALSE]
          [] ~s.skip /\ line[i] = "quote" ->
               IF s.quoted /\ i < Len(line) /\ line[i + 1] = "quote"
               THEN [s EXCEPT !.skip = TRUE, !.current = Append(@, "quote")]
               ELSE [s EXCEPT !.quoted = ~@]
          [] ~s.skip /\ line[i] = delimiter /\ ~s.quoted ->
               [s EXCEPT !.fields = Append(@, s.current), !.current = <<>>]
          [] OTHER -> [s EXCEPT !.current = Append(@, line[i])],
        [fields |-> <<>>, current |-> <<>>, quoted |-> FALSE, skip |-> FALSE],
        [i \in DOMAIN line |-> i])
      fields == Append(end.fields, end.current) IN
  [i \in DOMAIN fields |-> Trim(fields[i])]

Written(lines) == SelectSeq(lines, LAMBDA l : Trim(l) # <<>>)

(* The rows under the first line that is written.                          *)
RowReaders(mapping, lines) ==
  LET delimiter == IF mapping.delimiter = None THEN "," ELSE mapping.delimiter
      rows == Tail(Written(lines)) IN
  [i \in DOMAIN rows |-> [shape |-> "csv", headers |-> SplitRow(Written(lines)[1], delimiter),
                          value |-> SplitRow(rows[i], delimiter)]]

(* Rows are scanned up to a bound of the build and one of the mapping.     *)
ParseRows(mapping, lines, cancelled, maxRecords) ==
  LET count == Len(Written(lines)) - 1 IN
  CASE count < 0                  -> Refused("no_header")
    [] count > 0 /\ cancelled     -> Refused("cancelled")
    [] OTHER -> IF count > Min({MaxRowsScanned, mapping.max_records}) THEN Refused("too_many_rows")
                ELSE MapAll(mapping, RowReaders(mapping, lines), maxRecords)

(* The bytes are of the shape the mapping declares, or it is not for them. *)
DetectMapped(mapping, media, marks) ==
  CASE media = "mapping"                     -> "certain"
    [] media # "mapping" /\ marks = None     -> "declined"
    [] OTHER -> IF CASE mapping.source = "json" -> marks \cap {"{", "["} # {}
                     [] mapping.source = "xml"  -> "<" \in marks
                     [] mapping.source = "csv"  -> marks \cap {"{", "[", "<"} = {}
                THEN "strong" ELSE "declined"

(* What is made of a feed says which mapping made it: a step of            *)
(* normalisation, which no step of a later stage may precede.              *)
MappedOrigin(chain, mapping, maxSteps) ==
  IF \/ Len(chain) >= maxSteps
     \/ chain # <<>> /\ Last(chain)[1] \notin
          {"retrieval", "detection", "parsing", "validation", "normalisation"}
  THEN Refused("chain")
  ELSE [chain |-> Append(chain, <<"normalisation", mapping.id, mapping.version>>)]

ParseMapped(mapping, document, bytes, cancelled, limits, chain) ==
  IF bytes > limits.max_bytes THEN Refused("too_large")
  ELSE IF IsRefused(MappedOrigin(chain, mapping, limits.max_steps)) THEN Refused("chain")
  ELSE IF mapping.source = "csv" THEN ParseRows(mapping, document, cancelled, limits.max_records)
  ELSE ParseTree(mapping, document, cancelled, limits.max_records)
=============================================================================
