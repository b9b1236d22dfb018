-------------------------------- MODULE Formats --------------------------------
(***************************************************************************)
(* brolga-ingest: which parser reads a document (detect.rs, registry.rs),  *)
(* and the flat formats it may be read as (formats/delimited.rs).          *)
(*                                                                         *)
(* A piece of text is a record: `reads` gives, for each canonicaliser that *)
(* accepts it, the observable it makes of it; `size` its bytes; `prefixed` *)
(* whether a spreadsheet would take it for a formula; `plain` whether it   *)
(* is free of control characters.                                          *)
(***************************************************************************)
EXTENDS Absence, Integers, FiniteSets, Sequences, SequencesExt, FiniteSetsExt

(* The bounds, scaled down.                                                *)
SniffBytes == 4       \* SNIFF_BYTES, 8192
SniffLines == 3       \* of sniff_delimiter, 10
MaxLineBytes == 6     \* MAX_LINE_BYTES, 1 MiB
MaxFieldBytes == 3    \* limits.input.max_field_bytes

-----------------------------------------------------------------------------
(* What a parser may look at: the head of the document, where it is text.  *)
(* A document is a sequence of one-byte and two-byte characters; a head    *)
(* that ends inside a character is no text at all.                         *)
PrefixStr(hint) ==
  LET ends == {MapThenSumSet(LAMBDA i : hint.widths[i], 1 .. n) : n \in 0 .. Len(hint.widths)} IN
  IF ~hint.utf8 THEN None
  ELSE IF Max(ends) <= SniffBytes \/ SniffBytes \in ends THEN hint.marks ELSE None

Confidences == <<"declined", "weak", "strong", "certain">>
Confidence(c) == CHOOSE i \in DOMAIN Confidences : Confidences[i] = c
IsClaim(c) == c # "declined"

DetectOf(hint, certainMedia, certainMarks, strongMarks) ==
  LET marks == PrefixStr(hint) IN
  CASE hint.media = certainMedia                                 -> "certain"
    [] hint.media # certainMedia /\ marks = None                 -> "declined"
    [] OTHER -> IF certainMarks \cap marks # {} THEN "certain"
                ELSE IF strongMarks \subseteq marks THEN "strong" ELSE "declined"

DetectStix(hint) ==
  LET said == DetectOf(hint, "stix", {"bundle"}, {"spec_version"}) IN
  IF said = "declined" /\ PrefixStr(hint) # None /\ hint.extension = "stix" THEN "strong" ELSE said
DetectOpenIoc(hint) == DetectOf(hint, "openioc", {"mandiant"}, {"<ioc", "IndicatorItem"})
DetectIodef(hint) == DetectOf(hint, "iodef", {"IODEF-Document"}, {"iodef", "<Incident"})

(* A media type of another family is believed before the content is.       *)
DetectSigma(hint) ==
  LET marks == PrefixStr(hint) IN
  CASE hint.media = "sigma"                                      -> "certain"
    [] hint.media \in {"json", "ndjson", "stix", "openioc", "iodef"}       -> "declined"
    [] OTHER -> IF marks # None /\ marks \cap {"{", "["} = {} /\ {"logsource", "detection"} \subseteq marks
                THEN "certain" ELSE "declined"

DetectDelimited(hint) ==
  LET marks == PrefixStr(hint) IN
  IF marks = None \/ (marks \cap {"{", "["} # {}) THEN "declined"
  ELSE IF hint.media \in {"csv", "tsv"} THEN "certain"
  ELSE IF hint.extension \in {"csv", "tsv"} THEN "strong"
  ELSE IF "delimited" \in marks THEN "strong"
  ELSE IF "bare-indicator" \in marks THEN "weak" ELSE "declined"

DetectJsonLines(hint) ==
  LET marks == PrefixStr(hint) IN
  IF marks = None \/ "bundle" \in marks THEN "declined"
  ELSE IF hint.media = "ndjson" \/ hint.extension = "ndjson" THEN "certain"
  ELSE IF "[" \in marks THEN "strong"
  ELSE IF "{" \in marks THEN IF "many-lines" \in marks THEN "strong" ELSE "weak"
  ELSE "declined"

(* In the order of their identifiers, as the registry keeps them.          *)
ParserIds == <<"brolga.detection.sigma", "brolga.flat.delimited", "brolga.flat.json",
               "brolga.stix.bundle", "brolga.xml.iodef", "brolga.xml.openioc">>
Detect(hint) == <<DetectSigma(hint), DetectDelimited(hint), DetectJsonLines(hint),
                  DetectStix(hint), DetectIodef(hint), DetectOpenIoc(hint)>>

(* Two that cannot both be right are a contradiction; below that the       *)
(* strongest wins, and the first of them by name.                          *)
Select(claims) ==
  LET certain == {i \in DOMAIN claims : claims[i] = "certain"}
      best == Max({Confidence(claims[i]) : i \in DOMAIN claims}) IN
  CASE Cardinality(certain) > 1                                 -> "ambiguous_format"
    [] Cardinality(certain) <= 1 /\ ~IsClaim(Confidences[best]) -> "unknown_format"
    [] OTHER -> ParserIds[Min({i \in DOMAIN claims : Confidence(claims[i]) = best})]

-----------------------------------------------------------------------------
(* infer: certain only when one canonicaliser alone accepts it.            *)
Inferred(text) ==
  IF Cardinality(DOMAIN text.reads) = 1 THEN "confident"
  ELSE IF text.reads = <<>> THEN "none" ELSE "ambiguous"
IsUsable(text) == Inferred(text) = "confident"
TheKind(text) == CHOOSE k \in DOMAIN text.reads : TRUE

Separators == <<"tab", "semicolon", "comma">>
IsSkipped(line) == line.blank \/ line.comment

(* What separates the columns is there as often on every line of the head. *)
SniffDelimiter(lines) ==
  LET data == SelectSeq(lines, LAMBDA l : ~IsSkipped(l))
      sample == SubSeq(data, 1, Min({SniffLines, Len(data)}))
      Count(l, d) == Len(l.split[d]) - 1
      Consistent(d) == \A i \in DOMAIN sample : Count(sample[i], d) = Count(sample[1], d) IN
  IF sample = <<>> THEN "none"
  ELSE FoldLeft(LAMBDA best, d :
         IF Consistent(d) /\ Count(sample[1], d) > best.count
         THEN [of |-> d, count |-> Count(sample[1], d)] ELSE best,
         [of |-> "none", count |-> 0], Separators).of

FromHeader(fields) == [i \in DOMAIN fields |-> fields[i].names]
KindAt(columns, i) == IF columns # None /\ i \in DOMAIN columns THEN columns[i] ELSE None

LooksLikeAFormula(text) == text.prefixed /\ text.size > 1 /\ "ip-address" \notin DOMAIN text.reads

Nothing == [records |-> <<>>, rejected |-> <<>>]
Rejected(offset, why) == [records |-> <<>>, rejected |-> <<[at |-> offset, why |-> why]>>]
Both(a, b) == [records |-> a.records \o b.records, rejected |-> a.rejected \o b.rejected]

(* A formula's claim says that it is one, and not what it was.             *)
ClaimOf(text, kind) ==
  IF ~text.plain THEN Nothing
  ELSE [rejected |-> <<>>, records |-> <<[about |-> text.reads[kind],
          name |-> IF LooksLikeAFormula(text) THEN "spreadsheet_formula_prefix" ELSE kind]>>]

(* Mutant: what could be two things is taken for one of them.              *)
MapFieldGuessing(text, kind, offset) ==
  IF text.reads = <<>> \/ text.size > MaxFieldBytes THEN Nothing ELSE ClaimOf(text, TheKind(text))

(* One field: of the kind its column has, or of the only one it can have.  *)
MapField(text, kind, offset) ==
  CASE text.size = 0                                    -> Nothing
    [] text.size > MaxFieldBytes                        -> Rejected(offset, "field_too_long")
    [] text.size \in 1 .. MaxFieldBytes /\ kind # None  ->
         IF kind \in DOMAIN text.reads THEN ClaimOf(text, kind) ELSE Rejected(offset, "unmappable_field")
    [] OTHER -> CASE Inferred(text) = "confident" -> ClaimOf(text, TheKind(text))
                  [] Inferred(text) = "ambiguous" -> Rejected(offset, "ambiguous_inference")
                  [] Inferred(text) = "none"      -> Nothing

MapRow(fields, columns, offset) ==
  FoldLeft(LAMBDA out, i : Both(out, MapField(fields[i], KindAt(columns, i), offset)),
           Nothing, [i \in DOMAIN fields |-> i])

-----------------------------------------------------------------------------
Failed(state, why) == [state EXCEPT !.error = [at |-> state.offset, why |-> why]]
Past(state, line) == [state EXCEPT !.offset = @ + line.size]

(* The first row is a header only when nothing on it could be data.        *)
IsHeader(state, delimiter, fields) ==
  /\ ~state.headed
  /\ delimiter # "none"
  /\ \A i \in DOMAIN fields : ~IsUsable(fields[i])

HeaderRow(state, fields) ==
  LET derived == FromHeader(fields) IN
  [state EXCEPT !.headed = TRUE,
     !.columns = IF @ = None /\ \E i \in DOMAIN derived : derived[i] # None THEN derived ELSE @]

DataRow(state, fields, maxRecords) ==
  IF state.rows + 1 > maxRecords THEN Failed(state, "record_limit")
  ELSE [state EXCEPT !.headed = TRUE, !.rows = @ + 1,
          !.out = Both(@, MapRow(fields, state.columns, state.offset))]

ReadLine(state, line, delimiter, cancelled, maxRecords) ==
  CASE cancelled                                       -> Failed(state, "cancelled")
    [] ~cancelled /\ line.size > MaxLineBytes          -> Failed(state, "line_too_long")
    [] ~cancelled /\ line.size <= MaxLineBytes /\ IsSkipped(line) -> Past(state, line)
    [] OTHER ->
         LET fields == line.split[delimiter]
             next == IF IsHeader(state, delimiter, fields) THEN HeaderRow(state, fields)
                     ELSE DataRow(state, fields, maxRecords) IN
         IF next.error # None THEN next ELSE Past(next, line)

(* DelimitedParser::parse.  `cancelAt` is the line the token is found      *)
(* cancelled at; a document that fails, fails with all its rows.           *)
ParseDelimited(lines, given, cancelAt, maxRecords) ==
  LET delimiter == SniffDelimiter(lines)
      end == FoldLeft(LAMBDA s, i : IF s.error # None THEN s
                        ELSE ReadLine(s, lines[i], delimiter, i = cancelAt, maxRecords),
               [offset |-> 0, rows |-> 0, headed |-> FALSE, columns |-> given, out |-> Nothing,
                error |-> None], [i \in DOMAIN lines |-> i]) IN
  IF end.error # None THEN end.error ELSE end.out

-----------------------------------------------------------------------------
(* A JSON record: the strings of an object are fields without a column.    *)
MapJsonRecord(record, offset) ==
  IF record = None THEN Rejected(offset, "not_an_object")
  ELSE FoldLeft(LAMBDA out, text :
         Both(out, CASE Inferred(text) = "ambiguous" -> Rejected(offset, "ambiguous_inference")
                     [] Inferred(text) = "confident" ->
                          IF text.plain THEN [rejected |-> <<>>, records |->
                               <<[about |-> text.reads[TheKind(text)], name |-> TheKind(text)]>>]
                          ELSE Nothing
                     [] Inferred(text) = "none"      -> Nothing),
         Nothing, record)

(* An array is counted before it is read, and never cancelled.             *)
ParseJsonArray(records, maxRecords) ==
  IF Len(records) > maxRecords THEN [at |-> None, why |-> "record_limit"]
  ELSE FoldLeft(LAMBDA out, i : Both(out, MapJsonRecord(records[i], i - 1)),
                Nothing, [i \in DOMAIN records |-> i])

ReadJsonLine(state, line, cancelled, maxRecords) ==
  CASE cancelled                                   -> Failed(state, "cancelled")
    [] ~cancelled /\ line.blank                    -> Past(state, line)
    [] ~cancelled /\ ~line.blank /\ line.size > MaxLineBytes -> Failed(state, "line_too_long")
    [] OTHER ->
         IF state.rows + 1 > maxRecords THEN Failed(state, "record_limit")
         ELSE Past([state EXCEPT !.rows = @ + 1,
                !.out = Both(@, IF line.malformed THEN Rejected(state.offset, "malformed_json_line")
                                ELSE MapJsonRecord(line.record, state.offset))], line)

ParseJsonLines(lines, cancelAt, maxRecords) ==
  LET end == FoldLeft(LAMBDA s, i : IF s.error # None THEN s
                        ELSE ReadJsonLine(s, lines[i], i = cancelAt, maxRecords),
               [offset |-> 0, rows |-> 0, out |-> Nothing, error |-> None],
               [i \in DOMAIN lines |-> i]) IN
  IF end.error # None THEN end.error ELSE end.out
=============================================================================
