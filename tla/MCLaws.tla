-------------------------------- MODULE MCLaws --------------------------------
(***************************************************************************)
(* Instances of Laws: of each topic, samples small enough to take them all *)
(* and varied enough that each branch of the algorithm is taken by some.   *)
(***************************************************************************)
EXTENDS Readings, TLC

UpTo(n, S) == UNION {[1 .. k -> S] : k \in 1 .. n}
Partial(D, S) == UNION {[d -> S] : d \in SUBSET D}
Singly(k, v) == [x \in {k} |-> v]

MCResolvable ==
  [i \in 1 .. 3 |->
     [id |-> i, kind |-> "actor", name |-> [key |-> IF i = 3 THEN "z" ELSE "y", tokens |-> {"t"}],
      external_ids |-> IF i = 3 THEN <<>> ELSE [mitre |-> "G1"], marked |-> {}, sources |-> {}]]

MCEntries ==
  {[source |-> 1, parser |-> "p", version |-> 1, stage |-> "parsing", reason_kind |-> "bad",
    reason |-> r, index |-> i, offset |-> 4, fragment |-> <<"a", "control", "b", "c", "d">>] :
      r \in {"one", "two"}, i \in {None, 1}}
MCDecisions ==
  {[kind |-> "merge", subject |-> 1, observation |-> 1, compared_with |-> None, actor |-> a,
    verdict |-> v, algorithm |-> 1, reason |-> "", policy_context |-> "p"] :
      a \in {None, "a"}, v \in {"yes", "no"}}

-----------------------------------------------------------------------------
Prints ==
  {[class |-> "entity", status |-> s, facets |-> [kind |-> "actor", status |-> s]] :
      s \in {"active", "revoked"}}
Snapshots(successions) ==
  {[records |-> r, successions |-> s, shape |-> 1, algorithm_version |-> 1, versions |-> <<>>,
    configuration |-> 1, sources |-> {}, truncated |-> {}, withheld |-> 0, unrecognised |-> {}] :
      r \in Partial(1 .. 3, Prints), s \in successions}
Successions == {<<>>, Singly(1, CP!IntoRecords({2})), Singly(1, CP!IntoRecords({2, 3}))}
Compares ==
  [before : Snapshots({<<>>}), after : Snapshots(Successions), cancelledAt : {2, 9},
   limits : {[max_records |-> 9, max_changes |-> 1], [max_records |-> 2, max_changes |-> 9]}]

Captured(class, differing) == [r \in DOMAIN differing \union DOMAIN class |-> IF r \in DOMAIN differing THEN differing[r] ELSE class[r]]
AnEntity ==
  [kind |-> "actor", name |-> "n", aliases |-> {}, valid_from |-> None, valid_until |-> None, status |-> "active",
   confidence |-> 40, markings |-> {}, source_objects |-> {}, description |-> "d"]
AnEdge ==
  [kind |-> "uses", source |-> 1, target |-> 2, valid_from |-> None, valid_until |-> None, status |-> "active",
   confidence |-> 40, markings |-> {}, source_objects |-> {}, observed |-> 1]
Differing ==
  {<<>>, [status |-> "revoked"], [confidence |-> 59], [confidence |-> 60], [confidence |-> None], [valid_until |-> 1],
   [markings |-> {"red"}], [source_objects |-> {1}], [kind |-> "other"]}
Versions == {[versions |-> <<>>, configuration |-> 1], [versions |-> [capture |-> 2], configuration |-> 1]}
RecapturesOf(class, record, differing) ==
  [class : {class}, was : {record}, is : {Captured(record, d) : d \in differing}, made : Versions \X Versions]
Recaptures ==
  RecapturesOf("entity", AnEntity, Differing \union {[name |-> "m"], [aliases |-> {"m"}], [description |-> "e"]})
  \union RecapturesOf("relationship", AnEdge, Differing \union {[target |-> 3], [observed |-> 2]})
  \union RecapturesOf("observable", [observed |-> 1], {[observed |-> 2], <<>>})

Timelines ==
  {Singly("observed", 1), Singly("observed", 9), <<>>, Singly("valid_until", 4),
   [observed |-> 9, modified |-> 1], [last_seen |-> 1, modified |-> 3, valid_until |-> 40]}
Ages ==
  [future : {"rejected", "accepted"}, soon : {4, 30}, late : {30, 60, 400},
   inputs : [now : {0}, timeline : Timelines, kind : {"url", "file_hash", "other"}, exempt : BOOLEAN,
             status : {"active", "revoked", "expired"}, asserted : {None, 0, 1, 80}]]

Assertions ==
  {[is |-> "disposition", value |-> v] : v \in Range(AS!Dispositions)}
  \union {[is |-> "attribute", name |-> "family", value |-> v] : v \in {"x", "y"}}
Claimed(id, publishers, stances, times, tlps) ==
  {AS!FromClaim([id |-> id, subject |-> 1, assertion |-> c[1], status |-> c[2], last_seen |-> c[3], tlp |-> c[4]],
                c[5], c[6]) :
     c \in Assertions \X {"active", "revoked", "superseded"} \X times \X tlps \X stances \X publishers}
Pairs == Claimed(2, {"p"}, {"reported", "analyst"}, {None, 1}, {None})
         \X Claimed(1, {"p", "q"}, AS!Stances, {1, 2}, {None, "red"})

Confident ==
  [source_reliability : {None, 40}, information_credibility : {None, 80}, corroboration : {None, 0, 2},
   observed_at : {None, 1}, now : {50}, kind : {"url"}, stance : {"observed", "unstated"},
   status : {"active", "revoked"}, contradictions : {{}, {[relation |-> "agrees"]}},
   override : {AS!NewOverride(10, a, "p") : a \in {"a", ""}}]

Marks == {PO!Tlp("green"), PO!Tlp("red"), PO!Tlp("later"), PO!Pap("amber"), PO!Pap("red"), PO!Handling("h"),
          PO!Attribution("o")}
Marked2 == {{m[1], m[2]} : m \in Marks \X Marks} \union {{}}
Merging ==
  [identity : {PO!Anonymous, PO!LocalOperator, PO!WithMaxTlp(PO!Anonymous, "amber"),
               PO!ClearedFor(PO!WithCapability(PO!LocalOperator, "read"), "h")},
   capability : {"read", "redistribute"}, a : Marked2, b : Marked2]

Observations ==
  {[publisher |-> p, content |-> c, record |-> IF c = 3 THEN "y" ELSE "x"] : p \in {"p", "q"}, c \in 1 .. 3}

-----------------------------------------------------------------------------
Value(kind, of) == [kinds |-> Singly(kind, of)]
Compared(path, value) == path \o << [mark |-> "="], [quoted |-> value] >>
Ip == << [word |-> "ipv4-addr:value"] >>
Domain == << [word |-> "domain-name:value"] >>
Sha == << [word |-> "file:hashes."], [quoted |-> "SHA-256"] >>
Comparisons ==
  {Compared(Ip, Value("ip-address", "i")), Compared(Domain, Value("domain-name", "d")),
   Compared(Sha, Value("sha-256", "s")), Compared(Ip, Value("domain-name", "d")),
   Compared(<< [word |-> "process:name"] >>, Value("domain-name", "d"))}
Marked(m) == << [mark |-> m] >>
Chunks == Comparisons \union {Marked(m) : m \in {"OR", "AND", "=", "]"}} \union {<< [word |-> "x"] >>}
Patterns ==
  {[tokens |-> Marked("[") \o FlattenSeq(c)] : c \in UpTo(4, Chunks)}
  \union {[tokens |-> Marked("[") \o c[1] \o Marked("OR") \o c[2] \o Marked("OR") \o c[3] \o Marked("]")] :
            c \in [1 .. 3 -> Comparisons]}

Words(size, reads, names, prefixed) ==
  [size |-> size, reads |-> reads, names |-> names, prefixed |-> prefixed, plain |-> TRUE]
One == [domain |-> "d"]
Two == [domain |-> "d", file |-> "f"]
Pool == {Words(0, <<>>, None, FALSE), Words(2, <<>>, "domain", FALSE), Words(2, One, None, FALSE),
         Words(2, Two, None, FALSE), Words(4, Two, None, FALSE), Words(2, One, None, TRUE)}
LineOf(fields, comment) ==
  [blank |-> FALSE, comment |-> comment, size |-> 3,
   split |-> [d \in {"tab", "semicolon", "comma", "none"} |->
                IF d = "comma" \/ Len(fields) = 1 THEN fields ELSE << Words(4, <<>>, None, FALSE) >>]]
Flats ==
  [lines : {<<LineOf(a, c), LineOf(b, FALSE)>> : a \in UpTo(2, Pool), b \in UpTo(2, Pool), c \in BOOLEAN},
   given : {None}, cancelAt : {0}, max_records : {9}]
  \union [lines : {<<LineOf(a, FALSE)>> : a \in UpTo(2, Pool)}, given : {None, <<"domain">>},
          cancelAt : {0, 1}, max_records : {0, 1}]

JsonLines ==
  [blank : {FALSE}, malformed : BOOLEAN, size : {1, 7},
   record : {None} \union UpTo(1, Pool) \union {<<Words(2, Two, None, FALSE), Words(2, One, None, FALSE)>>}]
Jsons == [lines : UpTo(2, JsonLines), cancelAt : {0, 2}, max_records : {1, 9}]

Shapes == [media : {"mapping", "none"}, marks : {None, {}, {"{"}, {"["}, {"<"}}]

Hints ==
  [media : {"stix", "openioc", "iodef", "sigma", "csv", "ndjson", "json", "none"},
   extension : {"none", "csv", "stix"}, widths : {<<1, 2>>, <<1, 1, 1, 2, 1>>}, utf8 : BOOLEAN,
   marks : {{}, {"{", "bundle"}, {"{", "spec_version", "many-lines"}, {"["}, {"mandiant"}, {"<ioc", "IndicatorItem"},
            {"IODEF-Document", "mandiant"}, {"logsource", "detection"}, {"delimited"}, {"bare-indicator"}}]

-----------------------------------------------------------------------------
Item(name, equality, kind, string, value) ==
  [name |-> name, equality |-> equality, kind |-> kind, string |-> string, value |-> value, complete |-> TRUE]
Items ==
  {Item("a", TRUE, "ip-address", TRUE, Value("ip-address", "i")), Item("b", FALSE, "ip-address", TRUE, Value("ip-address", "i")),
   Item("c", TRUE, None, TRUE, Value("domain-name", "d")), Item("d", TRUE, "ip-address", TRUE, Value("domain-name", "d")),
   Item("e", TRUE, "domain-name", FALSE, Value("domain-name", "d"))}
Rule(readable, mapping, title, detection, tags, items) ==
  [readable |-> readable, mapping |-> mapping, id |-> None, title |-> title, detection |-> detection,
   tags |-> tags, selections |-> <<items>>, status |-> "deprecated", fields |-> {"author"}]
Tag(technique) == [technique |-> technique]
Rules ==
  {Rule(TRUE, TRUE, "r", TRUE, <<Tag("T1"), Tag(None)>>, items) : items \in UpTo(2, Items)}
  \union {Rule(FALSE, TRUE, "r", TRUE, <<>>, <<>>), Rule(TRUE, FALSE, "r", TRUE, <<>>, <<>>),
          Rule(TRUE, TRUE, None, TRUE, <<>>, <<>>), Rule(TRUE, TRUE, "r", FALSE, <<>>, <<>>),
          Rule(TRUE, TRUE, "r", TRUE, [i \in 1 .. 3 |-> Tag(None)], <<>>)}
RuleFiles == UpTo(2, Rules) \union [1 .. 3 -> {Rule(FALSE, TRUE, "r", TRUE, <<>>, <<>>)}]

Incomplete == [i \in 1 .. 1 |-> [Item("a", TRUE, "ip-address", TRUE, Value("ip-address", "i")) EXCEPT !.complete = FALSE]]
Incidents ==
  UpTo(2, [authority : {"cert"}, number : {None, 1}, fields : {{"purpose"}},
           items : UpTo(2, Items) \union {Incomplete}])

XmlEvents == UpTo(6, {"start", "empty", "end"}) \union UpTo(4, {"start", "empty", "end", "text", "doctype"})

-----------------------------------------------------------------------------
AMark(is) == [is |-> is]
AWord(text) == [is |-> "word", text |-> text]
Compares1(field, op, value) == <<AWord(field), AMark(op), value>>
Plain == {Compares1("kind", "=", AWord("actor")), Compares1("status", "=", [is |-> "quoted", text |-> "active"]),
          <<AMark("and")>>, <<AMark("(")>>, <<AMark(")")>>}
Odd == Plain \union {Compares1("kind", "=", AWord("tool")), Compares1("kind", "!=", AWord("actor")),
                     Compares1("kind", "=", AWord("nobody")), Compares1("colour", "=", AWord("red")),
                     <<AMark("or")>>, <<AMark("=")>>, <<AMark("space")>>, <<AMark("bad")>>, <<AWord("kind")>>}
Bounded(many, deep, bytes) == [max_tokens |-> many, max_depth |-> deep, max_input_bytes |-> bytes]
MCTable == [i \in 1 .. 4 |-> [kind |-> IF i <= 2 THEN "actor" ELSE "tool", last_seen |-> None,
                              status |-> IF i % 2 = 0 THEN "active" ELSE "revoked"]]
Searches ==
  {[input |-> FlattenSeq(chunks), limits |-> l, table |-> MCTable] :
     chunks \in UpTo(6, Plain) \union UpTo(3, Odd), l \in {Bounded(99, 9, 99), Bounded(99, 2, 9), Bounded(7, 9, 99)}}

-----------------------------------------------------------------------------
Spelled(rest) ==
  {[size |-> s, control |-> c, padded |-> p, upper |-> u] @@ r :
     s \in {0, 2, 5}, c \in BOOLEAN, p \in BOOLEAN, u \in BOOLEAN, r \in rest}
Of(kind, rest) == [kind : {kind}, text : Spelled(rest)]
Addressed(families, bitses, prefixes) ==
  [family : families, bits : bitses, prefix : prefixes, holds_v4 : BOOLEAN]
Label(n, letters, digits) == [size |-> n, letters |-> letters, digits |-> digits]
Named ==
  [labels : UpTo(3, {Label(2, TRUE, FALSE), Label(2, TRUE, TRUE), Label(4, TRUE, FALSE)}), dot : BOOLEAN,
   at : 0 .. 2, local : {"", "Me"}]
Networks ==
  {a @@ [labels |-> l, dot |-> FALSE, at |-> n, local |-> "Me", slash |-> s, scheme_mark |-> m,
         scheme |-> "http", host |-> h] :
     a \in Addressed({"v4", "none"}, {5}, {None, 1}), l \in UpTo(2, {Label(2, TRUE, FALSE)}), n \in 0 .. 1,
     s \in BOOLEAN, m \in BOOLEAN, h \in {None, "h"}}
PartedAs(kind) ==
  Of(kind, {[parts |-> p] : p \in
    [CA!PartsOf(kind) -> {None} \union [word : {"w"}, upper : BOOLEAN] \union {[word |-> "", upper |-> FALSE]}]})
Canons ==
  Of("ip", Addressed({"v4", "v6", "none"}, {3, 5}, {None, 1}))
  \union Of("range", Addressed({"v4"}, 0 .. 7, {None} \union 0 .. 4))
  \union Of("range", Addressed({"v6"}, {5, 8}, {0, 2, 4, 5}))
  \union Of("domain", Named) \union Of("email", Named) \union Of("network", Networks)
  \union Of("url", [scheme : {"http", "gopher"}, host : {None, "h"}])
  \union Of("hash", [digits : 1 .. 5, hex : BOOLEAN, stated : {None, "md5", "sha256", "crc"}, of : {"h"}])
  \union Of("file", [separator : {None, "/"}, of : {"f"}])
  \union Of("path", [drive : {None, "c"}, unc : BOOLEAN, separator : {"/", "\\"}, of : {<<"f">>}])
  \union Of("cve", [prefix : {"CVE", "X"}, year : {2, 4}, digits : {3, 4}, of : {1}])
  \union Of("cwe", [prefix : {"CWE"}, digits : 0 .. 2, of : {1}])
  \union Of("attack", [prefix : {"T", "TA", "X"}, digits : {3, 4}, of : {1}, sub : {None, 2, 3}])
  \union Of("time", [at : {1, 5}, offset : {None, 0, 2}])
  \union Of("mac", [octets : {5, 6}, hex : BOOLEAN, separator : {":", "-"}, of : {1}])
  \union UNION {PartedAs(k) : k \in {"cpe", "purl", "image", "azure", "gcp", "kubernetes"}}

-----------------------------------------------------------------------------
Steps(name) == [name |-> name, attribute |-> FALSE, brackets |-> <<>>]
PathOf(name) == [size |-> 1, marks |-> {}, segments |-> <<Steps(name)>>]
Field(name, target, subject, required, transforms, default) ==
  [path |-> PathOf(name), target |-> target, subject |-> subject, required |-> required,
   transforms |-> transforms, default |-> default]
MappingsOf(source, records, ceilings) ==
  [schema : {"brolga.mapping/1.0"}, id : {"m"}, version : {1}, source : {source}, records : {records},
   delimiter : {None}, max_records : {4}, max_nodes : ceilings,
   fields : {<<Field("v", t, TRUE, FALSE, <<[op |-> "trim"]>>, d),
               Field("n", [is |-> "attribute", name |-> "n"], FALSE, FALSE, <<[op |-> "uppercase"]>>, None),
               Field("m", [is |-> "disposition"], FALSE, TRUE, <<>>, None)>> :
               t \in {[is |-> "infer"], [is |-> "observable", kind |-> "url"]}, d \in {None, <<"a">>}},
   filters : {<<>>, << [path |-> PathOf("n"), op |-> "absent", value |-> None] >>,
              << [path |-> PathOf("v"), op |-> "not_equals", value |-> <<"a">>] >>}]

Scalar(text) == [is |-> "scalar", text |-> text]
Cells == [v : {None, <<"a">>, <<"c", " ">>}, n : {None, <<"b">>}, m : {None, <<"b">>, <<"x">>}]
Present(cell) == SelectSeq(<<"v", "n", "m">>, LAMBDA f : cell[f] # None)
JsonOf(cells) ==
  [is |-> "object", kids |-> << [name |-> "r", node |-> [is |-> "array", kids |->
     [i \in DOMAIN cells |-> [name |-> "", node |-> [is |-> "object", kids |->
        [j \in DOMAIN Present(cells[i]) |->
           [name |-> Present(cells[i])[j], node |-> Scalar(cells[i][Present(cells[i])[j]])]]]]]]] >>]
Element(name, text, kids) == [name |-> name, text |-> text, attributes |-> <<>>, kids |-> kids]
XmlOf(cells) ==
  Element("doc", <<>>, [i \in DOMAIN cells |-> Element("r", <<>>,
     [j \in DOMAIN Present(cells[i]) |-> Element(Present(cells[i])[j], cells[i][Present(cells[i])[j]], <<>>)])])
CsvOf(cells) ==
  LET Cell(t) == IF t = None THEN <<>> ELSE <<"quote">> \o t \o <<"quote">> IN
  << <<"v", ",", "n", ",", "m">>, <<" ">> >>
  \o [i \in DOMAIN cells |-> Cell(cells[i].v) \o <<",">> \o Cell(cells[i].n) \o <<",">> \o Cell(cells[i].m)]
Everywhere == [size |-> 2, marks |-> {}, segments |-> << [Steps("r") EXCEPT !.brackets = << [wildcard |-> TRUE] >>] >>]
MappingLimits(n) == {[max_bytes |-> 9, max_records |-> n, max_steps |-> 2]}
Mappings ==
  [mapping : MappingsOf("json", Everywhere, {5, 9}), document : {JsonOf(c) : c \in UpTo(2, Cells)},
   limits : MappingLimits(9)]
  \union [mapping : MappingsOf("xml", PathOf("r"), {9}), document : {XmlOf(c) : c \in UpTo(1, Cells)},
          limits : MappingLimits(2)]
  \union [mapping : MappingsOf("csv", None, {9}), document : {CsvOf(c) : c \in UpTo(2, Cells)},
          limits : MappingLimits(9)]

-----------------------------------------------------------------------------
Secret(name, from) == <<"secrets", name, from>>
Leaves ==
  {<< <<"logging", "level">>, SE!Text("debug") >>, << <<"logging", "level">>, SE!Text("loud") >>,
   << <<"logging">>, SE!EmptyMapping >>, << <<"logging">>, SE!Text("x") >>,
   << <<"logging", "level">>, SE!EmptyMapping >>, << <<"logging", "level", "deep">>, SE!Number(1) >>,
   << <<"secrets">>, SE!EmptyMapping >>, << Secret("k", "from_env"), SE!Text("E") >>,
   << Secret("k", "from_file"), SE!Text("f") >>, << <<"limits", "max_input_bytes">>, SE!Number(2) >>,
   << <<"limits", "max_input_bytes">>, SE!Number(9) >>}
Layer(leaves) == [p \in {l[1] : l \in leaves} |-> (CHOOSE l \in leaves : l[1] = p)[2]]
Layers1 == {Layer({l}) : l \in Leaves}
Layers2 == {Layer({p[1], p[2]}) : p \in {q \in Leaves \X Leaves : ~SE!Comparable(q[1][1], q[2][1])}}
LayerSamples == UpTo(2, Layers1 \union Layers2) \union [1 .. 3 -> Layers1]

Scanned == {"'", "#", "&", " ", "x"}
Written1 == [line : UpTo(5, Scanned), size : {1}, values : {<<>>}, format : {"yaml"}]
            \union [line : UpTo(3, Scanned), size : {4, 5}, format : {"yaml", "toml"},
                    values : {None, Layer({<< <<"logging">>, SE!Text("x") >>}), Layer({<< <<>>, SE!Text("x") >>}),
                              Layer({<< [i \in 1 .. 4 |-> "deep"], SE!Number(1) >>})}]

Profile(name, inherits, sections) ==
  [name |-> name, inherits |-> inherits, sections |-> sections, weights |-> <<>>,
   allocation |-> [findings |-> 60], environments |-> {}]
Tables == Partial({"findings", "markings"}, {"required", "excluded"})
Profiles ==
  {[name |-> "a", set |-> [a |-> Profile("a", "b", x), b |-> Profile("b", i, y), c |-> Profile("c", None, z)]] :
     i \in {None, "a", "c", "d"}, x \in Tables, y \in Tables, z \in Tables}

Address(scheme, host, userinfo) ==
  [scheme |-> scheme, host |-> host, userinfo |-> userinfo, absolute |-> TRUE]
Secure == Address("https", "out", FALSE)
Plaintext == Address("http", "out", FALSE)
Inside == Address("https", "in", FALSE)
Reached == {Secure, Plaintext, Inside}
Reply(status, location, size) == [status |-> status, location |-> location, size |-> size]
Answers ==
  {Reply(200, None, 1), Reply(200, None, 5), Reply(None, None, 0), Reply(404, None, 1), Reply(302, None, 0),
   Reply(302, Address(None, None, FALSE), 0), Reply(302, Address("https", "out", TRUE), 0)}
  \union {Reply(302, u, 0) : u \in Reached}

(* A host is looked up for the check and again for the connection: it      *)
(* stays where it is, or it is moved between the two.                      *)
Public == [category |-> "public"]
Private == [mapped |-> "private"]
Staying == [out |-> [checked |-> {Public}, connected |-> Public],
            in |-> [checked |-> {Private, Public}, connected |-> Private]]
Moving == [out |-> [checked |-> {Public}, connected |-> Private],
           in |-> [checked |-> {Public}, connected |-> Private]]
Fetches ==
  [start : {Secure, Inside}, replies : [Reached -> Answers],
   lookups : {<<Staying, Staying, Staying>>, <<Moving, Staying, Moving>>, <<Staying, Moving, Moving>>},
   policy : UNION {{[p EXCEPT !.allow_plaintext_http = c[1], !.allow_redirect_downgrade = c[2], !.max_redirects = c[3]] :
                      c \in BOOLEAN \X BOOLEAN \X {0, 2}} : p \in {Strict, InternalNetwork}}]

LimitsSet ==
  {[part |-> n[1], name |-> n[2], value |-> v] :
     n \in UNION {{p} \X DOMAIN ResourceBounds[p] : p \in DOMAIN ResourceBounds}, v \in 0 .. 5}
Expansions == [ratio : 2 .. 4, input : 0 .. 9, output : 0 .. Word]

-----------------------------------------------------------------------------
Candidates(id) ==
  [id : {id}, factors : {[confidence |-> 10], [confidence |-> 90]}, protected : BOOLEAN,
   cluster_key : {None, "k"}]
Ranks ==
  [candidates : Candidates(1) \X Candidates(2) \X Candidates(3), keep : 0 .. 2,
   weights : {RK!Balanced, RK!NoWeights}]
BudgetItem(id, relationship) ==
  [id : {id}, section : {"s", "t"}, bytes : {1, 5}, is_relationship : {relationship}, required : BOOLEAN]
Budget(dimension, n) == [RK!Unlimited EXCEPT ![dimension] = n]
Fits ==
  [items : BudgetItem(1, FALSE) \X BudgetItem(2, TRUE) \X BudgetItem(3, FALSE), lateFrom : {2, 9},
   limits : {Budget("tokens", 2), Budget("bytes", 6), Budget("objects", 1), Budget("relationships", 0),
             Budget("time_ms", 1), RK!Unlimited}]

Counted == [included : 0 .. 1, clustered : {0}, dropped : 0 .. 1, canonical_records : 0 .. 2,
            evidence_before : {0, 3}, evidence_after : {0, 2, 3}, contradictions_before : {0, 1, 3},
            contradictions_after : {0, 1, 2, 3, 9}, source_bytes : {0, 3}, output_bytes : {1, 3, 4}]
Qualities == [report : Counted, floor : {50, 100}]

SeenTimes == {None, 1, 3, 9}
ClaimsRanked ==
  [claim : [id : {1}, subject : {1, 2}, sources : {{}, {"s"}, {"s", "t"}, {"s", "t", "u", "v", "w"}},
            confidence : {None, 60}, status : {"active", "revoked"}, last_seen : SeenTimes,
            first_seen : {None, 2}, valid_from : {None, 2}],
   now : {4}, exact : {{}, {1}}]

-----------------------------------------------------------------------------
Characters == {"1", "2", ":"}
Parts == UpTo(2, {<<>>} \union UpTo(2, Characters))
Named2 == {p \in Parts \X Parts : Len(FlattenSeq(p[1])) = Len(FlattenSeq(p[2]))}

Times == {[first_seen |-> None, last_seen |-> None, valid_from |-> f, valid_until |-> u] : f, u \in {None, 1, 2}}
Timed(records) == {r @@ [temporal |-> t] : r \in records, t \in Times}
Undated(records) == {r @@ [temporal |-> CHOOSE t \in Times : TRUE] : r \in records}
RecordsOfClass ==
  [relationship |-> [kind : {"uses", "related_to", "duplicate_of"}, source : 1 .. 3, target : 1 .. 3],
   claim |-> [subject : {1, 2}, assertion : {[kind |-> "attribute", name |-> n, value |-> v] : n, v \in {"x", "y"}}
                                           \union {[kind |-> "tag", value |-> v] : v \in {"x", "y"}}],
   entity |-> [kind : {"actor", "tool"}, authority : {"x", "y"}, external : {"x", "y"}],
   sighting |-> [subject : {1}, observer : {None, "o"}, first_seen : 1 .. 2, last_seen : 1 .. 2, count : 0 .. 1]]
SourceDocuments ==
  {[id |-> SourceObjectId(i), content_hash |-> h, byte_length |-> n] : i, h \in {"x", "y"}, n \in 1 .. 2}
RecordPairs ==
  UNION {[class : {c}, a : Timed(RecordsOfClass[c]), b : Undated(RecordsOfClass[c]), now : {2}] : c \in DOMAIN RecordsOfClass}
  \union [class : {"source"}, a : SourceDocuments, b : SourceDocuments, now : {2}]

Contents == [content : {"h", "g", "raw"}, length : 1 .. 2, deflated : 1 .. 2]
Blobs == [blob : Contents, found : Contents, codec : {"deflate", "identity"}]

Listed == [kind : {"actor"}, status : {"active", "revoked"}, last_seen : {None, 1, 3}, subject : {1}, source : {1}, target : {1}]
Listings ==
  [rows : {[i \in DOMAIN t |-> [t[i] EXCEPT !.subject = 1 + (i % 2), !.source = 1 + (i % 3), !.target = 3 - (i % 3)]] :
             t \in UpTo(3, Listed)}
          \union {[i \in 1 .. 6 |-> [kind |-> "actor", status |-> "active", last_seen |-> i, subject |-> 1,
                                     source |-> 1, target |-> 2]]},
   limit : {0, 1, 2, 9}, day : 1 .. 4]

-----------------------------------------------------------------------------
MCNodes == 1 .. 4
EdgeOf(source, target, kind, status, level) ==
  [source |-> source, target |-> target, kind |-> kind, status |-> status, level |-> level]
EdgesThere == <<EdgeOf(1, 2, "uses", "active", Unmarked), EdgeOf(2, 3, "uses", "active", 3),
                EdgeOf(3, 1, "targets", "active", 1), EdgeOf(3, 4, "uses", "revoked", 1),
                EdgeOf(1, 1, "uses", "active", 1)>>
MCGraphs == {[i \in S |-> EdgesThere[i]] : S \in SUBSET DOMAIN EdgesThere}
(* An edge comes, one may no longer be shown, one is in force again.       *)
MCImports == {5 :> EdgesThere[5] @@ 6 :> EdgeOf(1, 4, "uses", "active", 1),
              3 :> [EdgesThere[3] EXCEPT !.level = 3] @@ 4 :> [EdgesThere[4] EXCEPT !.status = "active"]}
MCEntities == [n \in {1, 2} |-> IF n = 1 THEN Unmarked ELSE 3]
MCObservables == {3}
LimitsOf(hops, reach, budget, fanOut) == [depth |-> hops, nodes |-> reach, edges |-> budget, fan_out |-> fanOut]
MCLimits == {LimitsOf(4, 4, 5, 2), LimitsOf(1, 4, 5, 9), LimitsOf(4, 2, 5, 3), LimitsOf(4, 4, 3, 3),
             LimitsOf(0, 1, 1, 1), LimitsOf(4, 4, 5, 0)}
Asked(direction, kinds, statuses) == [node |-> 1, direction |-> direction, kinds |-> kinds, statuses |-> statuses]
MCQueries == {Asked("either", {}, {}), Asked("outgoing", {}, CurrentStatuses), Asked("incoming", {"uses"}, {})}
MCPermitted == {Anything, 2}

Aged(now, timeline, status) ==
  [now |-> now, timeline |-> timeline, kind |-> "url", exempt |-> FALSE, status |-> status, asserted |-> 80]
Evaluations ==
  [subject : {1, 2}, inputs : {Aged(4, [observed |-> 1], "active"), Aged(400, [observed |-> 1], "active"),
                               Aged(4, [observed |-> 1], "revoked"), Aged(4, <<>>, "active")}]

MCSamples ==
  [compare |-> Compares, age |-> Ages, claims |-> Pairs, confidence |-> Confident,
   lineage |-> UpTo(4, Observations), pattern |-> Patterns, flat |-> Flats, json |-> Jsons,
   choice |-> Hints, rules |-> RuleFiles, incidents |-> Incidents, xml |-> XmlEvents,
   canon |-> Canons, mapping |-> Mappings, layers |-> LayerSamples, profile |-> Profiles,
   fetch |-> Fetches, trust |-> UpTo(3, {"internal", "operator", "upstream", "untrusted"}),
   rank |-> Ranks, fit |-> Fits, recaptured |-> Recaptures, ledger |-> UpTo(4, Evaluations),
   marked |-> Merging, claimed |-> Shapes, document |-> Written1, limits |-> LimitsSet,
   ratio |-> Expansions, quality |-> Qualities, candidate |-> ClaimsRanked, identities |-> Named2,
   records |-> RecordPairs, blob |-> Blobs, listing |-> Listings, search |-> Searches]
=============================================================================
