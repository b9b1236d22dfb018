-------------------------------- MODULE Settings --------------------------------
(***************************************************************************)
(* brolga-config: the settings, merged from layers of which a later one    *)
(* wins (layer.rs, load.rs, service.rs, model.rs, secret.rs), and the      *)
(* profiles that say what a pack is to keep (profile.rs).                  *)
(*                                                                         *)
(* A document is the function from its leaves' paths to their values; a    *)
(* leaf is a scalar, a list or a mapping with nothing in it.               *)
(***************************************************************************)
EXTENDS Absence, Integers, FiniteSets, Sequences, SequencesExt, FiniteSetsExt

(* The bounds, scaled down.                                                *)
MaxConfigBytes == 4   \* MAX_CONFIG_BYTES, 256 KiB
MaxConfigDepth == 3   \* MAX_CONFIG_DEPTH, 32
MaxSecrets == 1       \* MAX_SECRETS, 128
Word == 256           \* 2^32, of the u32 the shares of a profile are added in

Invalid(why) == [invalid |-> why]
IsInvalid(result) == "invalid" \in DOMAIN result

EmptyMapping == [is |-> "mapping"]
IsScalar(value) == value # EmptyMapping

-----------------------------------------------------------------------------
(* find_anchor_or_alias: an `&` or `*` outside quotes and comments that    *)
(* starts a value and is followed by a name.                               *)
ScanMark(line, s, i) ==
  LET mark == line[i]
      previous == IF i = 1 THEN " " ELSE line[i - 1]
      next == IF i < Len(line) THEN line[i + 1] ELSE " " IN
  CASE s.ended -> s
    [] ~s.ended /\ mark = "'" /\ ~s.double -> [s EXCEPT !.single = ~@]
    [] ~s.ended /\ mark = "double" /\ ~s.single /\ previous # "escape" -> [s EXCEPT !.double = ~@]
    [] ~s.ended /\ mark = "#" /\ ~s.single /\ ~s.double -> [s EXCEPT !.ended = TRUE]
    [] ~s.ended /\ mark \in {"&", "*"} /\ ~s.single /\ ~s.double ->
         IF previous \in {" ", ":", "-", ",", "[", "{"} /\ next = "x"
         THEN [s EXCEPT !.found = TRUE, !.ended = TRUE] ELSE s
    [] OTHER -> s

FindAnchorOrAlias(line) ==
  FoldLeft(LAMBDA s, i : ScanMark(line, s, i),
    [single |-> FALSE, double |-> FALSE, ended |-> FALSE, found |-> FALSE],
    [i \in DOMAIN line |-> i]).found

(* check_depth.                                                            *)
TooDeep(values) == \E path \in DOMAIN values : Len(path) > MaxConfigDepth

(* parse_document: one mapping, of a size and a depth.                     *)
ParseDocument(text, format) ==
  CASE text.size > MaxConfigBytes                                   -> Invalid("too_large")
    [] text.size <= MaxConfigBytes /\ format = "yaml"
         /\ \E i \in DOMAIN text.lines : FindAnchorOrAlias(text.lines[i]) -> Invalid("alias")
    [] OTHER -> IF text.values = None THEN Invalid("syntax")
                ELSE IF TooDeep(text.values) THEN Invalid("too_deep")
                ELSE IF <<>> \in DOMAIN text.values /\ IsScalar(text.values[<<>>]) THEN Invalid("not_a_mapping")
                ELSE [values |-> text.values]

-----------------------------------------------------------------------------
(* Two leaves of which one is the other, or stands where the other's       *)
(* mapping is.                                                             *)
Comparable(p, q) == IsPrefix(p, q) \/ IsPrefix(q, p)

(* What an overlay changes: an empty mapping over a mapping is nothing.    *)
Overrides(target, overlay, path) ==
  IsScalar(overlay[path]) \/ \A p \in DOMAIN target : IsPrefix(path, p) => p = path /\ IsScalar(target[p])

(* Mutant: a setting that is replaced is still said to be who set it first.*)
MergeValueAsFirst(merged, layer, id) ==
  LET set == {p \in DOMAIN layer : Overrides(merged.values, layer, p)}
      kept == {p \in DOMAIN merged.values : \A q \in set : ~Comparable(p, q)} IN
  [values |-> [p \in kept \union set |-> IF p \in set THEN layer[p] ELSE merged.values[p]],
   from |-> [p \in DOMAIN merged.from \union set |->
               IF p \in DOMAIN merged.from THEN merged.from[p] ELSE id]]

(* merge_value and attribute_subtree: what a layer sets is its own, down   *)
(* to each leaf; an attribution outlives the leaf it was for.              *)
MergeValue(merged, layer, id) ==
  LET set == {p \in DOMAIN layer : Overrides(merged.values, layer, p)}
      kept == {p \in DOMAIN merged.values : \A q \in set : ~Comparable(p, q)} IN
  [values |-> [p \in kept \union set |-> IF p \in set THEN layer[p] ELSE merged.values[p]],
   from |-> [p \in DOMAIN merged.from \union set |-> IF p \in set THEN id ELSE merged.from[p]]]

MergeLayers(layers) ==
  FoldLeft(LAMBDA merged, i : MergeValue(merged, layers[i], i),
    [values |-> [p \in {<<>>} |-> EmptyMapping], from |-> <<>>], [i \in DOMAIN layers |-> i])

-----------------------------------------------------------------------------
Number(n) == [is |-> "number", n |-> n]
Text(t) == [is |-> "text", t |-> t]

(* BrolgaConfig: the settings there are, and what each is.                 *)
Sqlite(name) == <<"storage", "sqlite", name>>
Limit(name) == <<"limits", name>>
Numbers == {<<"version">>, Sqlite("busy_timeout_ms"), Limit("max_input_bytes"), Limit("max_nesting_depth"),
            Limit("max_records_per_import"), Limit("operation_timeout_seconds")}
Texts == {<<"storage", "backend">>, Sqlite("path"), <<"logging", "level">>, <<"logging", "format">>}
ChoicesFor(path) ==
  CASE path = <<"storage", "backend">> -> {"sqlite"}
    [] path = <<"logging", "level">>   -> {"error", "warn", "info", "debug", "trace"}
    [] path = <<"logging", "format">>  -> {"text", "json"}
    [] OTHER                           -> STRING

IsSecret(path) == Len(path) = 3 /\ path[1] = "secrets" /\ path[3] \in {"from_env", "from_file"}

(* A reference: a well-formed name, or a file below where it is said from. *)
EnvVarName(name) == name \notin {"", "1X", "too-long"}
SecretPath(file) == file \notin {"", "too-long", "nul", "../x"}
SecretRef(path, value) ==
  value.is = "text" /\ (IF path[3] = "from_env" THEN EnvVarName(value.t) ELSE SecretPath(value.t))

FieldReads(path, value) ==
  \/ path \in Numbers /\ value.is = "number" /\ value.n >= 0
  \/ path \in Texts /\ value.is = "text" /\ value.t \in ChoicesFor(path)
  \/ IsSecret(path) /\ SecretRef(path, value)
  \/ path = <<"secrets">> /\ value = EmptyMapping

(* PartialCheck, of a layer alone: what it says is a setting, in its type. *)
PartialCheck(layer) ==
  \A p \in DOMAIN layer : \/ FieldReads(p, layer[p])
                          \/ layer[p] = EmptyMapping /\ \E q \in Numbers \union Texts : IsPrefix(p, q) /\ p # q

(* The whole: every setting is there, a secret has one source.             *)
Deserialised(values) ==
  /\ \A p \in DOMAIN values : FieldReads(p, values[p])
  /\ Numbers \union Texts \subseteq DOMAIN values
  /\ \E p \in DOMAIN values : p[1] = "secrets"
  /\ \A p, q \in DOMAIN values : IsSecret(p) /\ IsSecret(q) /\ p[2] = q[2] => p = q

DefaultsValue ==
  [p \in Numbers \union Texts \union {<<"secrets">>} |->
     CASE p = <<"secrets">>              -> EmptyMapping
       [] p = <<"storage", "backend">>   -> Text("sqlite")
       [] p = Sqlite("path")             -> Text("brolga.sqlite")
       [] p = <<"logging", "level">>     -> Text("info")
       [] p = <<"logging", "format">>    -> Text("text")
       [] OTHER                          -> Number(1)]

(* The ranges, scaled down: what is out of one is told with what is.       *)
BoundsOf(path) == IF path = <<"version">> THEN 1 .. 1 ELSE 1 .. 2
PathSetting(t) == t \notin {"", "nul", "../x"}
SecretName(name) == name \notin {"", "sp ace"}

ValidateInto(values) ==
  {p \in Numbers : values[p].n \notin BoundsOf(p)}
  \union {p \in {Sqlite("path")} : ~PathSetting(values[p].t)}
  \union {p \in {q \in DOMAIN values : IsSecret(q)} :
            \/ ~SecretName(p[2])
            \/ Cardinality({q[2] : q \in {r \in DOMAIN values : IsSecret(r)}}) > MaxSecrets}

(* resolve: the layers' own faults and those of the whole, told together.  *)
ResolveSettings(layers) ==
  LET merged == MergeLayers(<<DefaultsValue>> \o layers)
      unread == {[layer |-> i] : i \in {j \in DOMAIN layers : ~PartialCheck(layers[j])}}
      outside == {[setting |-> p] : p \in ValidateInto(merged.values)} IN
  IF ~Deserialised(merged.values) THEN [diagnostics |-> unread \union {[merged |-> TRUE]}]
  ELSE IF unread # {} \/ outside # {} THEN [diagnostics |-> unread \union outside]
  ELSE [config |-> merged.values, attribution |-> merged.from]

(* explain: each leaf with the layer it is from; a leaf nobody is recorded *)
(* for is said to be a default.                                            *)
Explain(resolved) ==
  [p \in DOMAIN resolved.config |->
     [value |-> resolved.config[p],
      source |-> IF p \in DOMAIN resolved.attribution THEN resolved.attribution[p] ELSE 1]]

(* The length of a field is the build's own default.                       *)
ToInputLimits(config) ==
  [max_bytes |-> config[Limit("max_input_bytes")].n, max_depth |-> config[Limit("max_nesting_depth")].n,
   max_records |-> config[Limit("max_records_per_import")].n, max_field_bytes |-> 1]

-----------------------------------------------------------------------------
(* Profiles.  `Sections` are three of the twelve, one of them of the floor.*)
Sections == {"findings", "claims", "markings"}
AlwaysPreserved == {"markings"}

SaysOf(table, s) == IF s \in DOMAIN table THEN table[s] ELSE None
Preservation(profile, s) ==
  IF s \in AlwaysPreserved THEN "required"
  ELSE IF SaysOf(profile.sections, s) = None THEN "preferred" ELSE profile.sections[s]
MayDrop(profile, s) == Preservation(profile, s) # "required"
Weight(profile, s) == IF SaysOf(profile.weights, s) = None THEN 50 ELSE profile.weights[s]

(* validate.  The shares are added in a word, and wrap in a release build. *)
ValidateProfile(profile) ==
  CASE profile.name = ""                                              -> Invalid("unnamed")
    [] profile.name # "" /\ \E s \in AlwaysPreserved : SaysOf(profile.sections, s) = "excluded"
                                                                      -> Invalid("excludes_floor")
    [] OTHER -> IF MapThenSumSet(LAMBDA s : profile.allocation[s], DOMAIN profile.allocation) % Word > 100
                THEN Invalid("over_allocated") ELSE profile

(* fingerprint: what a profile does, and not what it is called.            *)
Fingerprint(profile) ==
  <<[s \in Sections |-> <<Preservation(profile, s), Weight(profile, s)>>], profile.allocation, profile.environments>>

(* explain: for each section what is done, and on whose word.              *)
ExplainProfile(profile) ==
  [s \in Sections |->
     [action |-> Preservation(profile, s), weight |-> Weight(profile, s),
      reason |-> IF s \in AlwaysPreserved THEN "floor"
                 ELSE IF s \in DOMAIN profile.sections THEN "profile" ELSE "default"]]

Extended(parent, child) ==
  [x \in DOMAIN parent \union DOMAIN child |-> IF x \in DOMAIN child THEN child[x] ELSE parent[x]]

(* The chain of a profile's parents, itself first, up to one met again.    *)
ChainOf(set, name) ==
  FoldLeft(LAMBDA c, i :
      IF c.error # None \/ c.next = None THEN c
      ELSE IF Contains(c.names, c.next) THEN [c EXCEPT !.error = "cycle"]
      ELSE IF c.next \notin DOMAIN set THEN [c EXCEPT !.error = "unknown_parent"]
      ELSE [c EXCEPT !.names = Append(@, c.next), !.next = set[c.next].inherits],
    [names |-> <<>>, next |-> name, error |-> None], [i \in 1 .. Cardinality(DOMAIN set) + 1 |-> i])

(* From the furthest parent to the child, the later saying what holds.     *)
Inherited(set, names) ==
  FoldLeft(LAMBDA r, name :
      [r EXCEPT !.sections = Extended(@, set[name].sections), !.weights = Extended(@, set[name].weights),
                !.allocation = Extended(@, set[name].allocation),
                !.environments = @ \union set[name].environments],
    [name |-> names[1], sections |-> <<>>, weights |-> <<>>, allocation |-> <<>>, environments |-> {}],
    Reverse(names))

(* ProfileSet::resolve.  A section is required and excluded at once where  *)
(* the one table of the two answers says both, which it cannot.            *)
ResolveProfile(set, name) ==
  LET chain == ChainOf(set, name)
      resolved == Inherited(set, chain.names)
      both == {s \in DOMAIN resolved.sections : resolved.sections[s] = "required"
                                                  /\ resolved.sections[s] = "excluded"} IN
  CASE chain.error # None -> Invalid(chain.error)
    [] chain.error = None /\ both # {} -> Invalid("contradictory")
    [] OTHER -> ValidateProfile(resolved)

=============================================================================
