-------------------------- MODULE MCIngestPipeline --------------------------
(* IngestPipeline for TLC: every bundle of three objects of a catalogue,   *)
(* alone, and a few in batches and feeds of two.                           *)
EXTENDS IngestPipeline

CutNames == [n \in Names |-> IF n = "long" THEN "cut" ELSE n]

Plain == [id |-> None, type |-> "other", name |-> None, observables |-> {},
          refs |-> {}, source |-> None, target |-> None, by |-> None,
          usable |-> TRUE]

Sdo(i, n) == [Plain EXCEPT !.id = i, !.type = "sdo", !.name = n]
Edge(i, s, t) ==
  [Plain EXCEPT !.id = i, !.type = "relationship", !.source = s, !.target = t]

Actor == Sdo("actor", "apt")
Namesake == Sdo("namesake", "apt")
Tool == Sdo("tool", "rat")
LongNamed == Sdo("long", "long")
Garbled == Sdo("garbled", "bell")
Unnamed == Sdo("unnamed", None)
Address == [Plain EXCEPT !.id = "address", !.type = "sco",
                         !.observables = {"ip"}]
Pattern == [Plain EXCEPT !.id = "pattern", !.type = "indicator",
                         !.observables = {"ip", "url"}]
OtherLanguage == [Pattern EXCEPT !.usable = FALSE]
Observation == [Plain EXCEPT !.id = "observation", !.type = "observed-data",
                             !.refs = {"address"}, !.by = "actor"]
ByIndicator == [Observation EXCEPT !.observables = {"url"}, !.by = "pattern"]
Marking == [Plain EXCEPT !.id = "marking", !.type = "marking-definition"]
Untyped == [Plain EXCEPT !.type = "untyped"]
Nested == [Plain EXCEPT !.id = "nested", !.type = "bundle"]

ActorUsesTool == Edge("uses", "actor", "tool")
Indicates == Edge("indicates", "pattern", "actor")
IndicatesToo == Edge("indicates2", "pattern", "tool")
RevokedBy == Edge("revoked", "actor", "namesake")
OfGarbled == Edge("of", "garbled", "actor")
OfLong == Edge("of2", "actor", "long")
Halved == Edge("halved", "actor", None)

Catalogue ==
  {Actor, Namesake, Tool, LongNamed, Garbled, Unnamed, Address, Pattern,
   OtherLanguage, Observation, ByIndicator, Marking, Plain, Untyped, Nested,
   ActorUsesTool, Indicates, IndicatesToo, RevokedBy, OfGarbled, OfLong,
   Halved}

Bundles ==
  {SetToSeq(objects) : objects \in kSubset(3, Catalogue)}
    \union {<<>>, <<Actor, Actor>>, <<IndicatesToo, Indicates, Pattern, Actor,
                                       Tool>>}

Few == {<<Actor>>, <<ActorUsesTool, Actor, Tool>>, <<Indicates, Pattern>>,
        Unreadable}

TooLong == {<<Indicates, Pattern>>} \union {doc \in Bundles : Nested \in ToSet(doc)}

AllFeeds ==
  {<< <<doc>> >> : doc \in Bundles}
    \union {<< <<a, b>> >> : a, b \in Few}
    \union {<< <<a>>, <<b>> >> : a, b \in Few}

NamesakeFeeds ==
  {<< <<doc>> >> : doc \in
     {<<Actor, ActorUsesTool, Tool>>, <<Actor, Tool, Halved>>,
      <<Actor, Namesake, RevokedBy>>}}
    \union {<< <<a, b>> >> : a, b \in Few \ {Unreadable}}
=============================================================================
