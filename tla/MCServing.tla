------------------------------ MODULE MCServing ------------------------------
(***************************************************************************)
(* Instances of Serving: three claims, one of them marked and one too long *)
(* for a summary, two edges, two entities and a sighting, of which one     *)
(* edge, the other's entity and the sighting are marked; stores of any.    *)
(***************************************************************************)
EXTENDS Serving

C(id, assertion, status, sources, marks, long) ==
  [id |-> id, subject |-> Subject, assertion |-> assertion, status |-> status,
   sources |-> sources, markings |-> marks, long |-> long]

MCClaims ==
  [i \in 1..3 |->
     CASE i = 1 -> {C(1, "malicious", s, {1}, {Tlp("amber")}, FALSE) : s \in {"active", "revoked"}}
       [] i = 2 -> {C(2, "benign", "active", {}, {}, l) : l \in BOOLEAN}
       [] i = 3 -> {C(3, "attribute", "active", {3}, {Attribution("a")}, FALSE)}]

Edge(id, target, marks) ==
  [id |-> id, source |-> Subject, target |-> target, ends |-> {target}, kind |-> "uses",
   status |-> "active", markings |-> marks]

MCCatalogue ==
  [claims    |-> MCClaims,
   edges     |-> [i \in 1..2 |-> {Edge(i, i, IF i = 1 THEN {Handling("nda")} ELSE {})}],
   sightings |-> [i \in {1} |-> {[subject |-> Subject, last_seen |-> 1,
                                   markings |-> {Tlp("red")}]}],
   entities  |-> [i \in 1..2 |->
                    {[id |-> i, kind |-> IF i = 1 THEN "malware" ELSE "sector",
                      markings |-> IF i = 1 THEN {} ELSE {Handling("nda")}]}]]

MCConfigs == [loopback : BOOLEAN, credential : BOOLEAN]

Asks(route, token, level, objects) ==
  [route |-> route, token |-> token, subject |-> TRUE, kind |-> "url", level |-> level,
   objects |-> objects, relationships |-> objects, id |-> 1]

MCRequests ==
  {Asks("context", TRUE, level, objects) : level \in {"L0", "L1", "L3"}, objects \in {1, 3}}
  \union {[Asks("context", TRUE, "L9", 0) EXCEPT !.subject = s] : s \in BOOLEAN}
  \union {Asks(route, TRUE, None, None) :
            route \in {"health", "entities list", "entity", "neighbours", "ready", "stats"}}
  \union {Asks("ready", FALSE, None, None), Asks("health", FALSE, None, None),
          Asks("entities list", TRUE, None, 1)}
=============================================================================
