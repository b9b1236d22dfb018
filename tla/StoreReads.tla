----------------------------- MODULE StoreReads -----------------------------
(***************************************************************************)
(* brolga-storage: how a store is read.  A table is a function from ids,   *)
(* which are numbers in the order of their text, to rows; a listing is a   *)
(* page of the rows a typed filter selects, in an order of its own.  Both  *)
(* backends compile the same filters.                                      *)
(***************************************************************************)
EXTENDS Absence, Integers, FiniteSets, Sequences, SequencesExt

MaxLimit == 4        \* Page::MAX_LIMIT, scaled down from 1000
SlotsPerDay == 2     \* instants of a day, in which last_seen is stored

(* A limit of nought is one row; more than the most is the most.           *)
Page(limit, offset) ==
  [limit |-> IF limit = 0 THEN 1 ELSE IF limit > MaxLimit THEN MaxLimit ELSE limit,
   offset |-> offset]

First(limit) == Page(limit, 0)
NextPage(page) == [page EXCEPT !.offset = @ + page.limit]

(* LIMIT and OFFSET over the ordered rows.                                 *)
Fetched(rows, page) ==
  SubSeq(rows, page.offset + 1,
         IF page.offset + page.limit < Len(rows) THEN page.offset + page.limit
         ELSE Len(rows))

Get(table, id) == IF id \in DOMAIN table THEN table[id] ELSE None
Exists(table, id) == id \in DOMAIN table

-----------------------------------------------------------------------------
IncludesSource(direction) == direction \in {"outgoing", "either"}
IncludesTarget(direction) == direction \in {"incoming", "either"}

(* An empty set of kinds or statuses constrains nothing.                   *)
Selects(chosen, value) == chosen = {} \/ value \in chosen

(* A bound is the start of its day; an entity never seen matches no bound. *)
Day(instant) == (instant \div SlotsPerDay) * SlotsPerDay

OnOrAfter(lastSeen, from) == from = None \/ (lastSeen # None /\ lastSeen >= Day(from))
Before(lastSeen, before) == before = None \/ (lastSeen # None /\ lastSeen < Day(before))

EntityMatches(query, entity) ==
  /\ Selects(query.kinds, entity.kind)
  /\ Selects(query.statuses, entity.status)
  /\ OnOrAfter(entity.last_seen, query.last_seen_from)
  /\ Before(entity.last_seen, query.last_seen_before)

AtNode(query, edge) ==
  \/ IncludesSource(query.direction) /\ edge.source = query.node
  \/ IncludesTarget(query.direction) /\ edge.target = query.node

EdgeMatches(query, edge) ==
  /\ AtNode(query, edge)
  /\ Selects(query.kinds, edge.kind)
  /\ Selects(query.statuses, edge.status)

About(query, node) == [query EXCEPT !.node = node]

CurrentStatuses == {"active", "deprecated"}
OnlyCurrent(query) == [query EXCEPT !.statuses = @ \union CurrentStatuses]

(* Ids in an order, the pairs of the one before the other: each has as     *)
(* many before it as come before it.  (The provers know nothing of         *)
(* SortSeq, on which SetToSortSeq rests.)                                  *)
Ranked(ids, earlier) ==
  [n \in 1..Cardinality(ids) |->
     CHOOSE i \in ids : Cardinality({j \in ids : <<j, i>> \in earlier}) = n - 1]

ById(ids) == Ranked(ids, {p \in ids \X ids : p[1] < p[2]})

(* Listings in the order of ids.                                           *)
IdsMatching(table, Matches(_)) == ById({i \in DOMAIN table : Matches(table[i])})

SearchEntities(entities, query, page) ==
  Fetched(IdsMatching(entities, LAMBDA e : EntityMatches(query, e)), page)

EdgesAt(edges, query, page) ==
  Fetched(IdsMatching(edges, LAMBDA e : EdgeMatches(query, e)), page)

Degree(edges, query) == Cardinality({i \in DOMAIN edges : EdgeMatches(query, edges[i])})

RelationshipsTouching(edges, node, page) ==
  Fetched(IdsMatching(edges, LAMBDA e : node \in {e.source, e.target}), page)

ClaimsAbout(claims, subject, page) ==
  Fetched(IdsMatching(claims, LAMBDA c : c.subject = subject), page)

(* Newest first, then by id; a row without an instant last.                *)
Newer(table, i, j) ==
  LET a == table[i].last_seen  b == table[j].last_seen IN
  \/ a = b /\ i < j
  \/ a # b /\ a # None /\ (b = None \/ a > b)

ByNewest(table, ids) == Ranked(ids, {p \in ids \X ids : Newer(table, p[1], p[2])})

ListEntities(entities, page) == Fetched(ByNewest(entities, DOMAIN entities), page)

SightingsOf(sightings, subject, page) ==
  Fetched(ByNewest(sightings,
                   {i \in DOMAIN sightings : sightings[i].subject = subject}), page)
=============================================================================
