-------------------------------- MODULE Walk --------------------------------
(***************************************************************************)
(* brolga-graph/src/traverse.rs: a bounded walk of the graph from one      *)
(* node, breadth first, one read per node.  Each read is a statement with  *)
(* a view of its own, so another process may import between two of them;   *)
(* the token may be cancelled between any two nodes.                       *)
(*                                                                         *)
(* A node is a number.  Entities have rows and markings of their own;      *)
(* observables have neither.  A marking is a sharing level or Unmarked.  A *)
(* graph is the table of relationships, id -> edge; no row is ever deleted.*)
(***************************************************************************)
EXTENDS StoreReads, FiniteSetsExt, Functions

CONSTANTS
  Nodes,         \* the nodes edges may join
  Graphs,        \* graphs the store may hold
  Imports,       \* rows another process may write in one transaction
  MaxImports,    \* bound on the graphs they make
  Entities,      \* the levels of the entities there are, by node
  Observables,   \* nodes with no row
  Limits,        \* traversal limits that may be asked for
  Queries,       \* filters: direction, kinds and statuses
  PermittedLevels   \* levels a policy may permit; Anything is no policy

Unmarked == -1
Anything == 9
LevelSet == {Unmarked, Anything} \union 0..4

IsGraph(g) ==
  /\ DOMAIN g \subseteq Nat /\ IsFiniteSet(DOMAIN g)
  /\ \A i \in DOMAIN g : {g[i].source, g[i].target} \subseteq Nodes

ASSUME WalkAssumption ==
  /\ Nodes \subseteq Nat /\ IsFiniteSet(Nodes)
  /\ Limits \subseteq [depth : Nat, nodes : Nat, edges : Nat, fan_out : Nat]
  /\ \A g \in Graphs \union Imports : IsGraph(g)
  /\ \A q \in Queries : DOMAIN q = {"node", "direction", "kinds", "statuses"}
  /\ None \notin {"empty budget: depth", "empty budget: nodes",
                  "empty budget: edges", "empty budget: fan-out"}

MaxFanOut == MaxLimit - 1

(* Mutant: no room for the row that shows there were more.                 *)
ProbePageExactly(limits) == First(IF limits.fan_out > MaxFanOut THEN MaxFanOut
                                  ELSE limits.fan_out)

(* Room is left for the row that shows there were more.                    *)
FanOut(limits) ==
  IF limits.fan_out > MaxFanOut THEN MaxFanOut ELSE limits.fan_out
ProbePage(limits) == First(FanOut(limits) + 1)

Permits(permitted, level) ==
  permitted = Anything \/ level = Unmarked \/ level <= permitted

VARIABLES
  links,         \* the graph in the store
  versions,      \* the graphs it has held since the walk was asked for
  sought,        \* start, filter, limits, permitted
  progress,      \* "plan", "refused", "walk" or "done"
  visited,       \* node -> depth it was reached at
  collected,     \* the edges returned: id -> edge
  truncated,     \* why the answer is short
  depth,
  frontier,      \* nodes of this depth still to expand
  upcoming,      \* nodes of the next one
  pending,       \* rows of the node being expanded, still to look at
  expanding,     \* that node
  hidden,        \* edges looked at and not returned
  cancelled      \* the token

walkVars == <<links, versions, sought, progress, visited, collected, truncated,
              depth, frontier, upcoming, pending, expanding, hidden, cancelled>>

Limit == sought.limits
Query(node) == About(sought.query, node)

EdgeRows(graph) == {<<i, graph[i]>> : i \in DOMAIN graph}

(* The other end, read along the direction asked for.                      *)
OtherEnd(edge, node) ==
  IF IncludesSource(sought.query.direction) /\ edge.source = node
  THEN edge.target ELSE edge.source

RefusedBy ==
  CASE Limit.depth = 0 -> "empty budget: depth"
    [] Limit.nodes = 0 -> "empty budget: nodes"
    [] Limit.edges = 0 -> "empty budget: edges"
    [] FanOut(Limit) = 0 -> "empty budget: fan-out"
    [] OTHER ->
  CASE sought.start \notin Observables \union DOMAIN Entities ->
         "unknown start"
    [] /\ sought.start \in DOMAIN Entities
       /\ ~Permits(sought.permitted, Entities[sought.start]) ->
         "policy refused"
    [] OTHER ->
       IF Degree(links, Query(sought.start)) > Limit.edges
       THEN "start too busy" ELSE None

WalkInit ==
  /\ links \in Graphs
  /\ sought \in [start : Nodes, query : Queries, limits : Limits,
                 permitted : PermittedLevels]
  /\ progress = "plan"
  /\ versions = {links}
  /\ visited = [n \in {} |-> 0] /\ collected = [i \in {} |-> 0] /\ truncated = {}
  /\ depth = 0 /\ frontier = {} /\ upcoming = {}
  /\ pending = <<>> /\ expanding = sought.start
  /\ hidden = 0 /\ cancelled = FALSE

(* prepare: nothing is read of a walk that cannot be answered.             *)
RefuseWalk ==
  /\ progress = "plan" /\ RefusedBy # None
  /\ progress' = "refused"
  /\ UNCHANGED <<links, versions, sought, visited, collected, truncated, depth, frontier,
                 upcoming, pending, expanding, hidden, cancelled>>

Prepare ==
  /\ progress = "plan" /\ RefusedBy = None
  /\ progress' = "walk"
  /\ visited' = [n \in {sought.start} |-> 0]
  /\ frontier' = {sought.start}
  /\ UNCHANGED <<links, versions, sought, collected, truncated, depth, upcoming, pending,
                 expanding, hidden, cancelled>>

CancelWalk ==
  /\ progress \in {"plan", "walk"} /\ ~cancelled
  /\ cancelled' = TRUE
  /\ UNCHANGED <<links, versions, sought, progress, visited, collected, truncated, depth,
                 frontier, upcoming, pending, expanding, hidden>>

Stop(reason) ==
  /\ truncated' = truncated \union {reason}
  /\ progress' = "done"
  /\ UNCHANGED <<links, versions, sought, visited, collected, depth, frontier, upcoming,
                 pending, expanding, hidden, cancelled>>

(* Between two nodes.                                                      *)
Pausing == progress = "walk" /\ pending = <<>> /\ frontier # {}

(* Another process commits.  Bound: as long as fewer graphs were seen, and *)
(* only where a read is still to come.                                     *)
ImportElsewhere ==
  /\ Pausing /\ Cardinality(versions) <= MaxImports
  /\ \E rows \in Imports :
       /\ links' = [i \in DOMAIN links \union DOMAIN rows |->
                      IF i \in DOMAIN rows THEN rows[i] ELSE links[i]]
       /\ versions' = versions \union {links'}
  /\ UNCHANGED <<sought, progress, visited, collected, truncated, depth, frontier,
                 upcoming, pending, expanding, hidden, cancelled>>

StopCancelled == Pausing /\ cancelled /\ Stop("cancelled")

(* One bounded read; a row too many means edges that are not expanded.     *)
Expand ==
  /\ Pausing /\ ~cancelled
  /\ LET node == Min(frontier)
         found == EdgesAt(links, Query(node), ProbePage(Limit))
         rows == [k \in DOMAIN found |-> <<found[k], links[found[k]]>>] IN
     /\ expanding' = node
     /\ frontier' = frontier \ {node}
     /\ pending' = SubSeq(rows, 1,
                          IF Len(found) > FanOut(Limit) THEN FanOut(Limit)
                          ELSE Len(found))
     /\ truncated' = IF Len(found) > FanOut(Limit)
                     THEN truncated \union {"fan_out"} ELSE truncated
  /\ UNCHANGED <<links, versions, sought, progress, visited, collected, depth, upcoming,
                 hidden, cancelled>>

Looking == progress = "walk" /\ pending # <<>>
EdgeId == Head(pending)[1]
Edge == Head(pending)[2]
Far == OtherEnd(Edge, expanding)

(* Not returned, and not crossed.                                          *)
Withhold ==
  /\ Looking /\ ~Permits(sought.permitted, Edge.level)
  /\ hidden' = hidden + 1
  /\ pending' = Tail(pending)
  /\ UNCHANGED <<links, versions, sought, progress, visited, collected, truncated, depth,
                 frontier, upcoming, expanding, cancelled>>

Returning == Looking /\ Permits(sought.permitted, Edge.level)

OverEdges ==
  EdgeId \notin DOMAIN collected /\ Cardinality(DOMAIN collected) >= Limit.edges

(* Mutant: one node more than the budget is kept.                          *)
OverNodesByOne ==
  Far \notin DOMAIN visited /\ Cardinality(DOMAIN visited) > Limit.nodes

OverNodes ==
  Far \notin DOMAIN visited /\ Cardinality(DOMAIN visited) >= Limit.nodes

StopAtEdges == Returning /\ OverEdges /\ Stop("edges")
StopAtNodes == Returning /\ ~OverEdges /\ OverNodes /\ Stop("nodes")

(* A node already reached is never queued again, so a cycle ends; an edge  *)
(* met again from its other end replaces what it was when it was met first.*)
Collect ==
  /\ Returning /\ ~OverEdges /\ ~OverNodes
  /\ collected' = [i \in DOMAIN collected \union {EdgeId} |->
                     IF i = EdgeId THEN Edge ELSE collected[i]]
  /\ pending' = Tail(pending)
  /\ visited' = [n \in DOMAIN visited \union {Far} |->
                   IF n \in DOMAIN visited THEN visited[n] ELSE depth + 1]
  /\ upcoming' = IF Far \in DOMAIN visited THEN upcoming
                 ELSE upcoming \union {Far}
  /\ UNCHANGED <<links, versions, sought, progress, truncated, depth, frontier,
                 expanding, hidden, cancelled>>

LevelDone == progress = "walk" /\ pending = <<>> /\ frontier = {}

Deepen ==
  /\ LevelDone /\ upcoming # {} /\ depth + 1 < Limit.depth
  /\ depth' = depth + 1
  /\ frontier' = upcoming
  /\ upcoming' = {}
  /\ UNCHANGED <<links, versions, sought, progress, visited, collected, truncated,
                 pending, expanding, hidden, cancelled>>

(* Nodes left unexpanded at the last depth are a truncation by depth.      *)
Finish ==
  /\ LevelDone /\ (upcoming = {} \/ depth + 1 >= Limit.depth)
  /\ truncated' = IF upcoming # {} THEN truncated \union {"depth"}
                  ELSE truncated
  /\ progress' = "done"
  /\ UNCHANGED <<links, versions, sought, visited, collected, depth, frontier, upcoming,
                 pending, expanding, hidden, cancelled>>

WalkStep ==
  \/ RefuseWalk \/ Prepare \/ StopCancelled \/ Expand \/ Withhold
  \/ StopAtEdges \/ StopAtNodes \/ Collect \/ Deepen \/ Finish

WalkNext == WalkStep \/ CancelWalk \/ ImportElsewhere

WalkSpec == WalkInit /\ [][WalkNext]_walkVars

WalkAnswered == progress = "done"
WalkIsComplete == WalkAnswered /\ truncated = {}

-----------------------------------------------------------------------------
(* Rows that were there at some time of the walk, and those that were all  *)
(* the time as they are.                                                   *)
EverThere == UNION {EdgeRows(g) : g \in versions}
AlwaysThere == {r \in EverThere : \A g \in versions : r \in EdgeRows(g)}

(* Of some rows, those at a node that the walk may cross: permitted, and   *)
(* selected by the filter.                                                 *)
OpenAt(rows, node) ==
  {r \in rows : EdgeMatches(Query(node), r[2])
                /\ Permits(sought.permitted, r[2].level)}

Beyond(rows, node) == {OtherEnd(r[2], node) : r \in OpenAt(rows, node)}

(* Nodes at most n crossings of such rows from the start.                  *)
Within(rows) ==
  LET within[n \in 0..Cardinality(Nodes)] ==
        IF n = 0 THEN {sought.start}
        ELSE within[n - 1] \union UNION {Beyond(rows, m) : m \in within[n - 1]} IN
  within

Reachable(rows) == Within(rows)[Cardinality(Nodes)]

(* However far it got and whatever cut it short, a walk stays inside the   *)
(* budgets asked for, every edge it returns joins nodes returned with it   *)
(* and may be shown, and no node is there that only an edge the policy     *)
(* withholds leads to: each was reached over edges that were there.        *)
StaysInside ==
  progress \in {"walk", "done"} =>
    /\ Cardinality(DOMAIN visited) <= Limit.nodes
    /\ Cardinality(DOMAIN collected) <= Limit.edges
    /\ \A n \in DOMAIN visited : visited[n] <= Limit.depth
    /\ \A i \in DOMAIN collected :
         /\ {collected[i].source, collected[i].target} \subseteq DOMAIN visited
         /\ \E n \in DOMAIN visited : <<i, collected[i]>> \in OpenAt(EverThere, n)
    /\ DOMAIN visited \subseteq Reachable(EverThere)

(* A walk that says it is complete has reached all that could be reached   *)
(* over edges that stayed as they were while it walked, each node no later *)
(* than at its distance over those and at a distance it had over edges     *)
(* there were, and returns each such edge between them.  Where nobody      *)
(* imports these are all the edges, and the walk is exact.                 *)
CompleteIsReachable ==
  WalkIsComplete =>
    /\ Reachable(AlwaysThere) \subseteq DOMAIN visited
    /\ \A n \in DOMAIN visited :
         /\ OpenAt(AlwaysThere, n) \subseteq EdgeRows(collected)
         /\ n \in Within(EverThere)[visited[n]]
         /\ \A d \in 0..(visited[n] - 1) : n \notin Within(AlwaysThere)[d]
=============================================================================
