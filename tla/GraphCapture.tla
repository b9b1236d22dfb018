---------------------------- MODULE GraphCapture ----------------------------
(***************************************************************************)
(* capture of brolga-graph/src/checkpoint.rs against a graph that other    *)
(* processes keep writing (GraphStore).  A capture reads many rows over    *)
(* many statements, each with a view of its own, between two readings of   *)
(* the graph version; still_current later compares one integer.            *)
(*                                                                         *)
(* The traversal is breadth first from one entity, in both directions,     *)
(* then the records of the nodes it reached are read.  The other budgets,  *)
(* policy and observables change which records a capture covers, not when  *)
(* it reads them, and are left out.                                        *)
(***************************************************************************)
EXTENDS GraphStore

CONSTANTS
  Root,          \* the entity the traversal starts from
  MaxDepth,      \* TraversalLimits::max_depth
  NoCheckpoint

ASSUME CaptureAssumption == Root \in Entities /\ MaxDepth \in Nat \ {0}

VARIABLES
  phase,         \* idle, start, walk (reading edges), nodes (reading records)
  before,        \* the version read first
  depth,         \* hops completed
  frontier,      \* nodes of this hop whose edges are still to be read
  visited,       \* nodes reached
  expanded,      \* nodes whose edges were read
  found,         \* the edges read, with their documents
  pending,       \* entities still to be read
  records,       \* the fingerprints so far
  checkpoint     \* the checkpoint returned last

walkVars    == <<depth, frontier, visited, expanded, found>>
captureVars == <<phase, before, walkVars, pending, records, checkpoint>>
vars == <<graphVars, captureVars>>

At(tab, node) == {x \in Edges : tab[x] # Absent /\ node \in Ends[x]}
Across(edges) == UNION {Ends[x] : x \in edges}

(* The nodes within so many hops of the root.                              *)
Reached(tab) ==
  LET reached[n \in 0..MaxDepth] ==
        IF n = 0 THEN {Root}
        ELSE reached[n - 1] \union Across(UNION {At(tab, e) : e \in reached[n - 1]})
  IN reached

(* What a capture covers, read all at once.                                *)
Neighbourhood(tab) ==
  LET edges == UNION {At(tab, e) : e \in Reached(tab)[MaxDepth - 1]}
      nodes == {e \in Reached(tab)[MaxDepth] : tab[e] # Absent} IN
  [row \in edges \union nodes |-> tab[row]]

EmptyFingerprints == [row \in {} |-> Absent]

(* A map with these entries written over it.                               *)
Over(f, g) ==
  [r \in DOMAIN f \union DOMAIN g |-> IF r \in DOMAIN g THEN g[r] ELSE f[r]]

-----------------------------------------------------------------------------
StartCapture ==
  /\ phase = "idle"
  /\ phase' = "start"
  /\ before' = table[Version]
  /\ UNCHANGED <<graphVars, walkVars, pending, records, checkpoint>>

(* TraversalPlan::prepare: a start that names nothing is refused.          *)
StartRefused ==
  /\ phase = "start"
  /\ table[Root] = Absent
  /\ phase' = "idle"
  /\ UNCHANGED <<graphVars, before, walkVars, pending, records, checkpoint>>

StartWalk ==
  /\ phase = "start"
  /\ table[Root] # Absent
  /\ phase' = "walk"
  /\ visited' = {Root}
  /\ frontier' = {Root}
  /\ UNCHANGED <<graphVars, before, depth, expanded, found, pending, records,
                 checkpoint>>

(* The edges at one node of the frontier; a node reached is never queued   *)
(* again.                                                                  *)
Expand ==
  /\ phase = "walk"
  /\ \E e \in frontier :
       /\ frontier' = frontier \ {e}
       /\ expanded' = expanded \union {e}
       /\ found' = Over(found, [x \in At(table, e) |-> table[x]])
       /\ visited' = visited \union Across(At(table, e))
  /\ UNCHANGED <<graphVars, phase, before, depth, pending, records, checkpoint>>

NextHop ==
  /\ phase = "walk"
  /\ frontier = {}
  /\ depth + 1 < MaxDepth /\ visited # expanded
  /\ depth' = depth + 1
  /\ frontier' = visited \ expanded
  /\ UNCHANGED <<graphVars, phase, before, visited, expanded, found, pending,
                 records, checkpoint>>

EndWalk ==
  /\ phase = "walk"
  /\ frontier = {}
  /\ depth + 1 = MaxDepth \/ visited = expanded
  /\ phase' = "nodes"
  /\ pending' = visited
  /\ UNCHANGED <<graphVars, before, walkVars, records, checkpoint>>

(* A node whose row is gone is skipped.                                    *)
ReadNode ==
  /\ phase = "nodes"
  /\ \E e \in pending :
       /\ pending' = pending \ {e}
       /\ records' = IF table[e] = Absent THEN records
                     ELSE Over(records, [r \in {e} |-> table[e]])
  /\ UNCHANGED <<graphVars, phase, before, walkVars, checkpoint>>

EndCapture ==
  /\ phase' = "idle"
  /\ depth' = 0
  /\ frontier' = {} /\ visited' = {} /\ expanded' = {}
  /\ found' = EmptyFingerprints
  /\ pending' = {}
  /\ records' = EmptyFingerprints

(* Mutant: the version is read once, at the end.                           *)
FinishCaptureUnfenced ==
  /\ phase = "nodes" /\ pending = {}
  /\ checkpoint' = [version |-> table[Version], records |-> Over(records, found)]
  /\ EndCapture
  /\ UNCHANGED <<graphVars, before>>

(* The fence: the version is read again, and a capture that straddled a    *)
(* change is refused.                                                      *)
FinishCapture ==
  /\ phase = "nodes" /\ pending = {}
  /\ table[Version] = before
  /\ checkpoint' = [version |-> before, records |-> Over(records, found)]
  /\ EndCapture
  /\ UNCHANGED <<graphVars, before>>

RefuseCapture ==
  /\ phase = "nodes" /\ pending = {}
  /\ table[Version] # before
  /\ EndCapture
  /\ UNCHANGED <<graphVars, before, checkpoint>>

Init ==
  /\ GraphInit
  /\ phase = "idle"
  /\ before = 0
  /\ depth = 0
  /\ frontier = {} /\ visited = {} /\ expanded = {}
  /\ found = EmptyFingerprints
  /\ pending = {}
  /\ records = EmptyFingerprints
  /\ checkpoint = NoCheckpoint

Next ==
  \/ GraphNext /\ UNCHANGED captureVars
  \/ StartCapture \/ StartRefused \/ StartWalk \/ Expand \/ NextHop \/ EndWalk
  \/ ReadNode \/ FinishCapture \/ RefuseCapture

Spec == Init /\ [][Next]_vars

-----------------------------------------------------------------------------
TypeOK ==
  /\ GraphTypeOK
  /\ phase \in {"idle", "start", "walk", "nodes"}
  /\ before \in Nat /\ depth \in 0..(MaxDepth - 1)
  /\ frontier \subseteq visited /\ expanded \subseteq visited
  /\ visited \subseteq Entities
  /\ pending \subseteq Entities
  /\ DOMAIN found \subseteq Edges /\ DOMAIN records \subseteq Entities

(* still_current: "A true answer means a comparison would be empty and     *)
(* need not be run at all".  While the version is the checkpoint's, its    *)
(* records are the ones a capture taken now would find, although they were *)
(* read one by one while other processes were committing.                  *)
StillCurrentIsHonest ==
  checkpoint # NoCheckpoint /\ checkpoint.version = table[Version] =>
    checkpoint.records = Neighbourhood(table)
=============================================================================
