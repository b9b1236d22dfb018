--------------------------- MODULE MCGraphCapture ---------------------------
(* GraphCapture for TLC: two entities and the edge between them, written   *)
(* by two processes while a third captures their neighbourhood.            *)
EXTENDS GraphCapture, TLC, FiniteSets

CONSTANTS e1, e2, x1

OneEdge == [x \in {x1} |-> {e1, e2}]
AnyNat == Nat

ConnsSymmetry == Permutations(Conns)
=============================================================================
