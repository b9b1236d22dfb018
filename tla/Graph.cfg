\* Two processes importing into one database of either kind, one capturing.
CONSTANTS
  e1 = e1
  e2 = e2
  x1 = x1
  Conns = {c1, c2}
  Entities = {e1, e2}
  Edges = {x1}
  Version = version
  Rows = {e1, e2, x1, version}
  Ends <- OneEdge
  Docs = {1, 2}
  Values <- AnyNat
  Untouched = Untouched
  Backends = {"sqlite", "postgres"}
  MaxUpserts = 2
  MaxTxns = 3
  Root = e1
  MaxDepth = 2
  NoCheckpoint = NoCheckpoint
SYMMETRY ConnsSymmetry
SPECIFICATION Spec
INVARIANTS
  NoDanglingEdge
  NoChangeUncounted
  StillCurrentIsHonest
CHECK_DEADLOCK FALSE
