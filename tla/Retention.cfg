\* Two processes over one database of either kind, transactions of up to two
\* calls; the original at a2 is too large to keep.
CONSTANTS
  Conns = {c1, c2}
  Rows = {a1, a2}
  Values = {"absent", "standard", "hold", "transient"}
  TooLarge = {a2}
  Untouched = Untouched
  Backends = {"sqlite", "postgres"}
  MaxCalls = 2
  MaxTxns = 3
SPECIFICATION Spec
INVARIANTS
  AuditBalances
PROPERTIES
  HeldEvidenceKeptInFile
  DeduplicatedIsHeld
CHECK_DEADLOCK FALSE
