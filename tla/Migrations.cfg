\* Three builds, one of them edited after its first migration.
CONSTANTS
  p1 = p1
  p2 = p2
  p3 = p3
  Openers = {p1, p2, p3}
  LastId = 3
  Checksums <- AllChecksums
  NotApplied = NotApplied
  Latest <- EditedLatest
  Ships <- EditedShips
  MaxFaults = 2
SPECIFICATION FairSpec
INVARIANTS
  SchemaIsOneBuilds
  OpenedOnItsSchema
PROPERTY
  UpgradeCompletes
CHECK_DEADLOCK FALSE
