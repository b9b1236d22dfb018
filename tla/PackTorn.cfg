\* One claim and one edge read apart, with a commit between them.
SPECIFICATION ServingSpec
CONSTANTS
  None = None
  Catalogue <- MCCatalogue
  Configs <- MCConfigs
  Requests <- MCRequests
  Formats = {"json"}
  MaxCommits = 1
INVARIANTS
  PackDescribesItsVersion
CHECK_DEADLOCK FALSE
