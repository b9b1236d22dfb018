\* One pack and the pack of the same reads an instant later.
SPECIFICATION ServingSpec
CONSTANTS
  None = None
  Catalogue <- MCCatalogue
  Configs <- MCConfigs
  Requests <- MCRequests
  Formats = {"json"}
  MaxCommits = 0
INVARIANTS
  SameAnswerWhenever
CHECK_DEADLOCK FALSE
