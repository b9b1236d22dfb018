\* Any store of the catalogue, one request of either front, two commits.
SPECIFICATION ServingSpec
CONSTANTS
  None = None
  Catalogue <- MCCatalogue
  Configs <- MCConfigs
  Requests <- MCRequests
  Formats = {"json", "jsonl", "stix", "markdown", "text", "brief", "compact", "yaml", "pdf"}
  MaxCommits = 2
INVARIANTS
  ClaimsAndEdgesWithheld
  CutIsTold
  StampCoversReads
  ClaimsAndEdgesMaySpread
  ListingMissesNothing
CHECK_DEADLOCK FALSE
