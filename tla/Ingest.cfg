\* Every bundle of three objects of the catalogue, in both modes, with and
\* without retention, with one fault anywhere.
CONSTANTS
  Ids = {"actor", "namesake", "tool", "long", "garbled", "unnamed",
         "address", "pattern", "observation", "marking", "nested", "uses",
         "indicates", "indicates2", "revoked", "of", "of2", "halved"}
  Names = {"apt", "rat", "long", "cut", "bell"}
  Artefacts = {"ip", "url"}
  None = None
  Cut <- CutNames
  Unusable = {"bell"}
  MaxFanOut = 3
  MaxRecords = 6
  Feeds <- AllFeeds
  Unreadable = Unreadable
  Oversized <- TooLong
  Modes = {"strict", "permissive"}
  MaxFaults = 1
SPECIFICATION FairSpec
INVARIANTS
  EveryObjectAccounted
  OnlyLandedIsStored
  EvidenceBacksRecords
  MappingIgnoresOrder
PROPERTIES
  UnobstructedFeedLands
CHECK_DEADLOCK FALSE
