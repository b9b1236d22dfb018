SPECIFICATION FairSpec
CONSTANTS
  r1 = r1
  r2 = r2
  Runners = {r1, r2}
  NumObjects = 3
  MaxTime = 5
  Added <- LagAdded
  Modified <- LagModified
  PageSize = 1
  MaxPages = 2
  UseEtag = TRUE
  Version = "V21"
  TagScope = "page"
  NoTag = NoTag
  OverclaimsMore = TRUE
  MaxFaults = 1
INVARIANTS
  CursorNeverAheadOfStore
  CompleteCoversFeed
PROPERTIES
  CopySpec
  FeedCaughtUp
