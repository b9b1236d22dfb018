SPECIFICATION FairSpec
CONSTANTS
  r1 = r1
  r2 = r2
  Runners = {r1, r2}
  NumVersions = 3
  MaxTime = 5
  Modified <- DistinctModified
  Updated <- SeparateUpdated
  Replaces <- UpdateReplaces
  Unrenderable = {2}
  PageSize = 1
  MaxPages = 2
  OverclaimsMore = TRUE
  MaxFaults = 1
PROPERTIES
  CopySpec
  EveryRunEnds
  FeedCaughtUp
