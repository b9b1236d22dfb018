SPECIFICATION Spec
CONSTANTS
  r1 = r1
  r2 = r2
  Runners = {r1}
  NumVersions = 3
  MaxTime = 4
  Modified <- TiedModified
  Updated <- TiedModified
  Replaces <- NoReplaces
  Unrenderable = {}
  PageSize = 1
  MaxPages = 3
  OverclaimsMore = FALSE
  MaxFaults = 0
INVARIANT
  CompleteCoversFeed
