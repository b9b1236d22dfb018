\* Every sample of every topic, and the machines up to their bounds.
SPECIFICATION LawsSpec
CONSTANTS
  None = None
  Samples <- MCSamples
  Resolvable <- MCResolvable
  Ids = {1, 2, 3}
  Actors = {"a", ""}
  Contexts = {"p", ""}
  MaxHistory = 2
  Entries <- MCEntries
  Decisions <- MCDecisions
  Documents = {1, 2}
  CheckpointNames = {1, 2}
  LabelValues = {"x", "y", "z"}
  MaxCalls = 3
  TokenBudgets = {None, 0, 1, 2}
  MaxTokens = 3
  EndOfTime = 3
  SourceIds = {1, 2}
  MaxSteps = 2
  MaxReferences = 2
  MaxOriginals = 2
  Nodes <- MCNodes
  Graphs <- MCGraphs
  Imports <- MCImports
  MaxImports = 1
  Entities <- MCEntities
  Observables <- MCObservables
  Limits <- MCLimits
  Queries <- MCQueries
  PermittedLevels <- MCPermitted
INVARIANTS
  ComparisonIsExact
  AssessmentsHold
  IdentityIsReviewed
  TablesAnswerForCalls
  StopsWithItsParent
  BuiltReadsBack
  NothingIsGuessed
  CanonicalFormIsStable
  MappingAccounts
  WhatIsSaidLastHolds
  NothingPassesTheGuards
  PackKeepsWhatItMust
  StaysInside
  CompleteIsReachable
CHECK_DEADLOCK FALSE
