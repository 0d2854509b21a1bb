SPECIFICATION AnalysisSpec
CONSTANTS
  Contents <- MCContents
  Queries <- MCQueries
  Buckets <- MCBuckets
  Calls <- MCCalls
  Misshapen = Misshapen
  MinSample = 3
  ValueTopN = 2
  GroupsTopN = 2
  RowsAttachThreshold = 4
  PerGroupTuning = 0
  MaxAnalysisLimit = 3
  MaxRefreshes = 1
INVARIANT
  HavingOverOutputs
