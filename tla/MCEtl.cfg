SPECIFICATION FairSpec
CONSTANTS
  Lanes = {"pg", "csv", "seed"}
  Loads <- MCLoads
  Stamped = {1}
  RowCounts = {0, 1, 2}
  MinRows = 1
  ReadyRows = 2
  MaxStaleness = 1
  RetentionDays = 1
  MaxRun = 3
  MaxVersion = 2
  MaxDay = 2
INVARIANTS FailureTold BackupsWhole NeverAheadOfTables
PROPERTIES GateTruth NeverBehindSchema RecentBackupsKept RunEnds
CHECK_DEADLOCK FALSE
