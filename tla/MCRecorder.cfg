SPECIFICATION FairSpec
CONSTANTS
  c1 = c1
  c2 = c2
  Callers <- MCCallers
  Roles <- MCRoles
  Tokens <- MCTokens
  Outcomes <- MCOutcomes
  Capacity = 1
  MaxRecords = 3
  MaxFinalizes = 2
INVARIANTS
  StepsInOrder
  NothingLost
  NoSendOnClosed
  SummaryMatchesSteps
PROPERTIES
  ImplementsLog
  CallsReturn
