SPECIFICATION FairSpec
CONSTANTS
  k1 = k1
  k2 = k2
  clarify = clarify
  Keys <- MCKeys
  Clarify = clarify
  Batches <- MCBatches
  Failures <- MCFailures
  CallTokens <- MCCallTokens
  MaxTurns = 3
  MaxBudget = 3
INVARIANTS
  QIndexConserved
  EveryCallAnswered
  NoSuccessRepeated
  FinalizedAsReturned
PROPERTIES
  Terminates
