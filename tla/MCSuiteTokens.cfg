SPECIFICATION IngestSpec
CONSTANTS
  TaskLists <- MCTaskLists
  EvalOrder <- MCEvalOrder
  Registered <- MCRegistered
  GateNames <- MCGateNames
  Judges <- MCJudges
  JudgeAttempts = 3
  Notes <- MCNotes
  MaxIngests = 0
INVARIANTS
  JudgeCallsStored
