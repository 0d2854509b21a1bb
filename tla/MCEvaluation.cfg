SPECIFICATION EvaluationSpec
CONSTANTS
  MaxAnchorDepth = 2
  DecorativeSuffixes <- MCSuffixes
  Precision = 2
  Texts <- MCTexts
  Numerals <- MCNumerals
  Nodes <- MCNodes
  Height <- MCHeight
  Calls <- MCCalls
  Answers <- MCAnswers
  Drafts <- MCDrafts
  TaskFiles <- MCTasks
  MaxCalls = 2
  Paths <- MCPaths
  MaxSampleRows = 2
  Private = {"EU", "US"}
  MaxLost = 1
  TaskList <- MCTaskList
  Scores <- MCScores
  Runs = 2
INVARIANTS
  AddressesDenoteCells
  FailedCallsShiftNothing
  GradedAsDefined
  ValuesMatched
  ShortenedNeverContradicts
  GainIsReal
  JudgedByScores
