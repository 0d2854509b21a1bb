SPECIFICATION Spec
CONSTANTS
  ta = ta
  tb = tb
  anyTask = anyTask
  lesson = lesson
  template = template
  noAnswer = noAnswer
  NoTask = anyTask
  MinScore = 1
  Tasks <- MCTasks
  TaskList <- MCTaskList
  TaskFacets <- MCTaskFacets
  Lessons <- MCLessons
  Template = template
  NoAnswer = noAnswer
  CallFacets <- MCCallFacets
  Stores <- MCStores
  Notes <- MCNotes
  Limit = 2
  Breadth = 20
  Runs = 1
  Attempts = 3
INVARIANTS
  HintTruthful
