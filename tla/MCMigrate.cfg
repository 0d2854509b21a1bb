SPECIFICATION Spec
CONSTANTS
  p1 = p1
  p2 = p2
  nobody = nobody
  NoOne = nobody
  Programs <- MCPrograms
  MaxStarts = 4
  MaxWrites = 1
INVARIANTS
  VersionTruthful
  AloneSucceeds
PROPERTIES
  OnlyForward
CHECK_DEADLOCK FALSE
