SPECIFICATION FairSpec
CONSTANTS
  NumThreads = 2
  PathsCount = 1
  Blocks = 3
  RandomOps = 1
  ThreadOffset = 1
  Options <- MCOptions
  MaxFaults = 1
INVARIANTS
  TypeOK
  MeasuredWork
  Unfragmented
  NoStragglers
  NoFalseAlarm
  AllMoved
PROPERTIES
  Ends
\* The program ends.
CHECK_DEADLOCK FALSE
