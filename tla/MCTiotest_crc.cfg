SPECIFICATION Spec
CONSTANTS
  NumThreads = 2
  PathsCount = 1
  Blocks = 3
  RandomOps = 1
  ThreadOffset = 1
  Options <- MCOptions
  MaxFaults = 0
INVARIANTS
  CrcMeansIoError
\* The program ends.
CHECK_DEADLOCK FALSE
