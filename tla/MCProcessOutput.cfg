\* Two generations overlap on one channel; a pipe holds fewer lines than are printed.
SPECIFICATION OutputFairSpec
CONSTANTS
  PipeSize = 2
  MaxSpawns = 2
  MaxLines = 3
INVARIANTS LinesComeInOrder
PROPERTIES OutputArrives
CHECK_DEADLOCK FALSE
