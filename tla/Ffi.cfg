\* A C program: a queue of 2, buffers that are too short and too long.
SPECIFICATION Spec
CONSTANTS
  Frames <- MCFrames
  MinCap = 2
  MaxCap = 2
  BufSizes = {1, 3}
  StaleByte = 9
  MaxBoxes = 3
INVARIANTS
  HandlesOwnBoxes
PROPERTIES
  RefinesQueue
