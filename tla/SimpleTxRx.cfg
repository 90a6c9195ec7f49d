\* The Python example: a receive timeout of 2 ticks, a slack of 2.
SPECIFICATION FairSpec
CONSTANTS
  TIMEOUT = 2
  SLACK = 2
  MaxJoin = 5
  MaxFrees = 2
INVARIANTS
  JoinIsEnough
  KeepsContract
PROPERTIES
  MainEnds
CHECK_DEADLOCK FALSE
