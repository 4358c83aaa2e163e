SPECIFICATION Spec
CONSTANTS
  a = a
  b = b
  c = c
  NULL = NULL
  PathList <- MCTwoPaths
  MaxPackets = 2
INVARIANT HeaderFirst
CHECK_DEADLOCK FALSE
