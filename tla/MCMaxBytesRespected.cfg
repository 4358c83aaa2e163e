SPECIFICATION Spec
CONSTANTS
  a = a
  b = b
  c = c
  NULL = NULL
  PathList <- MCTwoPaths
  MaxPackets = 2
INVARIANT MaxBytesRespected
CHECK_DEADLOCK FALSE
