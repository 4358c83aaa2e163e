SPECIFICATION Spec
CONSTANTS
  a = a
  b = b
  c = c
  NULL = NULL
  PathList <- MCPathList
  MaxPackets = 3
INVARIANTS TypeOK SameDataOnEveryPath CountedIsSent
PROPERTIES AllDataSent
CHECK_DEADLOCK FALSE
