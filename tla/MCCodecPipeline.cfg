SPECIFICATION Spec
CONSTANTS
  p1 = p1
  p2 = p2
  f1 = f1
  c1 = c1
  c2 = c2
  Paths <- MCPaths
  Forwarding <- MCForwarding
  CodecList <- MCCodecList
  InputPaths <- MCInputPaths
  Rows <- MCRows
  Room = 2
  ScheduleThreshold = 2
  MaxSerial <- MCMaxSerial
INVARIANTS TypeOK CountIsHolders CounterIsLive InputsLive
PROPERTIES DoneWhenAllSent EveryPacketPasses
CHECK_DEADLOCK FALSE
