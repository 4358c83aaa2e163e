SPECIFICATION FairSpec
CONSTANTS
  net = net
  loc = loc
  fromProxy = fromProxy
  NULL = NULL
  NetListeners <- MCNetListeners
  LocalListeners <- MCLocalListeners
  NetPaths = {1}
  LocalPaths = {3}
  NetConns <- MCNetConns
  LocalConns = {}
  PathOf <- MCPathOf
  Forward <- MCForward
  IdLen = 2
  MaxData = 2
  MaxTimeouts = 2
  MaxBindFails = 1
INVARIANTS TypeOK RightPath
PROPERTIES PeersComeUp DestructorReturns
CHECK_DEADLOCK FALSE
