SPECIFICATION FairSpec
CONSTANTS
  DroneNum = 2
  GroundStationNum = 1
  SelfId = 2
  Peers <- MCPeers
  Topics = {"/joystick"}
  Routes <- MCRoutes
  Wanted <- MCWanted
  QueueSize = 1
  PipeDepth = 1
  MaxCalls = 2
  MaxFaults = 0
PROPERTIES
  CallerReturns
  DrainsOnceAwake
CHECK_DEADLOCK FALSE
