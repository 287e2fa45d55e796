SPECIFICATION FairSpec
CONSTANTS
  DroneNum = 1
  GroundStationNum = 1
  SelfId = 1
  Peers <- MCPeers
  Topics = {"/goal"}
  Routes <- MCRoutes
  Wanted <- MCWanted
  QueueSize = 1
  PipeDepth = 1
  MaxCalls = 2
  MaxFaults = 0
CHECK_DEADLOCK FALSE
PROPERTY QueuedIsSent
