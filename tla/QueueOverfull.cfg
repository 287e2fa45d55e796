SPECIFICATION Spec
CONSTANTS
  DroneNum = 1
  GroundStationNum = 1
  SelfId = 1
  Peers <- MCPeers
  Topics = {"/goal"}
  Routes <- MCRoutes
  Wanted <- MCWanted
  QueueSize = 1
  PipeDepth = 1
  MaxCalls = 4
  MaxFaults = 0
CHECK_DEADLOCK FALSE
INVARIANT QueueBounded
