SPECIFICATION Spec
CONSTANTS
  DroneNum = 1
  GroundStationNum = 1
  SelfId = 1
  Peers <- MCPeers
  Topics = {"/goal", "/odom"}
  Routes <- MCRoutes
  Wanted <- MCWanted
  QueueSize = 1
  PipeDepth = 1
  MaxCalls = 4
  MaxFaults = 2
INVARIANTS
  TypeOK
  EachMessageInOnePlace
  OverrunByOne
PROPERTIES
  ImplementsOrderedChannel
CHECK_DEADLOCK FALSE
