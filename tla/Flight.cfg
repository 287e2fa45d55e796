CONSTANTS
  Timeout = 1
  Duration = 1
  Climb = 1
  TakeOff = 2
  HeartbeatDepth = 1
  TrajectoryDepth = 1
  CommandDepth = 2
  MaxTrajs = 2
SPECIFICATION FairSpec
INVARIANTS
  TypeOK
  DroppedStaysDropped
PROPERTIES
  TakeOffOnce
  NeverFliesBack
  DeadPlannerSilences
  FlownToItsEnd
