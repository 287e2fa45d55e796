CONSTANTS
  ScanStamps = {1, 2, 4, 6}
  ImuStamps = {1, 3, 5, 6}
  Garbage = {0, 9}
  MaxScans = 5
  MaxImus = 4
  MaxIniCount = 1
  LoopBacks = {"lidar", "imu"}
SPECIFICATION Spec
CHECK_DEADLOCK FALSE
INVARIANTS OwnTime RealtimeKeepsUp FilterReachesScan NoScanStuck
PROPERTY ImuOfSpan
