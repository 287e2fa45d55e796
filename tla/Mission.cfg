\* The referee may stop announcing before the drone has a goal to fly to.
CHECK_DEADLOCK FALSE
SPECIFICATION FairSpec
CONSTANTS
  Stations = {3, 5, 7}
  Positions = {1, 2, 4, 5}
  StationAt <- MCStationAt
  Origin = 4
  NoPosition = 0
  FirstHub = 3
  TopicDepth = 2
  PathLen <- MCPathLen
  PointNum = 2
  MaxGoals = 3
PROPERTIES
  LegsConnect
  LastGoalFlown
