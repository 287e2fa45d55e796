SPECIFICATION FairSpec
CONSTANTS
  A = A
  B = B
  C = C
  NoRoute = NoRoute
  Routes = {A, B, C}
  RouteLen <- MCRouteLen
  RouteEnd <- MCRouteEnd
  NoEnd <- MCNoEnd
  PointNum = 2
  DroneId = 1
  Swarm = TRUE
  MaxStops = 2
INVARIANTS
  TypeOK
  IndexMatchesRoute
  ExecutesCurrentGoal
  NoFailSafeRecovery
PROPERTIES
  RouteFlownInOrder
  EndsAtLastWaypoint
  NoRouteForgotten
