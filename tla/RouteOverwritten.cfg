SPECIFICATION Spec
CONSTANTS
  A = A
  B = B
  C = C
  NoRoute = NoRoute
  Routes = {A, B, C}
  RouteLen <- MCRouteLen
  RouteEnd <- MCRouteEnd
  NoEnd <- MCNoEnd
  PointNum = 2
  DroneId = 0
  Swarm = FALSE
  MaxStops = 0
INVARIANTS
  IndexInRoute
