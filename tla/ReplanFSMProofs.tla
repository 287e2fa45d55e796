--------------------------- MODULE ReplanFSMProofs ---------------------------
(***************************************************************************)
(* Theorems about ReplanFSM, for every set of routes and every number of   *)
(* waypoints, stops and callbacks.                                         *)
(***************************************************************************)
EXTENDS ReplanFSM, TLAPS

\* Every step is one of the callbacks, or changes nothing.
LEMMA StepCases ==
  ASSUME [Next]_vars
  PROVE  \/ ExecInit \/ ExecWaitTarget \/ ExecFirstTraj \/ ExecReplan \/ ExecNextWaypoint
         \/ mondifyInCollisionFinalGoal \/ ExecFinalWaypoint \/ ExecTimeToReplan
         \/ ExecEmergencyStop \/ checkCollisionCallback \/ mandatoryStopCallback
         \/ odometryCallback \/ RecvBroadcastMINCOTrajCallback \/ ResumeWayPoints
         \/ (\E r \in Routes : WayPointsCallback(r)) \/ UNCHANGED vars
BY DEF Next, execFSMCallback, Other

\* A route has at least one waypoint.
LEMMA WaypointNum ==
  ASSUME TypeOK
  PROVE  waypoint_num_ \in Nat \ {0}
BY FSMAssumption DEF TypeOK, waypoint_num_

LEMMA IndexFacts ==
  /\ 0 \in Indexes /\ PointNum \in Indexes
  /\ NoEnd \in Ends
  /\ \A r \in Routes : RouteEnd[r] \in Ends
  /\ \A g \in Routes \cup {NoRoute}, i \in Indexes : <<g, i>> \in Goal
  /\ <<NoRoute, 0>> \in Goal
BY FSMAssumption DEF Indexes, Ends, Goal
-----------------------------------------------------------------------------
LEMMA InitTypeOK == Init => TypeOK
<1> SUFFICES ASSUME Init PROVE TypeOK
  OBVIOUS
<1>1. stops \in 0..MaxStops /\ wpt_id_ \in Indexes /\ final_goal_ \in Goal /\ flown \in Goal
  BY IndexFacts, FSMAssumption DEF Init
<1>2. exec_state_ \in ExecState /\ temp_path_end_ \in Ends /\ traj_id \in {0, 1}
  BY IndexFacts DEF Init, ExecState
<1>3. waypoints_ \in Routes \cup {NoRoute} /\ wps_ \in Routes \cup {NoRoute}
  BY DEF Init
<1> QED
  BY <1>1, <1>2, <1>3 DEF Init, TypeOK

\* The assignment of a later waypoint keeps the index and the goal in their types.
LEMMA AssignType ==
  ASSUME TypeOK, AssignNextWaypoint
  PROVE  /\ wpt_id_' \in Indexes
         /\ final_goal_' \in Goal
         /\ have_target_' \in BOOLEAN /\ have_trigger_' \in BOOLEAN
         /\ wps_' \in Routes \cup {NoRoute} /\ traj_id' \in {0, 1}
         /\ exec_state_' \in ExecState
         /\ flown' \in Goal /\ stopped' \in BOOLEAN
<1>1. PICK j \in (wpt_id_ + 1)..(waypoint_num_ - 1) :
        wpt_id_' = j /\ planNextWaypoint(<<wps_, j>>)
  BY DEF AssignNextWaypoint
<1>2. j \in Nat /\ j < waypoint_num_
  BY <1>1, WaypointNum DEF TypeOK, Indexes
<1>3. j \in Indexes
  <2>1. CASE waypoints_ = NoRoute
    BY <2>1, <1>2, FSMAssumption DEF waypoint_num_, Indexes
  <2>2. CASE waypoints_ # NoRoute
    BY <2>2, <1>2, FSMAssumption DEF waypoint_num_, TypeOK, Indexes
  <2> QED
    BY <2>1, <2>2
<1> QED
  BY <1>1, <1>3, IndexFacts DEF AssignNextWaypoint, planNextWaypoint, TypeOK, ExecState

\* The start of a route does, too.
LEMMA LoadType ==
  ASSUME TypeOK, NEW r \in Routes \cup {NoRoute}, readGivenWpsAndPlan(r)
  PROVE  /\ wpt_id_' \in Indexes /\ wps_' = r /\ final_goal_' = <<r, 0>>
         /\ final_goal_' \in Goal
         /\ have_target_' = TRUE /\ have_trigger_' = TRUE
         /\ traj_id' \in {0, 1}
         /\ exec_state_' \in ExecState
         /\ flown' \in Goal /\ stopped' \in BOOLEAN
BY IndexFacts DEF readGivenWpsAndPlan, planNextWaypoint, TypeOK, ExecState

LEMMA NextTypeOK == TypeOK /\ [Next]_vars => TypeOK'
<1> SUFFICES ASSUME TypeOK, [Next]_vars PROVE TypeOK'
  OBVIOUS
<1> USE DEF routeVars, goalVars, trajVars, stopVars, swarmVars, ExecState
<1>1. CASE ExecInit
  BY <1>1 DEF ExecInit, TypeOK
<1>2. CASE ExecWaitTarget
  BY <1>2 DEF ExecWaitTarget, TypeOK
<1>3. CASE ExecFirstTraj
  <2>1. flag_escape_emergency_' \in BOOLEAN
    BY <1>3 DEF ExecFirstTraj, TypeOK
  <2>2. exec_state_' \in ExecState /\ UNCHANGED <<routeVars, goalVars, enable_fail_safe_, stops, swarmVars>>
    BY <1>3 DEF ExecFirstTraj, TypeOK
  <2>3. PlanSucceeds \/ PlanFails
    BY <1>3 DEF ExecFirstTraj
  <2> QED
    BY <2>1, <2>2, <2>3 DEF PlanSucceeds, PlanFails, TypeOK
<1>4. CASE ExecReplan
  <2>1. CASE AssignNextWaypoint /\ touch_the_goal' \in BOOLEAN
    BY <1>4, <2>1, AssignType DEF ExecReplan, TypeOK
  <2>2. ASSUME PlanSucceeds \/ PlanFails,
               exec_state_' \in {"REPLAN_TRAJ", "EXEC_TRAJ"},
               UNCHANGED <<routeVars, goalVars, stopVars, swarmVars>>
        PROVE  TypeOK'
    <3>1. /\ traj_id' \in {0, 1} /\ touch_the_goal' \in BOOLEAN
          /\ flown' \in Goal /\ stopped' \in BOOLEAN
      BY <2>2 DEF PlanSucceeds, PlanFails, TypeOK
    <3> QED
      BY <2>2, <3>1 DEF TypeOK
  <2>3. \/ AssignNextWaypoint /\ touch_the_goal' \in BOOLEAN
        \/ /\ PlanSucceeds \/ PlanFails
           /\ exec_state_' \in {"REPLAN_TRAJ", "EXEC_TRAJ"}
           /\ UNCHANGED <<routeVars, goalVars, stopVars, swarmVars>>
    BY <1>4 DEF ExecReplan
  <2> QED
    BY <2>1, <2>2, <2>3
<1>5. CASE ExecNextWaypoint
  BY <1>5, AssignType DEF ExecNextWaypoint, TypeOK
<1>6. CASE mondifyInCollisionFinalGoal
  BY <1>6 DEF mondifyInCollisionFinalGoal, planNextWaypoint, TypeOK
<1>7. CASE ExecFinalWaypoint
  BY <1>7, IndexFacts DEF ExecFinalWaypoint, TypeOK
<1>8. CASE ExecTimeToReplan
  BY <1>8 DEF ExecTimeToReplan, TypeOK
<1>9. CASE ExecEmergencyStop
  <2>1. exec_state_' \in ExecState
    BY <1>9 DEF ExecEmergencyStop, TypeOK
  <2>2. traj_id' \in {0, 1} /\ stopped' \in BOOLEAN
    BY <1>9 DEF ExecEmergencyStop, TypeOK
  <2>3. /\ flag_escape_emergency_' = FALSE
        /\ UNCHANGED <<touch_the_goal, flown, routeVars, goalVars, enable_fail_safe_, stops, swarmVars>>
    BY <1>9 DEF ExecEmergencyStop
  <2> QED
    BY <2>1, <2>2, <2>3 DEF TypeOK
<1>10. CASE checkCollisionCallback
  <2>1. stops' \in 0..MaxStops /\ enable_fail_safe_' \in BOOLEAN
    BY <1>10, FSMAssumption DEF checkCollisionCallback, TypeOK
  <2>2. exec_state_' \in ExecState /\ UNCHANGED <<routeVars, goalVars, flag_escape_emergency_, swarmVars>>
    BY <1>10 DEF checkCollisionCallback, TypeOK
  <2>3. PlanSucceeds \/ PlanFails \/ UNCHANGED trajVars
    BY <1>10 DEF checkCollisionCallback
  <2>4. /\ traj_id' \in {0, 1} /\ touch_the_goal' \in BOOLEAN
        /\ flown' \in Goal /\ stopped' \in BOOLEAN
    BY <2>3 DEF PlanSucceeds, PlanFails, TypeOK
  <2> QED
    BY <2>1, <2>2, <2>4 DEF TypeOK
<1>11. CASE mandatoryStopCallback
  <2>1. stops' \in 0..MaxStops
    BY <1>11, FSMAssumption DEF mandatoryStopCallback, TypeOK
  <2>2. /\ exec_state_' \in ExecState /\ enable_fail_safe_' \in BOOLEAN
        /\ UNCHANGED <<routeVars, goalVars, trajVars, flag_escape_emergency_, swarmVars>>
    BY <1>11 DEF mandatoryStopCallback
  <2> QED
    BY <2>1, <2>2 DEF TypeOK
<1>12. CASE odometryCallback
  BY <1>12 DEF odometryCallback, TypeOK
<1>13. CASE RecvBroadcastMINCOTrajCallback
  <2>1. exec_state_' \in ExecState
    BY <1>13 DEF RecvBroadcastMINCOTrajCallback, TypeOK
  <2>2. have_recv_pre_agent_' \in BOOLEAN
    BY <1>13 DEF RecvBroadcastMINCOTrajCallback, TypeOK
  <2>3. UNCHANGED <<have_odom_, routeVars, goalVars, trajVars, stopVars>>
    BY <1>13 DEF RecvBroadcastMINCOTrajCallback
  <2> QED
    BY <2>1, <2>2, <2>3 DEF TypeOK
<1>14. CASE ResumeWayPoints
  BY <1>14, LoadType DEF ResumeWayPoints, TypeOK
<1>15. CASE \E r \in Routes : WayPointsCallback(r)
  <2>1. PICK r \in Routes : WayPointsCallback(r)
    BY <1>15
  <2>2. CASE exec_state_ = "WAIT_TARGET"
    <3>1. /\ wpt_id_' \in Indexes /\ wps_' = r /\ final_goal_' \in Goal
          /\ have_target_' = TRUE /\ have_trigger_' = TRUE /\ traj_id' \in {0, 1}
          /\ exec_state_' \in ExecState /\ flown' \in Goal /\ stopped' \in BOOLEAN
      BY <2>1, <2>2, LoadType DEF WayPointsCallback
    <3>2. /\ temp_path_end_' \in Ends /\ flag_points_subd_' = TRUE /\ waypoints_' = r
          /\ suspended' = FALSE /\ UNCHANGED <<touch_the_goal, stopVars, swarmVars>>
      BY <2>1, <2>2, IndexFacts DEF WayPointsCallback
    <3> QED
      BY <3>1, <3>2 DEF TypeOK
  <2>3. CASE exec_state_ # "WAIT_TARGET"
    BY <2>1, <2>3, IndexFacts DEF WayPointsCallback, TypeOK
  <2> QED
    BY <2>2, <2>3
<1>16. CASE UNCHANGED vars
  BY <1>16 DEF vars, TypeOK
<1> QED
  BY <1>1, <1>2, <1>3, <1>4, <1>5, <1>6, <1>7, <1>8, <1>9, <1>10, <1>11, <1>12,
     <1>13, <1>14, <1>15, <1>16, StepCases

\* Type correctness of the planner's state machine, for every set of routes.
THEOREM TypeCorrect == Spec => []TypeOK
BY InitTypeOK, NextTypeOK, PTL DEF Spec
-----------------------------------------------------------------------------
(* The index and the route: outside the waiting loop, waypoint_num_ counts *)
(* the route being flown.                                                  *)
RouteInv ==
  ~suspended => /\ wps_ = waypoints_
                /\ wps_ # NoRoute => wpt_id_ < RouteLen[wps_]

LEMMA NextRouteInv == TypeOK /\ RouteInv /\ [Next]_vars => RouteInv'
<1> SUFFICES ASSUME TypeOK, RouteInv, [Next]_vars PROVE RouteInv'
  OBVIOUS
<1> USE DEF routeVars, goalVars, RouteInv
<1>1. CASE UNCHANGED <<suspended, wps_, waypoints_, wpt_id_>>
  BY <1>1
<1>2. CASE AssignNextWaypoint /\ UNCHANGED routeVars
  BY <1>2, WaypointNum DEF AssignNextWaypoint, waypoint_num_, TypeOK, Indexes
<1>3. CASE ExecFinalWaypoint
  BY <1>3, FSMAssumption DEF ExecFinalWaypoint, TypeOK
<1>4. CASE ResumeWayPoints
  BY <1>4, FSMAssumption DEF ResumeWayPoints, readGivenWpsAndPlan, TypeOK
<1>5. CASE \E r \in Routes : WayPointsCallback(r)
  BY <1>5, FSMAssumption DEF WayPointsCallback, readGivenWpsAndPlan, TypeOK
<1> QED
  BY <1>1, <1>2, <1>3, <1>4, <1>5, StepCases
     DEF vars, ExecInit, ExecWaitTarget, ExecFirstTraj, ExecReplan, ExecNextWaypoint,
         mondifyInCollisionFinalGoal, ExecTimeToReplan, ExecEmergencyStop,
         checkCollisionCallback, mandatoryStopCallback, odometryCallback,
         RecvBroadcastMINCOTrajCallback

\* The index lies within the route being flown whenever no route is waiting.
THEOREM IndexMatchesRouteHolds == Spec => []IndexMatchesRoute
<1>1. Init => RouteInv
  BY DEF Init, RouteInv
<1>2. RouteInv => IndexMatchesRoute
  BY DEF RouteInv, IndexMatchesRoute
<1> QED
  BY <1>1, <1>2, NextRouteInv, TypeCorrect, PTL DEF Spec
-----------------------------------------------------------------------------
(* What is executed: EXEC_TRAJ is only entered with a trajectory for the   *)
(* current goal, and a new goal leaves it.                                 *)
LEMMA NextExecutesCurrentGoal ==
  TypeOK /\ ExecutesCurrentGoal /\ [Next]_vars => ExecutesCurrentGoal'
<1> SUFFICES ASSUME ExecutesCurrentGoal, [Next]_vars PROVE ExecutesCurrentGoal'
  OBVIOUS
<1> USE DEF goalVars, trajVars, ExecutesCurrentGoal
<1>1. CASE PlanSucceeds /\ UNCHANGED goalVars
  BY <1>1 DEF PlanSucceeds
<1>2. CASE exec_state_' # "EXEC_TRAJ"
  BY <1>2
<1>3. CASE UNCHANGED <<exec_state_, final_goal_, flown, stopped, traj_id>>
  BY <1>3
<1> QED
  BY <1>1, <1>2, <1>3, StepCases
     DEF vars, ExecInit, ExecWaitTarget, ExecFirstTraj, ExecReplan, ExecNextWaypoint,
         mondifyInCollisionFinalGoal, ExecFinalWaypoint, ExecTimeToReplan, ExecEmergencyStop,
         checkCollisionCallback, mandatoryStopCallback, odometryCallback,
         RecvBroadcastMINCOTrajCallback, ResumeWayPoints, WayPointsCallback,
         AssignNextWaypoint, readGivenWpsAndPlan, planNextWaypoint, PlanFails

\* The trajectory executed was planned for the current goal and is monitored.
THEOREM ExecutesCurrentGoalHolds == Spec => []ExecutesCurrentGoal
<1>1. Init => ExecutesCurrentGoal
  BY DEF Init, ExecutesCurrentGoal
<1> QED
  BY <1>1, NextExecutesCurrentGoal, TypeCorrect, PTL DEF Spec
-----------------------------------------------------------------------------
(* Stops: NoFailSafeRecovery is inductive, since EMERGENCY_STOP is only    *)
(* entered in the step that ends the fail-safe, which never comes back.    *)
LEMMA NextNoFailSafeRecovery ==
  NoFailSafeRecovery /\ [Next]_vars => NoFailSafeRecovery'
<1> SUFFICES ASSUME NoFailSafeRecovery, [Next]_vars PROVE NoFailSafeRecovery'
  OBVIOUS
<1> USE DEF stopVars, NoFailSafeRecovery
<1>1. CASE UNCHANGED <<exec_state_, enable_fail_safe_>>
  BY <1>1
<1>2. CASE exec_state_' \notin {"EMERGENCY_STOP", "GEN_NEW_TRAJ"}
  BY <1>2
<1>3. CASE exec_state_' = "EMERGENCY_STOP" /\ ~enable_fail_safe_'
  BY <1>3
<1>4. CASE ExecEmergencyStop
  BY <1>1, <1>4 DEF ExecEmergencyStop
<1>5. CASE checkCollisionCallback
  BY <1>5 DEF checkCollisionCallback
<1>6. CASE ExecFirstTraj
  BY <1>6 DEF ExecFirstTraj
<1>7. CASE \E r \in Routes : WayPointsCallback(r)
  BY <1>7 DEF WayPointsCallback, readGivenWpsAndPlan, planNextWaypoint
<1> QED
  BY <1>1, <1>2, <1>3, <1>4, <1>5, <1>6, <1>7, StepCases
     DEF vars, ExecInit, ExecWaitTarget, ExecReplan, ExecNextWaypoint,
         mondifyInCollisionFinalGoal, ExecFinalWaypoint, ExecTimeToReplan,
         mandatoryStopCallback, odometryCallback, RecvBroadcastMINCOTrajCallback,
         ResumeWayPoints, AssignNextWaypoint, readGivenWpsAndPlan, planNextWaypoint

\* The recovery from EMERGENCY_STOP is dead code, whatever orders the stops.
THEOREM NoFailSafeRecoveryHolds == Spec => []NoFailSafeRecovery
<1>1. Init => NoFailSafeRecovery
  BY DEF Init, NoFailSafeRecovery
<1> QED
  BY <1>1, NextNoFailSafeRecovery, PTL DEF Spec
-----------------------------------------------------------------------------
(* The goal: while no route is waiting it is the waypoint of the index, or *)
(* the last one when case 3 has reset the index.                           *)
GoalInv ==
  ~suspended /\ wps_ # NoRoute =>
    \/ final_goal_ = <<wps_, wpt_id_>>
    \/ wpt_id_ = 0 /\ final_goal_ = <<wps_, RouteLen[wps_] - 1>>

\* case 3 fires at the last waypoint.
LEMMA FinalIsLast ==
  ASSUME TypeOK, RouteInv, GoalInv, ~suspended, wps_ # NoRoute, wpt_id_ + 1 >= waypoint_num_
  PROVE  final_goal_ = <<wps_, RouteLen[wps_] - 1>>
<1>1. RouteLen[wps_] \in Nat \ {0} /\ wpt_id_ \in Nat /\ waypoint_num_ = RouteLen[wps_]
  BY FSMAssumption DEF TypeOK, RouteInv, waypoint_num_, Indexes
<1>2. wpt_id_ = RouteLen[wps_] - 1 \/ final_goal_ = <<wps_, RouteLen[wps_] - 1>>
  BY <1>1 DEF RouteInv, GoalInv
<1> QED
  BY <1>2 DEF GoalInv

LEMMA NextGoalInv == TypeOK /\ RouteInv /\ GoalInv /\ [Next]_vars => GoalInv'
<1> SUFFICES ASSUME TypeOK, RouteInv, GoalInv, [Next]_vars PROVE GoalInv'
  OBVIOUS
<1> USE DEF routeVars, goalVars
<1>1. CASE UNCHANGED <<suspended, wps_, wpt_id_, final_goal_>>
  BY <1>1 DEF GoalInv
<1>2. CASE AssignNextWaypoint
  BY <1>2 DEF AssignNextWaypoint, planNextWaypoint, GoalInv
<1>3. CASE ExecFinalWaypoint
  BY <1>3, FinalIsLast DEF ExecFinalWaypoint, GoalInv
<1>4. CASE ResumeWayPoints
  BY <1>4 DEF ResumeWayPoints, readGivenWpsAndPlan, planNextWaypoint, GoalInv
<1>5. CASE \E r \in Routes : WayPointsCallback(r)
  BY <1>5 DEF WayPointsCallback, readGivenWpsAndPlan, planNextWaypoint, GoalInv
<1> QED
  BY <1>1, <1>2, <1>3, <1>4, <1>5, StepCases
     DEF vars, ExecInit, ExecWaitTarget, ExecFirstTraj, ExecReplan, ExecNextWaypoint,
         mondifyInCollisionFinalGoal, planNextWaypoint, ExecTimeToReplan, ExecEmergencyStop,
         checkCollisionCallback, mandatoryStopCallback, odometryCallback,
         RecvBroadcastMINCOTrajCallback

LEMMA OnlyCase3Ends == [Next]_vars /\ MissionEnds => ExecFinalWaypoint
BY StepCases
   DEF vars, MissionEnds, ExecInit, ExecWaitTarget, ExecFirstTraj, ExecReplan, ExecNextWaypoint,
       mondifyInCollisionFinalGoal, planNextWaypoint, AssignNextWaypoint, ExecTimeToReplan,
       ExecEmergencyStop, checkCollisionCallback, mandatoryStopCallback, odometryCallback,
       RecvBroadcastMINCOTrajCallback, ResumeWayPoints, WayPointsCallback

\* A mission ends at the last waypoint, unless a new route is waiting.
THEOREM EndsAtLastWaypointHolds == Spec => EndsAtLastWaypoint
<1>1. Init => RouteInv /\ GoalInv
  BY DEF Init, RouteInv, GoalInv
<1>2. TypeOK /\ RouteInv /\ GoalInv /\ [Next]_vars => [MissionEnds => suspended \/ AtLastWaypoint]_vars
  BY OnlyCase3Ends, FinalIsLast DEF ExecFinalWaypoint, AtLastWaypoint
<1> QED
  BY <1>1, <1>2, NextRouteInv, NextGoalInv, TypeCorrect, PTL DEF Spec, EndsAtLastWaypoint
-----------------------------------------------------------------------------
(* The order of the goals: with a target, the goal is not ahead of the     *)
(* index; without one, the index is at the start of its route.             *)
OrderInv ==
  /\ have_target_ => final_goal_[1] = wps_ /\ final_goal_[2] <= wpt_id_
  /\ ~have_target_ => wpt_id_ = 0 \/ (final_goal_ = <<NoRoute, 0>> /\ wps_ = NoRoute)

\* case 1 at the last waypoint presupposes a target, or that no route came yet
LEMMA ModifyKeepsOrder ==
  ASSUME TypeOK, OrderInv, wpt_id_ + 1 >= waypoint_num_
  PROVE  final_goal_[1] = wps_ /\ final_goal_[2] <= wpt_id_
<1>1. waypoint_num_ \in Nat \ {0, 1}
  BY FSMAssumption DEF waypoint_num_, TypeOK
<1>2. wpt_id_ # 0 /\ wpt_id_ \in Nat
  BY <1>1 DEF TypeOK, Indexes
<1> QED
  BY <1>2 DEF OrderInv, TypeOK

LEMMA NextOrderInv == TypeOK /\ OrderInv /\ [Next]_vars => OrderInv'
<1> SUFFICES ASSUME TypeOK, OrderInv, [Next]_vars PROVE OrderInv'
  OBVIOUS
<1> USE DEF routeVars, goalVars
<1>1. CASE UNCHANGED goalVars
  BY <1>1 DEF OrderInv
<1>2. CASE AssignNextWaypoint /\ UNCHANGED routeVars
  <2>1. PICK j \in (wpt_id_ + 1)..(waypoint_num_ - 1) :
          wpt_id_' = j /\ final_goal_' = <<wps_, j>>
    BY <1>2 DEF AssignNextWaypoint, planNextWaypoint
  <2>2. j \in Nat /\ have_target_' = TRUE /\ wps_' = wps_
    BY <1>2, <2>1, WaypointNum DEF AssignNextWaypoint, planNextWaypoint, TypeOK, Indexes
  <2> QED
    BY <1>2, <2>1, <2>2 DEF OrderInv
<1>3. CASE mondifyInCollisionFinalGoal
  <2>1. final_goal_[1] = wps_ /\ final_goal_[2] <= wpt_id_
    BY <1>3, ModifyKeepsOrder DEF mondifyInCollisionFinalGoal
  <2> QED
    BY <1>3, <2>1 DEF mondifyInCollisionFinalGoal, planNextWaypoint, OrderInv
<1>4. CASE ExecFinalWaypoint
  BY <1>4 DEF ExecFinalWaypoint, OrderInv
<1>5. CASE \E r : readGivenWpsAndPlan(r)
  BY <1>5 DEF readGivenWpsAndPlan, planNextWaypoint, OrderInv
<1>6. CASE \E r \in Routes : WayPointsCallback(r)
  BY <1>1, <1>5, <1>6 DEF WayPointsCallback
<1>7. CASE ResumeWayPoints
  BY <1>5, <1>7 DEF ResumeWayPoints
<1> QED
  BY <1>1, <1>2, <1>3, <1>4, <1>6, <1>7, StepCases
     DEF vars, ExecInit, ExecWaitTarget, ExecFirstTraj, ExecReplan, ExecNextWaypoint,
         ExecTimeToReplan, ExecEmergencyStop, checkCollisionCallback, mandatoryStopCallback,
         odometryCallback, RecvBroadcastMINCOTrajCallback

\* A goal gives way only to a later waypoint, or to the start of a new route.
THEOREM RouteFlownInOrderHolds == Spec => RouteFlownInOrder
<1> DEFINE Forward ==
      have_target_ /\ final_goal_' # final_goal_ =>
        \/ exec_state_ = "WAIT_TARGET" /\ final_goal_' = <<waypoints_', 0>>
        \/ final_goal_'[1] = final_goal_[1] /\ final_goal_'[2] > final_goal_[2]
<1>1. Init => OrderInv
  BY FSMAssumption DEF Init, OrderInv
<1>2. TypeOK /\ OrderInv /\ [Next]_vars => [Forward]_vars
  <2> SUFFICES ASSUME TypeOK, OrderInv, [Next]_vars, have_target_, final_goal_' # final_goal_
               PROVE  Forward
    OBVIOUS
  <2> USE DEF routeVars, goalVars
  <2>1. CASE AssignNextWaypoint
    <3>1. PICK j \in (wpt_id_ + 1)..(waypoint_num_ - 1) : final_goal_' = <<wps_, j>>
      BY <2>1 DEF AssignNextWaypoint, planNextWaypoint
    <3>2. final_goal_[1] = wps_ /\ final_goal_[2] <= wpt_id_ /\ final_goal_[2] \in Nat
      BY DEF OrderInv, TypeOK, Goal
    <3>3. j > wpt_id_ /\ j \in Nat /\ wpt_id_ \in Nat
      BY <3>1, WaypointNum DEF TypeOK, Indexes
    <3> QED
      BY <3>1, <3>2, <3>3
  <2>2. CASE ResumeWayPoints
    BY <2>2 DEF ResumeWayPoints, readGivenWpsAndPlan, planNextWaypoint
  <2>3. CASE \E r \in Routes : WayPointsCallback(r)
    BY <2>3 DEF WayPointsCallback, readGivenWpsAndPlan, planNextWaypoint
  <2> QED
    BY <2>1, <2>2, <2>3, StepCases
       DEF vars, ExecInit, ExecWaitTarget, ExecFirstTraj, ExecReplan, ExecNextWaypoint,
           mondifyInCollisionFinalGoal, planNextWaypoint, ExecFinalWaypoint, ExecTimeToReplan,
           ExecEmergencyStop, checkCollisionCallback, mandatoryStopCallback, odometryCallback,
           RecvBroadcastMINCOTrajCallback
<1> QED
  BY <1>1, <1>2, NextOrderInv, TypeCorrect, PTL DEF Spec, RouteFlownInOrder
-----------------------------------------------------------------------------
(* The window at the end of a mission: before the first route has come the *)
(* machine has no target, and case 3, the only other way into WAIT_TARGET, *)
(* takes it away.                                                          *)
NoTargetInv == OldGoalNotResumed /\ (exec_state_ = "INIT" => ~have_target_)

LEMMA NextNoTargetInv == NoTargetInv /\ [Next]_vars => NoTargetInv'
<1> SUFFICES ASSUME NoTargetInv, [Next]_vars PROVE NoTargetInv'
  OBVIOUS
<1> USE DEF routeVars, goalVars, NoTargetInv, OldGoalNotResumed
<1>1. CASE UNCHANGED <<exec_state_, have_target_, suspended>>
  BY <1>1
<1>2. CASE exec_state_' \notin {"INIT", "WAIT_TARGET"}
  BY <1>2
<1>3. CASE ExecInit
  BY <1>3 DEF ExecInit
<1>4. CASE ExecFinalWaypoint
  BY <1>4 DEF ExecFinalWaypoint
<1>5. CASE ResumeWayPoints
  BY <1>5 DEF ResumeWayPoints, readGivenWpsAndPlan, planNextWaypoint
<1>6. CASE \E r \in Routes : WayPointsCallback(r)
  BY <1>6 DEF WayPointsCallback, readGivenWpsAndPlan, planNextWaypoint
<1> QED
  BY <1>1, <1>2, <1>3, <1>4, <1>5, <1>6, StepCases
     DEF vars, ExecWaitTarget, ExecFirstTraj, ExecReplan, ExecNextWaypoint,
         mondifyInCollisionFinalGoal, ExecTimeToReplan, ExecEmergencyStop, AssignNextWaypoint,
         checkCollisionCallback, mandatoryStopCallback, odometryCallback,
         RecvBroadcastMINCOTrajCallback, planNextWaypoint, stopVars, swarmVars

\* A route that waits is not overtaken by the goal of the mission that ends.
THEOREM OldGoalNotResumedHolds == Spec => []OldGoalNotResumed
<1>1. Init => NoTargetInv
  BY DEF Init, NoTargetInv, OldGoalNotResumed
<1>2. NoTargetInv => OldGoalNotResumed
  BY DEF NoTargetInv
<1> QED
  BY <1>1, <1>2, NextNoTargetInv, PTL DEF Spec
=============================================================================
