------------------------------ MODULE ReplanFSM ------------------------------
(***************************************************************************)
(* EGOReplanFSM: the state machine of the planner node, flight type        *)
(* SUBED_POINTS (routes arrive as WayPoints messages).                     *)
(*                                                                         *)
(* The node has one thread: a callback runs to its end, except that        *)
(* WayPointsCallback spins the callback queue itself until the machine is  *)
(* in WAIT_TARGET; until then every other callback runs inside it.         *)
(* Callbacks waiting inside one another return one after the other without *)
(* a timer callback in between and load the same waypoints_, so one flag,  *)
(* suspended, stands for all of them.                                      *)
(*                                                                         *)
(* Geometry (distances, occupancy, elapsed time) and the outcome of the    *)
(* optimiser are nondeterministic.  An index past the end of wps_ reads    *)
(* whatever lies there: the goal <<wps_, index>> is then no waypoint.      *)
(***************************************************************************)
EXTENDS Naturals

CONSTANTS
  Routes,     \* the routes a WayPoints message can hold
  NoRoute,    \* no route yet
  RouteLen,   \* RouteLen[r]: points of the route; path_sender's have three or more
  RouteEnd,   \* RouteEnd[r]: last point of the route
  NoEnd,      \* the value temp_path_end_ starts with
  PointNum,   \* the parameter fsm/waypoint_num, 7: counts until a route has come
  DroneId,    \* manager/drone_id
  Swarm,      \* other drones broadcast their trajectories
  MaxStops    \* bound: mandatory stops and losses of the depth image

ASSUME FSMAssumption ==
  /\ NoRoute \notin Routes
  /\ RouteLen \in [Routes -> Nat \ {0, 1}]
  /\ NoEnd \notin {RouteEnd[r] : r \in Routes}
  /\ PointNum \in Nat \ {0, 1}
  /\ DroneId \in Nat
  /\ Swarm \in BOOLEAN
  /\ MaxStops \in Nat

VARIABLES
  exec_state_,
  have_odom_, have_target_, have_trigger_, have_recv_pre_agent_,
  flag_escape_emergency_, enable_fail_safe_,
  flag_points_subd_,  \* the route of temp_path_end_ has been taken
  temp_path_end_,     \* end of the last route taken
  waypoints_,         \* the route in the array waypoints_, counted by waypoint_num_
  suspended,          \* a WayPointsCallback is in its waiting loop
  wps_,               \* the route being flown
  wpt_id_,            \* index into wps_, 0 first
  final_goal_,        \* <<route, index>> the waypoint final_goal_ was read from
  traj_id,            \* local_traj.traj_id, of which only "> 0" is ever read
  touch_the_goal,     \* the local target is the final goal
  flown,              \* the goal of the trajectory last published
  stopped,            \* the trajectory last published is that of callEmergencyStop
  stops               \* what MaxStops bounds

routeVars == <<flag_points_subd_, temp_path_end_, waypoints_, suspended>>
goalVars == <<have_target_, have_trigger_, wps_, wpt_id_, final_goal_>>
trajVars == <<traj_id, touch_the_goal, flown, stopped>>
stopVars == <<flag_escape_emergency_, enable_fail_safe_, stops>>
swarmVars == <<have_odom_, have_recv_pre_agent_>>
vars == <<exec_state_, routeVars, goalVars, trajVars, stopVars, swarmVars>>

ExecState == {"INIT", "WAIT_TARGET", "GEN_NEW_TRAJ", "REPLAN_TRAJ", "EXEC_TRAJ",
              "EMERGENCY_STOP", "SEQUENTIAL_START"}
Goal == (Routes \cup {NoRoute}) \X Nat

\* Every WayPointsCallback that takes a route sets both.
waypoint_num_ == IF waypoints_ = NoRoute THEN PointNum ELSE RouteLen[waypoints_]

\* wpt_id_ has no initialiser: below or not below waypoint_num_ - 1.
Init ==
  /\ exec_state_ = "INIT"
  /\ have_odom_ = FALSE /\ have_target_ = FALSE
  /\ have_trigger_ = TRUE /\ have_recv_pre_agent_ = FALSE
  /\ flag_escape_emergency_ = TRUE /\ enable_fail_safe_ = TRUE
  /\ flag_points_subd_ = FALSE /\ temp_path_end_ = NoEnd
  /\ waypoints_ = NoRoute /\ suspended = FALSE
  /\ wps_ = NoRoute /\ wpt_id_ \in {0, PointNum} /\ final_goal_ = <<NoRoute, 0>>
  /\ traj_id = 0 /\ touch_the_goal \in BOOLEAN
  /\ flown = <<NoRoute, 0>> /\ stopped = FALSE
  /\ stops = 0
-----------------------------------------------------------------------------
(* What the callbacks call.                                                *)

\* setLocalTraj and the publication of callReboundReplan for the current goal
PlanSucceeds ==
  /\ traj_id' = 1
  /\ touch_the_goal' \in BOOLEAN
  /\ flown' = final_goal_
  /\ stopped' = FALSE

\* getLocalTarget has moved the local target before the optimiser failed.
PlanFails ==
  /\ touch_the_goal' \in BOOLEAN
  /\ UNCHANGED <<traj_id, flown, stopped>>

\* Mutant: the state is left alone, the goal is not replanned for.
Mut_GoalWithoutReplan(wp) ==
  /\ final_goal_' = wp /\ have_target_' = TRUE /\ traj_id' = 0
  /\ UNCHANGED <<exec_state_, flown, stopped>>

\* planNextWaypoint never fails; setGlobalTraj resets traj_id and duration.
planNextWaypoint(wp) ==
  /\ final_goal_' = wp
  /\ have_target_' = TRUE
  /\ traj_id' = 0
  /\ exec_state_' = IF exec_state_ = "WAIT_TARGET" THEN exec_state_ ELSE "REPLAN_TRAJ"
  /\ UNCHANGED <<flown, stopped>>

\* Mutant: the comparison is with waypoint_num_.
Mut_IndexOffByOne ==
  /\ wpt_id_ < waypoint_num_
  /\ \E j \in (wpt_id_ + 1)..waypoint_num_ : wpt_id_' = j /\ planNextWaypoint(<<wps_, j>>)
  /\ UNCHANGED <<have_trigger_, wps_>>

\* the do-while loop: waypoints the drone is near to are passed over
AssignNextWaypoint ==
  /\ wpt_id_ + 1 < waypoint_num_
  /\ \E j \in (wpt_id_ + 1)..(waypoint_num_ - 1) :
       /\ wpt_id_' = j
       /\ planNextWaypoint(<<wps_, j>>)
  /\ UNCHANGED <<have_trigger_, wps_>>

\* Mutant: the index is not reset.
Mut_IndexNotReset(r) ==
  /\ have_trigger_' = TRUE /\ wps_' = r
  /\ planNextWaypoint(<<r, wpt_id_>>)
  /\ UNCHANGED wpt_id_

\* have_trigger_ is set and waypoints_ copied to wps_
readGivenWpsAndPlan(r) ==
  /\ have_trigger_' = TRUE
  /\ wps_' = r
  /\ wpt_id_' = 0
  /\ planNextWaypoint(<<r, 0>>)
-----------------------------------------------------------------------------
(* The execution timer: execFSMCallback, one action per state.             *)

ExecInit ==
  /\ exec_state_ = "INIT" /\ have_odom_
  /\ exec_state_' = "WAIT_TARGET"
  /\ UNCHANGED <<routeVars, goalVars, trajVars, stopVars, swarmVars>>

ExecWaitTarget ==
  /\ exec_state_ = "WAIT_TARGET" /\ have_target_ /\ have_trigger_
  /\ exec_state_' = "SEQUENTIAL_START"
  /\ UNCHANGED <<routeVars, goalVars, trajVars, stopVars, swarmVars>>

\* planFromGlobalTraj, in SEQUENTIAL_START and in GEN_NEW_TRAJ
ExecFirstTraj ==
  /\ \/ exec_state_ = "SEQUENTIAL_START" /\ (DroneId = 0 \/ have_recv_pre_agent_)
     \/ exec_state_ = "GEN_NEW_TRAJ"
  /\ \/ /\ PlanSucceeds
        /\ exec_state_' = "EXEC_TRAJ"
        /\ flag_escape_emergency_' = (flag_escape_emergency_ \/ exec_state_ = "GEN_NEW_TRAJ")
     \/ /\ PlanFails
        /\ UNCHANGED <<exec_state_, flag_escape_emergency_>>
  /\ UNCHANGED <<routeVars, goalVars, enable_fail_safe_, stops, swarmVars>>

\* planFromLocalTraj; when it fails near the goal, the next waypoint is tried.
ExecReplan ==
  /\ exec_state_ = "REPLAN_TRAJ"
  /\ \/ /\ PlanSucceeds
        /\ exec_state_' = "EXEC_TRAJ"
        /\ UNCHANGED goalVars
     \/ AssignNextWaypoint /\ touch_the_goal' \in BOOLEAN
     \/ PlanFails /\ UNCHANGED <<exec_state_, goalVars>>
  /\ UNCHANGED <<routeVars, stopVars, swarmVars>>

\* cases 1 and 2: the goal is in obstacles, or near
ExecNextWaypoint ==
  /\ exec_state_ = "EXEC_TRAJ"
  /\ AssignNextWaypoint
  /\ UNCHANGED <<touch_the_goal, routeVars, stopVars, swarmVars>>

\* case 1 at the last waypoint: the goal moves to a free point of the global trajectory
mondifyInCollisionFinalGoal ==
  /\ exec_state_ = "EXEC_TRAJ"
  /\ wpt_id_ + 1 >= waypoint_num_
  /\ planNextWaypoint(final_goal_)
  /\ UNCHANGED <<have_trigger_, wps_, wpt_id_, touch_the_goal, routeVars, stopVars, swarmVars>>

\* Mutant: case 3 is looked at before case 2.
Mut_FinalBeforeNext ==
  /\ exec_state_ = "EXEC_TRAJ" /\ touch_the_goal
  /\ have_target_' = FALSE /\ have_trigger_' = FALSE /\ wpt_id_' = 0
  /\ exec_state_' = "WAIT_TARGET"
  /\ UNCHANGED <<wps_, final_goal_, routeVars, trajVars, stopVars, swarmVars>>

\* Mutant: the target is kept for the next round.
Mut_TargetKept ==
  /\ exec_state_ = "EXEC_TRAJ" /\ touch_the_goal
  /\ wpt_id_ + 1 >= waypoint_num_ /\ wpt_id_' = 0
  /\ exec_state_' = "WAIT_TARGET"
  /\ UNCHANGED <<have_target_, have_trigger_, wps_, final_goal_, routeVars, trajVars, stopVars, swarmVars>>

\* case 3: the trajectory ends at the goal, which before the last waypoint is case 2
ExecFinalWaypoint ==
  /\ exec_state_ = "EXEC_TRAJ"
  /\ touch_the_goal
  /\ wpt_id_ + 1 >= waypoint_num_
  /\ have_target_' = FALSE /\ have_trigger_' = FALSE
  /\ wpt_id_' = 0
  /\ exec_state_' = "WAIT_TARGET"
  /\ UNCHANGED <<wps_, final_goal_, routeVars, trajVars, stopVars, swarmVars>>

\* case 4: time to replan
ExecTimeToReplan ==
  /\ exec_state_ = "EXEC_TRAJ"
  /\ exec_state_' = "REPLAN_TRAJ"
  /\ UNCHANGED <<routeVars, goalVars, trajVars, stopVars, swarmVars>>

\* callEmergencyStop once, then a new trajectory when the drone hovers
ExecEmergencyStop ==
  /\ exec_state_ = "EMERGENCY_STOP"
  /\ IF flag_escape_emergency_
       THEN /\ traj_id' = 1 /\ stopped' = TRUE
            /\ UNCHANGED exec_state_
       ELSE /\ \/ exec_state_' = exec_state_
               \/ enable_fail_safe_ /\ exec_state_' = "GEN_NEW_TRAJ"
            /\ UNCHANGED <<traj_id, stopped>>
  /\ flag_escape_emergency_' = FALSE
  /\ UNCHANGED <<touch_the_goal, flown, routeVars, goalVars, enable_fail_safe_, stops, swarmVars>>
-----------------------------------------------------------------------------
(* The safety timer and the subscriptions.                                 *)

\* Depth loss orders a stop, then the same call checks the trajectory and,
\* when it finds a collision, plans again whatever the state.
checkCollisionCallback ==
  /\ exec_state_ # "WAIT_TARGET" /\ traj_id > 0
  /\ \E depth_lost, dangerous \in BOOLEAN :
       /\ depth_lost \/ dangerous
       /\ depth_lost => stops < MaxStops
       /\ stops' = IF depth_lost THEN stops + 1 ELSE stops
       /\ enable_fail_safe_' = (enable_fail_safe_ /\ ~depth_lost)
       /\ IF dangerous
            THEN \/ PlanSucceeds /\ exec_state_' = "EXEC_TRAJ"
                 \/ PlanFails /\ exec_state_' = "REPLAN_TRAJ"
            ELSE exec_state_' = "EMERGENCY_STOP" /\ UNCHANGED trajVars
  /\ UNCHANGED <<routeVars, goalVars, flag_escape_emergency_, swarmVars>>

\* Mutant: the fail-safe stays on.
Mut_FailSafeKept ==
  /\ stops < MaxStops /\ stops' = stops + 1
  /\ exec_state_' = "EMERGENCY_STOP"
  /\ UNCHANGED <<routeVars, goalVars, trajVars, flag_escape_emergency_, enable_fail_safe_, swarmVars>>

mandatoryStopCallback ==
  /\ stops < MaxStops
  /\ stops' = stops + 1
  /\ exec_state_' = "EMERGENCY_STOP"
  /\ enable_fail_safe_' = FALSE
  /\ UNCHANGED <<routeVars, goalVars, trajVars, flag_escape_emergency_, swarmVars>>

odometryCallback ==
  /\ ~have_odom_
  /\ have_odom_' = TRUE
  /\ UNCHANGED <<exec_state_, routeVars, goalVars, trajVars, stopVars, have_recv_pre_agent_>>

\* A trajectory that comes too close is answered in every state; with
\* duration 0 (reset together with traj_id) nothing comes close.
RecvBroadcastMINCOTrajCallback ==
  /\ Swarm
  /\ \/ exec_state_' = exec_state_
     \/ traj_id > 0 /\ exec_state_' = "REPLAN_TRAJ"
  /\ \/ UNCHANGED have_recv_pre_agent_
     \/ DroneId > 0 /\ have_recv_pre_agent_' = TRUE
  /\ UNCHANGED <<have_odom_, routeVars, goalVars, trajVars, stopVars>>

\* A repetition of the route taken last returns at once.
Repeated(r) == flag_points_subd_ /\ temp_path_end_ = RouteEnd[r]

\* Mutant: no waiting loop.
Mut_NoWaiting(r) ==
  /\ ~Repeated(r)
  /\ temp_path_end_' = RouteEnd[r] /\ flag_points_subd_' = TRUE
  /\ waypoints_' = r /\ suspended' = FALSE
  /\ readGivenWpsAndPlan(r)
  /\ UNCHANGED <<touch_the_goal, stopVars, swarmVars>>

\* A route with a new end is taken over at once and flown when the machine
\* waits for a target.
WayPointsCallback(r) ==
  /\ ~Repeated(r)
  /\ temp_path_end_' = RouteEnd[r]
  /\ flag_points_subd_' = TRUE
  /\ waypoints_' = r
  /\ IF exec_state_ = "WAIT_TARGET"
       THEN readGivenWpsAndPlan(r) /\ suspended' = FALSE
       ELSE suspended' = TRUE /\ UNCHANGED <<exec_state_, goalVars, traj_id, flown, stopped>>
  /\ UNCHANGED <<touch_the_goal, stopVars, swarmVars>>

\* the waiting loop ends, and with it the callback
ResumeWayPoints ==
  /\ suspended /\ exec_state_ = "WAIT_TARGET"
  /\ suspended' = FALSE
  /\ readGivenWpsAndPlan(waypoints_)
  /\ UNCHANGED <<flag_points_subd_, temp_path_end_, waypoints_, touch_the_goal, stopVars, swarmVars>>
-----------------------------------------------------------------------------
execFSMCallback ==
  \/ ExecInit \/ ExecWaitTarget \/ ExecFirstTraj \/ ExecReplan
  \/ ExecNextWaypoint \/ mondifyInCollisionFinalGoal \/ ExecFinalWaypoint
  \/ ExecTimeToReplan \/ ExecEmergencyStop

Other ==
  \/ checkCollisionCallback \/ mandatoryStopCallback \/ odometryCallback
  \/ RecvBroadcastMINCOTrajCallback \/ ResumeWayPoints

Next == execFSMCallback \/ Other \/ \E r \in Routes : WayPointsCallback(r)

Spec == Init /\ [][Next]_vars

\* The timers fire and the waiting loop turns; what they find is not fair.
Fairness == WF_vars(execFSMCallback) /\ WF_vars(ResumeWayPoints)
FairSpec == Spec /\ Fairness
-----------------------------------------------------------------------------
\* Where the index can be: within a route, or where no route has set it.
Indexes == {i \in Nat : \E n \in {PointNum + 1} \cup {RouteLen[r] : r \in Routes} : i < n}
Ends == {NoEnd} \cup {RouteEnd[r] : r \in Routes}

\* Types of the state machine's variables.
TypeOK ==
  /\ exec_state_ \in ExecState
  /\ have_odom_ \in BOOLEAN /\ have_recv_pre_agent_ \in BOOLEAN
  /\ have_target_ \in BOOLEAN /\ have_trigger_ \in BOOLEAN
  /\ flag_escape_emergency_ \in BOOLEAN /\ enable_fail_safe_ \in BOOLEAN
  /\ flag_points_subd_ \in BOOLEAN /\ suspended \in BOOLEAN
  /\ temp_path_end_ \in Ends
  /\ waypoints_ \in Routes \cup {NoRoute} /\ wps_ \in Routes \cup {NoRoute}
  /\ wpt_id_ \in Indexes
  /\ final_goal_ \in Goal /\ flown \in Goal
  /\ traj_id \in {0, 1}
  /\ touch_the_goal \in BOOLEAN /\ stopped \in BOOLEAN
  /\ stops \in 0..MaxStops

(***************************************************************************)
(* Outside the waiting loop the counter, the array and the index belong to *)
(* the same route: waypoint_num_ counts wps_, and wpt_id_ indexes into it. *)
(***************************************************************************)
IndexMatchesRoute ==
  ~suspended /\ wps_ # NoRoute => wps_ = waypoints_ /\ wpt_id_ < RouteLen[wps_]

(***************************************************************************)
(* EXEC_TRAJ is entered from five places and its cases trust local_traj to *)
(* lead to the goal: the trajectory being flown was planned for the        *)
(* current goal, is not a stop, and the safety timer watches it.           *)
(***************************************************************************)
ExecutesCurrentGoal ==
  exec_state_ = "EXEC_TRAJ" => flown = final_goal_ /\ ~stopped /\ traj_id > 0

(***************************************************************************)
(* Every stop is ordered together with the end of the fail-safe, so the    *)
(* recovery of EMERGENCY_STOP into GEN_NEW_TRAJ never happens.             *)
(***************************************************************************)
NoFailSafeRecovery ==
  /\ exec_state_ = "EMERGENCY_STOP" => ~enable_fail_safe_
  /\ exec_state_ # "GEN_NEW_TRAJ"

(***************************************************************************)
(* A route is flown forwards: a goal gives way only to a later waypoint of *)
(* the same route, and another route starts at its first waypoint, when    *)
(* the machine waits for a target.  Only a drone without a target, which a *)
(* broadcast or a stop that is overridden has set flying after the end of  *)
(* its mission, goes back.                                                 *)
(***************************************************************************)
RouteFlownInOrder ==
  [][have_target_ /\ final_goal_' # final_goal_ =>
       \/ exec_state_ = "WAIT_TARGET" /\ final_goal_' = <<waypoints_', 0>>
       \/ final_goal_'[1] = final_goal_[1] /\ final_goal_'[2] > final_goal_[2]]_vars

MissionEnds == exec_state_ = "EXEC_TRAJ" /\ exec_state_' = "WAIT_TARGET"
AtLastWaypoint == wps_ # NoRoute => final_goal_ = <<wps_, RouteLen[wps_] - 1>>

\* A mission ends at the last waypoint of its route, unless a new route is waiting.
EndsAtLastWaypoint == [][MissionEnds => suspended \/ AtLastWaypoint]_vars

(***************************************************************************)
(* The end of a mission leaves a window before the waiting callback looks  *)
(* at the state again: the execution timer cannot set off for the old goal *)
(* in it, since WAIT_TARGET is never entered with a target.                *)
(***************************************************************************)
OldGoalNotResumed ==
  suspended /\ exec_state_ = "WAIT_TARGET" => ~have_target_

\* A broadcast sets a drone that waits for a target flying again, to its old goal.
SetOffByBroadcast == exec_state_ = "WAIT_TARGET" /\ exec_state_' = "REPLAN_TRAJ"

(***************************************************************************)
(* A route taken over under way is not forgotten: if missions end, and     *)
(* other drones do not set this one flying after every end, the waiting    *)
(* callback returns and the machine flies its route.                       *)
(***************************************************************************)
NoRouteForgotten ==
  []<>(exec_state_ = "WAIT_TARGET") /\ <>[][~SetOffByBroadcast]_vars =>
    (suspended ~> ~suspended /\ final_goal_ = <<waypoints_, 0>>)

(***************************************************************************)
(* A claim of the comments.                                                *)
(***************************************************************************)
\* The waiting loop is a "protection against replanning under way": a route
\* that arrives meanwhile does not disturb the indexing of the one being flown.
IndexInRoute == wps_ # NoRoute => wpt_id_ < RouteLen[wps_]
=============================================================================
