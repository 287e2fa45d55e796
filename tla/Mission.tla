------------------------------- MODULE Mission -------------------------------
(***************************************************************************)
(* path_sender and the planner's EGOReplanFSM, joined by the /waypoints    *)
(* topic, under a referee (external: the simulator) that announces the     *)
(* start, and goals one after the other.                                   *)
(***************************************************************************)
EXTENDS Naturals, Sequences

CONSTANTS
  Stations, Positions, StationAt, Origin, FirstHub, TopicDepth,  \* of PathSender
  NoPosition,  \* end_goal before the referee has announced one
  PathLen,     \* PathLen[s]: points of the recorded path of station s
  PointNum,    \* of ReplanFSM
  MaxGoals     \* bound: goals announced

VARIABLES
  initial_num, end_num, next_initial_num, initial_num_get, end_num_get,
  path_get, initial_path_done, temp_end_goal, path, waypoints,
  exec_state_, have_odom_, have_target_, have_trigger_, have_recv_pre_agent_,
  flag_escape_emergency_, enable_fail_safe_, flag_points_subd_, temp_path_end_,
  waypoints_, suspended, wps_, wpt_id_, final_goal_, traj_id, touch_the_goal,
  flown, stopped, stops,
  initial_pose,  \* the start the referee publishes again and again (external)
  end_goal,      \* the goal it publishes again and again (external)
  goals,         \* what MaxGoals bounds
  patient,       \* it announces the next goal only when a leg is done (external)
  subscribed     \* the planner's subscription has reached path_sender

NoRoute == <<0, 0>>
Routes == Stations \X Stations
RouteLen == [r \in Routes |-> PathLen[r[1]] + PathLen[r[2]] + 3]
RouteEnd == [r \in Routes |-> r[2]]

Sender == INSTANCE PathSender
FSM == INSTANCE ReplanFSM WITH NoEnd <- 0, DroneId <- 0, Swarm <- FALSE, MaxStops <- 0

pathVars == <<initial_num, end_num, next_initial_num, initial_num_get, end_num_get,
              path_get, initial_path_done, temp_end_goal, path>>
senderVars == <<pathVars, waypoints, subscribed>>
fsmVars == <<exec_state_, have_odom_, have_target_, have_trigger_, have_recv_pre_agent_,
             flag_escape_emergency_, enable_fail_safe_, flag_points_subd_, temp_path_end_,
             waypoints_, suspended, wps_, wpt_id_, final_goal_, traj_id, touch_the_goal,
             flown, stopped, stops>>
refereeVars == <<initial_pose, end_goal, goals, patient>>
vars == <<senderVars, fsmVars, refereeVars>>

ASSUME MissionAssumption ==
  /\ Stations \subseteq Nat \ {0}
  /\ StationAt \in [Positions -> Stations \cup {0}]
  /\ NoPosition \notin Positions
  /\ FirstHub \in Stations
  /\ TopicDepth \in Nat \ {0}
  /\ PathLen \in [Stations -> Nat \ {0}]
  /\ PointNum \in Nat \ {0, 1}
  /\ MaxGoals \in Nat

Init ==
  /\ Sender!Init /\ FSM!Init
  /\ initial_pose \in {x \in Positions : StationAt[x] # 0}
  /\ end_goal = NoPosition
  /\ goals = 0
  /\ patient \in BOOLEAN
-----------------------------------------------------------------------------
(* The referee and the network.                                            *)

\* The leg to the announced goal has been flown; it takes longer than the
\* two seconds after which path_sender repeats itself.
LegDone ==
  /\ initial_path_done /\ temp_end_goal = end_goal
  /\ exec_state_ = "WAIT_TARGET" /\ ~have_target_ /\ ~suspended
  /\ wps_ # NoRoute /\ RouteEnd[wps_] = StationAt[end_goal]

\* A patient referee sends the drone through the station FirstHub first and
\* never to the station where it is.
Announce ==
  /\ goals < MaxGoals
  /\ goals' = goals + 1
  /\ end_goal' \in Positions \ {end_goal}
  /\ patient => IF goals = 0 THEN StationAt[end_goal'] = FirstHub
                             ELSE LegDone /\ StationAt[end_goal'] \notin {0, StationAt[end_goal]}
  /\ UNCHANGED <<senderVars, fsmVars, initial_pose, patient>>

Subscribe ==
  /\ ~subscribed
  /\ subscribed' = TRUE
  /\ UNCHANGED <<pathVars, waypoints, fsmVars, refereeVars>>
-----------------------------------------------------------------------------
(* path_sender.                                                            *)

ReadStart == Sender!initial_pose_cb(initial_pose) /\ UNCHANGED <<fsmVars, refereeVars>>
ReadGoal ==
  /\ end_goal # NoPosition /\ Sender!end_pose_cb(end_goal)
  /\ UNCHANGED <<fsmVars, refereeVars>>
Tick == Sender!timeCB /\ UNCHANGED <<fsmVars, refereeVars>>
-----------------------------------------------------------------------------
(* The planner.                                                            *)

TakeWayPoints ==
  /\ waypoints # <<>>
  /\ waypoints' = Tail(waypoints)
  /\ LET r == Head(waypoints)
     IN  \/ FSM!WayPointsCallback(r)
         \/ FSM!Repeated(r) /\ UNCHANGED fsmVars
  /\ UNCHANGED <<pathVars, subscribed, refereeVars>>

Exec == FSM!execFSMCallback /\ UNCHANGED <<senderVars, refereeVars>>
Resume == FSM!ResumeWayPoints /\ UNCHANGED <<senderVars, refereeVars>>
Callback ==
  /\ FSM!checkCollisionCallback \/ FSM!odometryCallback
  /\ UNCHANGED <<senderVars, refereeVars>>

Next == Announce \/ Subscribe \/ ReadStart \/ ReadGoal \/ Tick
          \/ TakeWayPoints \/ Exec \/ Resume \/ Callback

Spec == Init /\ [][Next]_vars

(***************************************************************************)
(* Timers fire, topics that are published again and again are read, and a  *)
(* message that has reached the planner's queue is handled.                *)
(***************************************************************************)
Fairness ==
  /\ WF_vars(ReadStart) /\ WF_vars(ReadGoal) /\ WF_vars(Tick) /\ WF_vars(Subscribe)
  /\ WF_vars(TakeWayPoints) /\ WF_vars(Exec) /\ WF_vars(Resume)
FairSpec == Spec /\ Fairness
-----------------------------------------------------------------------------
(***************************************************************************)
(* Under a patient referee, every leg the drone takes up starts at the     *)
(* station where the leg before it ended, although path_sender decides by  *)
(* its own timer and by a start value of next_initial_num which leg that   *)
(* was.                                                                    *)
(***************************************************************************)
LegsConnect ==
  [][patient /\ wps_ # NoRoute /\ wps_' # wps_ => wps_'[1] = wps_[2]]_vars

(***************************************************************************)
(* What makes the last goal win, whatever the referee does: once the       *)
(* planner's queue is empty and no callback waits, the route it flies ends *)
(* at the goal path_sender took last.  A route may be ignored as a         *)
(* repetition, pushed out of the queue, published before the subscription  *)
(* or overwritten in the waiting loop, but never the newest one.           *)
(***************************************************************************)
SettledOnGoal ==
  path_get /\ waypoints = <<>> /\ ~suspended /\ wps_ # NoRoute =>
    wps_[2] = StationAt[temp_end_goal]

(***************************************************************************)
(* Once the goal stays the same, and if missions end, the drone ends up    *)
(* flying to it and to no other: goals replaced between two ticks, routes  *)
(* published before the subscription, repeated, or replaced in the waiting *)
(* loop do no harm.  A goal at the origin is one path_sender believes to   *)
(* have taken already, until it has taken another.                         *)
(***************************************************************************)
LastGoalFlown ==
  []<>(exec_state_ = "WAIT_TARGET") =>
    \A x \in Positions :
      <>[](end_goal = x) /\ StationAt[x] # 0 /\ (x = Origin => <>end_num_get) =>
        <>[](wps_[2] = StationAt[x])
=============================================================================
