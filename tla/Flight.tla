------------------------------- MODULE Flight -------------------------------
(* From the planner to the rotors: the planner (as far as the others see it: its *)
(* heartbeat, its trajectories, its silence while it plans and its death), the   *)
(* trajectory server and the controller, joined by three topics, and the clock.  *)
EXTENDS TrajServer, Px4Ctrl

CONSTANTS HeartbeatDepth,   \* messages each topic keeps for its subscriber
          TrajectoryDepth,  \* (10, 10, and 100 of position_command)
          CommandDepth,
          MaxTrajs          \* bound: trajectories that reach the server's queue

ASSUME FlightAssumption == /\ HeartbeatDepth \in Nat
                           /\ TrajectoryDepth \in Nat \ {0}
                           /\ CommandDepth \in Nat \ {0}
                           /\ MaxTrajs \in Nat

VARIABLES planner,     \* "idle", "planning" or "dead"
          posted,      \* trajectories that reached the server's queue so far
          linked,      \* the topics whose publisher and subscriber have met
          heartbeats,  \* heartbeats waiting for the server
          trajectories,\* trajectories waiting for the server, with their ages
          commands     \* position commands waiting for the controller

plannerVars == <<planner, posted>>
topicVars == <<heartbeats, trajectories, commands>>
vars == <<plannerVars, linked, topicVars, serverVars, controllerVars>>

Topic == {"trajectory", "heartbeat", "position_command"}

Init == /\ planner = "idle"
        /\ posted = 0
        /\ linked = {}
        /\ heartbeats = 0
        /\ trajectories = <<>>
        /\ commands = <<>>
        /\ InitServer
        /\ InitController

(* A full queue loses its oldest message. *)
Enqueue(queue, depth, m) ==
    IF Len(queue) < depth THEN Append(queue, m) ELSE Append(Tail(queue), m)

-----------------------------------------------------------------------------
(* The planner. *)

(* execFSMCallback: the heartbeat comes first, then the state machine may plan. *)
ExecTimer ==
    /\ planner = "idle"
    /\ heartbeats' = IF "heartbeat" \in linked /\ heartbeats < HeartbeatDepth
                     THEN heartbeats + 1 ELSE heartbeats
    /\ planner' \in {"idle", "planning"}
    /\ UNCHANGED <<posted, linked, trajectories, commands, serverVars, controllerVars>>

(* checkCollisionCallback plans without a heartbeat, once there is a trajectory. *)
SafetyTimer ==
    /\ planner = "idle"
    /\ posted > 0
    /\ planner' = "planning"
    /\ UNCHANGED <<posted, linked, topicVars, serverVars, controllerVars>>

(* The end of callReboundReplan without success. *)
PlanFails ==
    /\ planner = "planning"
    /\ planner' = "idle"
    /\ UNCHANGED <<posted, linked, topicVars, serverVars, controllerVars>>

(* ... and with success, or callEmergencyStop: the trajectory starts now.  Before *)
(* the server has subscribed it is lost.                                          *)
PlanPublished ==
    /\ planner = "planning"
    /\ planner' = "idle"
    /\ \/ /\ "trajectory" \in linked
          /\ posted < MaxTrajs
          /\ posted' = posted + 1
          /\ trajectories' = Enqueue(trajectories, TrajectoryDepth,
                                      [id |-> posted + 1, age |-> 0])
       \/ "trajectory" \notin linked /\ UNCHANGED <<posted, trajectories>>
    /\ UNCHANGED <<linked, heartbeats, commands, serverVars, controllerVars>>

PlannerDies ==
    /\ planner # "dead"
    /\ planner' = "dead"
    /\ UNCHANGED <<posted, linked, topicVars, serverVars, controllerVars>>

-----------------------------------------------------------------------------
(* The trajectory server. *)

HandleHeartbeat ==
    /\ heartbeats > 0
    /\ heartbeats' = heartbeats - 1
    /\ heartbeatCallback
    /\ UNCHANGED <<plannerVars, linked, trajectories, commands, controllerVars>>

HandleTrajectory ==
    /\ trajectories # <<>>
    /\ trajectories' = Tail(trajectories)
    /\ polyTrajCallback(Head(trajectories))
    /\ UNCHANGED <<plannerVars, linked, heartbeats, commands, controllerVars>>

HandleOdometry ==
    /\ odometryCallback
    /\ UNCHANGED <<plannerVars, linked, topicVars, controllerVars>>

(* A tick of cmd_timer that publishes. *)
cmdCallback ==
    /\ Commands
    /\ DropWhenLost
    /\ commands' = IF "position_command" \in linked
                   THEN Enqueue(commands, CommandDepth, CommandNow) ELSE commands
    /\ UNCHANGED <<plannerVars, linked, heartbeats, trajectories, controllerVars>>

-----------------------------------------------------------------------------
ControllerLoop(odom, imu) ==
    /\ Loop(commands, odom, imu)
    /\ commands' = <<>>
    /\ UNCHANGED <<plannerVars, linked, heartbeats, trajectories, serverVars>>

Subscribe(topic) ==
    /\ topic \notin linked
    /\ linked' = linked \cup {topic}
    /\ UNCHANGED <<plannerVars, topicVars, serverVars, controllerVars>>

TimePasses ==
    /\ ServerAges
    /\ trajectories' = [k \in DOMAIN trajectories |->
                          [trajectories[k] EXCEPT !.age = AgeUpTo(@ + 1, Duration)]]
    /\ UNCHANGED <<plannerVars, linked, heartbeats, commands, controllerVars>>

-----------------------------------------------------------------------------
PlanEnds == PlanFails \/ PlanPublished

Next ==
    \/ ExecTimer \/ SafetyTimer \/ PlanEnds \/ PlannerDies
    \/ HandleHeartbeat \/ HandleTrajectory \/ HandleOdometry \/ cmdCallback
    \/ \E odom, imu \in BOOLEAN : ControllerLoop(odom, imu)
    \/ \E topic \in Topic : Subscribe(topic)
    \/ TimePasses

Spec == Init /\ [][Next]_vars

(* The clock goes on, timers fire, callbacks and loops are run, planning ends,    *)
(* topics connect and both sensors send; no plan has to succeed, and nothing      *)
(* bounds how long any of it takes.  The planner's callback queue is first-in     *)
(* first-out: its safety timer cannot keep its other timer waiting for ever.      *)
Fairness ==
    /\ WF_vars(TimePasses)
    /\ SF_vars(ExecTimer) /\ WF_vars(PlanEnds)
    /\ WF_vars(HandleHeartbeat) /\ WF_vars(HandleTrajectory)
    /\ WF_vars(HandleOdometry) /\ WF_vars(cmdCallback)
    /\ WF_vars(ControllerLoop(TRUE, TRUE))
    /\ \A topic \in Topic : WF_vars(Subscribe(topic))

FairSpec == Spec /\ Fairness

-----------------------------------------------------------------------------
Trajectory == [id : Nat \ {0}, age : 0 .. Duration]

(* Every variable keeps to its type and every queue to its length; a command is  *)
(* there whenever the controller takes one (input.cpp:135-199).                  *)
TypeOK ==
    /\ planner \in {"idle", "planning", "dead"}
    /\ posted \in 0 .. MaxTrajs
    /\ linked \in SUBSET Topic
    /\ heartbeats \in 0 .. HeartbeatDepth
    /\ trajectories \in Seq(Trajectory) /\ Len(trajectories) <= TrajectoryDepth
    /\ commands \in Seq(Command) /\ Len(commands) <= CommandDepth
    /\ heard \in BOOLEAN
    /\ heartbeat_age \in 0 .. Timeout + 1
    /\ receive_traj_ \in BOOLEAN
    /\ traj_id_ \in Nat
    /\ traj_age \in 0 .. Duration
    /\ odom_inited \in BOOLEAN
    /\ dropped \in Nat
    /\ odom_init \in BOOLEAN /\ imu_init \in BOOLEAN /\ cmd_init \in BOOLEAN
    /\ cmd_data \in IF cmd_init THEN Command ELSE {<<>>}
    /\ cnt \in 0 .. TakeOff
    /\ rotors \in {"off", "climb", "settle", "hover", "command"}

(* The take-off is flown to its end, whenever commands and sensor data come, and  *)
(* once: a drone that has flown a command never goes back to hovering or to the   *)
(* take-off (controller.cpp:352-443).                                             *)
GoesOn(r, s) ==
    /\ s = "off" => r = "off"
    /\ r = "settle" => s # "climb"
    /\ r = "hover" => s \in {"hover", "command"}
    /\ r = "command" => s = "command"

TakeOffOnce == [][/\ GoesOn(rotors, rotors')
                  /\ rotors' \in {"hover", "command"} => cnt' = TakeOff]_vars

(* c leads on from b: a later trajectory, or the same one further on, with a      *)
(* heading that is never unset again.                                             *)
LeadsOn(b, c) ==
    /\ b.traj < c.traj \/ (b.traj = c.traj /\ b.at <= c.at)
    /\ b.aligned => c.aligned

(* The command in use never goes back, to an older trajectory or on its own one,  *)
(* whatever waits in the two queues, is lost from them or replaced meanwhile      *)
(* (traj_server.cpp:50-87, 232-356).                                              *)
NeverFliesBack == [][cmd_init => LeadsOn(cmd_data, cmd_data')]_vars

(* A trajectory dropped for a lost heartbeat is not taken up again when the       *)
(* heartbeats come back, nor out of the queue; the tick that drops it publishes   *)
(* its last command (traj_server.cpp:245-251).                                    *)
DroppedStaysDropped == receive_traj_ => dropped < traj_id_

(* A dead planner falls silent: after its last heartbeats and trajectories have   *)
(* been handled no command is published any more (traj_server.cpp:235-251).       *)
DeadPlannerSilences == <>(planner = "dead") => <>[]~Commands

(* The last trajectory that reaches the server is flown to its end, unless the    *)
(* planner dies or the server has lost the heartbeat meanwhile: the planner is    *)
(* not told of that (traj_server.cpp:245, ego_replan_fsm.cpp:536-577).            *)
FlownToItsEnd ==
    \A i \in 1 .. MaxTrajs :
        posted = i ~> \/ posted > i \/ planner = "dead" \/ dropped = i
                      \/ rotors = "command" /\ cmd_data.traj = i /\ cmd_data.at = Duration

(* What FlownToItsEnd rests on: the newest trajectory is kept.  Whatever the      *)
(* server's queue loses, it waits as the last one or is the one the server has,   *)
(* which flies it unless it has been dropped (traj_server.cpp:50-87, 245).        *)
NewestKept ==
    posted # 0 =>
        IF trajectories # <<>> THEN trajectories[Len(trajectories)].id = posted
        ELSE traj_id_ = posted /\ (receive_traj_ \/ dropped = posted)

(* What DeadPlannerSilences rests on: when the planner is dead everything that     *)
(* could make the server publish only runs down.  No heartbeat and no trajectory   *)
(* is added, the age of the heartbeat grows once the last one has been handled,    *)
(* nothing but a trajectory still waiting starts the server again, and the first   *)
(* tick after the timeout stops it (traj_server.cpp:235-251).                      *)
RunsDown ==
    /\ planner' = "dead"
    /\ heartbeats' <= heartbeats
    /\ Len(trajectories') <= Len(trajectories)
    /\ heartbeats = 0 => heartbeat_age <= heartbeat_age'
    /\ heartbeats = 0 /\ trajectories = <<>> => (Commands' => Commands)
    /\ heartbeat_age > Timeout /\ cmdCallback => ~Commands'

DeadPlannerRunsDown == [][planner = "dead" => RunsDown]_vars
=============================================================================
