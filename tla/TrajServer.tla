----------------------------- MODULE TrajServer -----------------------------
(* The trajectory server (plan_manage/src/traj_server.cpp): the callbacks of one *)
(* single-threaded node, which turns the planner's last trajectory into a        *)
(* position command at every tick of its timer and stops doing so when the       *)
(* planner's heartbeat is lost. Times are kept as ages, counted up to the last   *)
(* value that is compared with anything; a position of a trajectory is the age   *)
(* it is flown at.                                                               *)
EXTENDS Integers

CONSTANTS Timeout,   \* the age of a heartbeat after which it is lost (0.5 s)
          Duration   \* the duration of a trajectory

ASSUME ServerAssumption == /\ Timeout \in Nat
                           /\ Duration \in Nat

VARIABLES heard,          \* heartbeat_time_ is not 0: there was a heartbeat
          heartbeat_age,  \* time_now - heartbeat_time_
          receive_traj_,
          traj_id_,       \* the trajectory in traj_, numbered as published; 0: none
          traj_age,       \* time_now - start_time_
          odom_inited,    \* first_yaw_ is that of an odometry, no more 0
          dropped         \* the trajectory dropped last for a lost heartbeat (history)

serverVars == <<heard, heartbeat_age, receive_traj_, traj_id_, traj_age,
                odom_inited, dropped>>

AgeUpTo(age, limit) == IF age < limit THEN age ELSE limit

(* A position_command: where on which trajectory, and with which heading. *)
Command == [traj : Nat \ {0}, at : 0 .. Duration, aligned : BOOLEAN]

InitServer == /\ heard = FALSE
              /\ heartbeat_age = Timeout + 1
              /\ receive_traj_ = FALSE
              /\ traj_id_ = 0
              /\ traj_age = 0
              /\ odom_inited = FALSE
              /\ dropped = 0

(* The clock goes on by one. *)
ServerAges ==
    /\ heartbeat_age' = AgeUpTo(heartbeat_age + 1, Timeout + 1)
    /\ traj_age' = AgeUpTo(traj_age + 1, Duration)
    /\ UNCHANGED <<heard, receive_traj_, traj_id_, odom_inited, dropped>>

(* Mutant: a heartbeat makes the server take up its trajectory again. *)
Mut_heartbeatCallback ==
    /\ heard' = TRUE
    /\ heartbeat_age' = 0
    /\ receive_traj_' = (traj_id_ # 0)
    /\ UNCHANGED <<traj_id_, traj_age, odom_inited, dropped>>

(* The heartbeat is dated when it is handled, not when it was sent. *)
heartbeatCallback ==
    /\ heard' = TRUE
    /\ heartbeat_age' = 0
    /\ UNCHANGED <<receive_traj_, traj_id_, traj_age, odom_inited, dropped>>

(* Mutant: a trajectory that is being followed is not replaced. *)
Mut_polyTrajCallback(traj) ==
    IF receive_traj_ THEN UNCHANGED serverVars
    ELSE /\ traj_id_' = traj.id
         /\ traj_age' = traj.age
         /\ receive_traj_' = TRUE
         /\ UNCHANGED <<heard, heartbeat_age, odom_inited, dropped>>

(* The new trajectory replaces the old one, dated by its sender. The two refusals *)
(* (an order other than 5, a wrong number of coefficients) are left out: the      *)
(* planner sends no such message.                                                 *)
polyTrajCallback(traj) ==
    /\ traj_id_' = traj.id
    /\ traj_age' = traj.age
    /\ receive_traj_' = TRUE
    /\ UNCHANGED <<heard, heartbeat_age, odom_inited, dropped>>

odometryCallback ==
    /\ ~odom_inited
    /\ odom_inited' = TRUE
    /\ UNCHANGED <<heard, heartbeat_age, receive_traj_, traj_id_, traj_age, dropped>>

(* cmdCallback returns before anything else without a heartbeat or a trajectory. *)
Commands == heard /\ receive_traj_

(* Mutant: the trajectory is evaluated at the time that is left of it. *)
Mut_CommandNow == [traj |-> traj_id_, at |-> Duration - traj_age, aligned |-> odom_inited]

(* The position after traj_age, and the end position from then on. A trajectory   *)
(* dated in the future, of which the end position is published too, does not      *)
(* arise: planner and server read one clock.                                      *)
CommandNow == [traj |-> traj_id_, at |-> traj_age, aligned |-> odom_inited]

(* Mutant: the lost heartbeat is reported only. *)
Mut_DropWhenLost == UNCHANGED serverVars

(* What cmdCallback does to the server's state: a lost heartbeat ends the        *)
(* trajectory, but the command of this tick is still published.                  *)
DropWhenLost ==
    IF heartbeat_age > Timeout
    THEN /\ receive_traj_' = FALSE
         /\ dropped' = traj_id_
         /\ UNCHANGED <<heard, heartbeat_age, traj_id_, traj_age, odom_inited>>
    ELSE UNCHANGED serverVars
=============================================================================
