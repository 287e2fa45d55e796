------------------------------- MODULE Px4Ctrl -------------------------------
(* The controller node (px4ctrl/src): one loop that takes in what has arrived    *)
(* and, once odometry and IMU data have come, publishes rotor speeds: a fixed    *)
(* take-off, then hovering, then whatever the last command asks for. The control *)
(* law is numeric and left out. So are the timeouts of its inputs, which are     *)
(* defined (PX4CtrlFSM.cpp:40-58) and called by nobody.                          *)
EXTENDS Integers, Sequences

CONSTANTS Climb,     \* loops with more than the hovering speed (100)
          TakeOff    \* ... and until those with less are over (180)

ASSUME ControllerAssumption == /\ Climb \in Nat
                               /\ TakeOff \in Nat
                               /\ Climb <= TakeOff

VARIABLES odom_init, imu_init,
          cmd_init,    \* a command has come
          cmd_data,    \* ... the last one, <<>> before
          cnt,         \* the loops of the take-off so far
          rotors       \* what was published last

controllerVars == <<odom_init, imu_init, cmd_init, cmd_data, cnt, rotors>>

InitController == /\ odom_init = FALSE
                  /\ imu_init = FALSE
                  /\ cmd_init = FALSE
                  /\ cmd_data = <<>>
                  /\ cnt = 0
                  /\ rotors = "off"

(* Mutant: the command is looked at before the take-off. *)
Mut_publish_ctrl(init) ==
    \/ init /\ rotors' = "command" /\ UNCHANGED cnt
    \/ ~init /\ cnt < Climb /\ rotors' = "climb" /\ cnt' = cnt + 1
    \/ ~init /\ cnt >= Climb /\ cnt < TakeOff /\ rotors' = "settle" /\ cnt' = cnt + 1
    \/ ~init /\ cnt >= TakeOff /\ rotors' = "hover" /\ UNCHANGED cnt

publish_ctrl(init) ==
    \/ cnt < Climb /\ rotors' = "climb" /\ cnt' = cnt + 1
    \/ cnt >= Climb /\ cnt < TakeOff /\ rotors' = "settle" /\ cnt' = cnt + 1
    \/ cnt >= TakeOff /\ ~init /\ rotors' = "hover" /\ UNCHANGED cnt
    \/ cnt >= TakeOff /\ init /\ rotors' = "command" /\ UNCHANGED cnt

(* Mutant: a turn without a command counts as one. *)
Mut_FeedCommands(commands) ==
    /\ cmd_init' = TRUE
    /\ IF commands = <<>> THEN UNCHANGED cmd_data
       ELSE cmd_data' = commands[Len(commands)]

(* Command_Data_t::feed for all the commands spinOnce finds: the last one stays. *)
FeedCommands(commands) ==
    IF commands = <<>> THEN UNCHANGED <<cmd_init, cmd_data>>
    ELSE cmd_init' = TRUE /\ cmd_data' = commands[Len(commands)]

(* One turn of the loop: spinOnce with the commands waiting and what has come of *)
(* odometry and IMU data, then process.                                          *)
Loop(commands, odom, imu) ==
    /\ FeedCommands(commands)
    /\ odom_init' = (odom_init \/ odom)
    /\ imu_init' = (imu_init \/ imu)
    /\ IF odom_init' /\ imu_init' THEN publish_ctrl(cmd_init')
       ELSE UNCHANGED <<cnt, rotors>>
=============================================================================
