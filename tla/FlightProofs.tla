---------------------------- MODULE FlightProofs ----------------------------
(* Proofs about Flight for every timeout, duration, queue length and number of   *)
(* trajectories.  What the controller does in the end depends on four places a   *)
(* command comes from: the trajectories waiting, the trajectory the server has,  *)
(* the commands waiting and the one in use.  The invariant says that they are    *)
(* in order, and that the take-off counter tells how far the rotors have come.   *)
EXTENDS Flight, SequenceTheorems, TLAPS

(* The constants' assumptions, for the steps that need them. *)
LEMMA Constants ==
    /\ Timeout \in Nat /\ Duration \in Nat
    /\ Climb \in Nat /\ TakeOff \in Nat /\ Climb <= TakeOff
    /\ TrajectoryDepth \in Nat \ {0} /\ CommandDepth \in Nat \ {0}
    /\ HeartbeatDepth \in Nat /\ MaxTrajs \in Nat
BY ServerAssumption, ControllerAssumption, FlightAssumption

(* A command as the server would publish it now, if it has a trajectory. *)
Position == [traj : Nat, at : 0 .. Duration, aligned : BOOLEAN]

(* The numbers of the trajectories grow from what has been dropped over what the *)
(* server has to what waits for it.                                              *)
TrajectoriesInOrder ==
    /\ dropped <= traj_id_
    /\ receive_traj_ => dropped < traj_id_
    /\ traj_id_ <= posted
    /\ \A k \in 1 .. Len(trajectories) :
           traj_id_ < trajectories[k].id /\ trajectories[k].id <= posted
    /\ \A j, k \in 1 .. Len(trajectories) :
           j < k => trajectories[j].id < trajectories[k].id

(* The command in use leads on to those that wait, each of those to the next,    *)
(* and all of them to what the server would publish now.                         *)
CommandsInOrder ==
    /\ cmd_init => LeadsOn(cmd_data, CommandNow)
    /\ \A k \in 1 .. Len(commands) :
           /\ LeadsOn(commands[k], CommandNow)
           /\ cmd_init => LeadsOn(cmd_data, commands[k])
    /\ \A j, k \in 1 .. Len(commands) :
           j < k => LeadsOn(commands[j], commands[k])

(* How far the take-off has come. *)
TakeOffCounted ==
    /\ rotors = "climb" => cnt <= Climb
    /\ rotors = "off" => cnt = 0
    /\ rotors = "settle" => cnt > Climb
    /\ rotors \in {"hover", "command"} => cnt = TakeOff
    /\ rotors = "command" => cmd_init

IInv == TypeOK /\ TrajectoriesInOrder /\ CommandsInOrder /\ TakeOffCounted

-----------------------------------------------------------------------------
(* Ages stay in their range and do not fall. *)
LEMMA AgeFacts ==
    ASSUME NEW limit \in Nat, NEW age \in 0 .. limit
    PROVE  /\ AgeUpTo(age + 1, limit) \in 0 .. limit
           /\ age <= AgeUpTo(age + 1, limit)
BY DEF AgeUpTo

(* A queue that takes a message keeps its length and its order. *)
LEMMA EnqueueFacts ==
    ASSUME NEW S, NEW q \in Seq(S), NEW m \in S, NEW d \in Nat \ {0}, Len(q) <= d
    PROVE  /\ Enqueue(q, d, m) \in Seq(S)
           /\ Len(Enqueue(q, d, m)) \in 1 .. d
           /\ Enqueue(q, d, m)[Len(Enqueue(q, d, m))] = m
           /\ \E off \in {0, 1} : \A k \in 1 .. Len(Enqueue(q, d, m)) :
                  k # Len(Enqueue(q, d, m)) =>
                      /\ k + off \in 1 .. Len(q)
                      /\ Enqueue(q, d, m)[k] = q[k + off]
<1>1. CASE Len(q) < d
  <2>1. Enqueue(q, d, m) = Append(q, m)
    BY <1>1 DEF Enqueue
  <2>2. /\ Append(q, m) \in Seq(S)
        /\ Len(Append(q, m)) = Len(q) + 1
        /\ Append(q, m)[Len(q) + 1] = m
        /\ \A k \in 1 .. Len(q) : Append(q, m)[k] = q[k + 0]
        /\ Len(q) \in Nat
    OBVIOUS
  <2> QED BY <1>1, <2>1, <2>2
<1>2. CASE ~ (Len(q) < d)
  <2>1. Len(q) = d /\ q # <<>> /\ Len(q) \in Nat
    BY <1>2
  <2> DEFINE t == Tail(q)
  <2>2. t \in Seq(S) /\ Len(t) = d - 1 /\ \A k \in 1 .. Len(t) : t[k] = q[k + 1]
    BY <2>1
  <2>3. Enqueue(q, d, m) = Append(t, m)
    BY <1>2 DEF Enqueue
  <2> HIDE DEF t
  <2>4. /\ Append(t, m) \in Seq(S)
        /\ Len(Append(t, m)) = d
        /\ Append(t, m)[d] = m
        /\ \A k \in 1 .. d - 1 : Append(t, m)[k] = q[k + 1]
    BY <2>2
  <2> QED BY <2>1, <2>3, <2>4
<1> QED BY <1>1, <1>2

(* The rest of a queue, and its head. *)
LEMMA TailFacts ==
    ASSUME NEW S, NEW q \in Seq(S), q # <<>>
    PROVE  /\ Tail(q) \in Seq(S) /\ Len(Tail(q)) = Len(q) - 1
           /\ Len(q) \in Nat \ {0}
           /\ \A k \in 1 .. Len(Tail(q)) : k + 1 \in 1 .. Len(q) /\ Tail(q)[k] = q[k + 1]
           /\ Head(q) = q[1] /\ Head(q) \in S
OBVIOUS

(* Leading on is transitive, and reflexive. *)
LEMMA LeadsOnTransitive ==
    ASSUME NEW a \in Position, NEW b \in Position, NEW c \in Position,
           LeadsOn(a, b), LeadsOn(b, c)
    PROVE  LeadsOn(a, c)
BY DEF LeadsOn, Position

LEMMA LeadsOnReflexive ==
    ASSUME NEW a \in Position
    PROVE  LeadsOn(a, a)
BY DEF LeadsOn, Position

LEMMA CommandsArePositions == Command \subseteq Position
BY DEF Command, Position

(* What the server would publish is a position, and a command when it publishes. *)
LEMMA NowTyped ==
    /\ TypeOK => CommandNow \in Position
    /\ TypeOK /\ TrajectoriesInOrder /\ Commands => CommandNow \in Command
<1>1. TypeOK => CommandNow \in Position
  BY DEF TypeOK, CommandNow, Position
<1>2. TypeOK /\ TrajectoriesInOrder /\ Commands => CommandNow \in Command
  BY DEF TypeOK, TrajectoriesInOrder, Commands, CommandNow, Command
<1> QED BY <1>1, <1>2

-----------------------------------------------------------------------------
LEMMA InitIInv == Init => IInv
<1> SUFFICES ASSUME Init PROVE IInv
  OBVIOUS
<1>1. TypeOK
  <2>1. /\ planner = "idle" /\ posted = 0 /\ linked = {} /\ heartbeats = 0
        /\ trajectories = <<>> /\ commands = <<>>
    BY DEF Init
  <2>2. /\ heard = FALSE /\ heartbeat_age = Timeout + 1 /\ receive_traj_ = FALSE
        /\ traj_id_ = 0 /\ traj_age = 0 /\ odom_inited = FALSE /\ dropped = 0
    BY DEF Init, InitServer
  <2>3. /\ odom_init = FALSE /\ imu_init = FALSE /\ cmd_init = FALSE
        /\ cmd_data = <<>> /\ cnt = 0 /\ rotors = "off"
    BY DEF Init, InitController
  <2>4. /\ planner \in {"idle", "planning", "dead"}
        /\ posted \in 0 .. MaxTrajs
        /\ linked \in SUBSET Topic
        /\ heartbeats \in 0 .. HeartbeatDepth
        /\ heartbeat_age \in 0 .. Timeout + 1
        /\ traj_id_ \in Nat /\ traj_age \in 0 .. Duration /\ dropped \in Nat
        /\ cnt \in 0 .. TakeOff
        /\ rotors \in {"off", "climb", "settle", "hover", "command"}
        /\ heard \in BOOLEAN /\ receive_traj_ \in BOOLEAN /\ odom_inited \in BOOLEAN
        /\ odom_init \in BOOLEAN /\ imu_init \in BOOLEAN /\ cmd_init \in BOOLEAN
    <3>1. /\ Timeout + 1 \in 0 .. Timeout + 1 /\ 0 \in 0 .. Duration /\ 0 \in 0 .. TakeOff
          /\ 0 \in 0 .. MaxTrajs /\ 0 \in 0 .. HeartbeatDepth
      BY Constants
    <3> QED BY <2>1, <2>2, <2>3, <3>1
  <2>5. /\ trajectories \in Seq(Trajectory) /\ Len(trajectories) <= TrajectoryDepth
        /\ commands \in Seq(Command) /\ Len(commands) <= CommandDepth
    BY <2>1, Constants
  <2>6. cmd_data \in IF cmd_init THEN Command ELSE {<<>>}
    BY <2>3
  <2> QED BY <2>4, <2>5, <2>6 DEF TypeOK
<1>2. TrajectoriesInOrder /\ CommandsInOrder
  BY DEF TrajectoriesInOrder, CommandsInOrder, Init, InitServer, InitController
<1>3. TakeOffCounted
  BY DEF TakeOffCounted, Init, InitController
<1> QED BY <1>1, <1>2, <1>3 DEF IInv

-----------------------------------------------------------------------------
(* The controller's turn. *)

LEMMA LoopTakeOff ==
    ASSUME IInv, NEW odom \in BOOLEAN, NEW imu \in BOOLEAN, ControllerLoop(odom, imu)
    PROVE  /\ odom_init' \in BOOLEAN /\ imu_init' \in BOOLEAN
           /\ cmd_init' \in BOOLEAN
           /\ cmd_init => cmd_init'
           /\ cnt' \in 0 .. TakeOff
           /\ rotors' \in {"off", "climb", "settle", "hover", "command"}
           /\ TakeOffCounted'
           /\ GoesOn(rotors, rotors')
           /\ rotors' \in {"hover", "command"} => cnt' = TakeOff
<1> USE Constants
<1>0. /\ cnt \in 0 .. TakeOff
      /\ rotors \in {"off", "climb", "settle", "hover", "command"}
      /\ TakeOffCounted
  BY DEF IInv, TypeOK
<1>4. odom_init' \in BOOLEAN /\ imu_init' \in BOOLEAN
  BY DEF IInv, TypeOK, ControllerLoop, Loop
<1>5. cmd_init' \in BOOLEAN /\ (cmd_init => cmd_init')
  BY DEF IInv, TypeOK, ControllerLoop, Loop, FeedCommands
<1>6. UNCHANGED <<cnt, rotors>> \/ publish_ctrl(cmd_init')
  BY DEF ControllerLoop, Loop
<1>1. /\ odom_init' \in BOOLEAN /\ imu_init' \in BOOLEAN
      /\ cmd_init' \in BOOLEAN /\ (cmd_init => cmd_init')
  BY <1>4, <1>5
<1>2. CASE UNCHANGED <<cnt, rotors>>
  BY <1>0, <1>1, <1>2 DEF TakeOffCounted, GoesOn
<1>3. CASE publish_ctrl(cmd_init')
  <2>1. CASE cnt < Climb
    <3>1. rotors' = "climb" /\ cnt' = cnt + 1
      BY <1>0, <1>3, <2>1 DEF publish_ctrl
    <3>2. rotors \in {"off", "climb"}
      BY <1>0, <2>1 DEF TakeOffCounted
    <3> QED BY <1>0, <1>1, <2>1, <3>1, <3>2 DEF TakeOffCounted, GoesOn
  <2>2. CASE cnt >= Climb /\ cnt < TakeOff
    <3>1. rotors' = "settle" /\ cnt' = cnt + 1
      BY <1>0, <1>3, <2>2 DEF publish_ctrl
    <3>2. rotors \in {"off", "climb", "settle"}
      BY <1>0, <2>2 DEF TakeOffCounted
    <3> QED BY <1>0, <1>1, <2>2, <3>1, <3>2 DEF TakeOffCounted, GoesOn
  <2>3. CASE cnt >= TakeOff /\ ~ cmd_init'
    <3>1. rotors' = "hover" /\ cnt' = cnt /\ cnt = TakeOff
      BY <1>0, <1>3, <2>3 DEF publish_ctrl
    <3>2. rotors # "command"
      BY <1>0, <1>1, <2>3 DEF TakeOffCounted
    <3> QED BY <1>0, <1>1, <3>1, <3>2 DEF TakeOffCounted, GoesOn
  <2>4. CASE cnt >= TakeOff /\ cmd_init'
    <3>1. rotors' = "command" /\ cnt' = cnt /\ cnt = TakeOff
      BY <1>0, <1>3, <2>4 DEF publish_ctrl
    <3> QED BY <1>0, <1>1, <2>4, <3>1 DEF TakeOffCounted, GoesOn
  <2> QED BY <1>0, <1>1, <2>1, <2>2, <2>3, <2>4
<1> QED BY <1>2, <1>3, <1>6

(* The controller takes the last of the commands waiting. *)
LEMMA LoopCommands ==
    ASSUME IInv, NEW odom \in BOOLEAN, NEW imu \in BOOLEAN, ControllerLoop(odom, imu)
    PROVE  /\ cmd_data' \in IF cmd_init' THEN Command ELSE {<<>>}
           /\ commands' \in Seq(Command) /\ Len(commands') <= CommandDepth
           /\ CommandsInOrder'
           /\ cmd_init => LeadsOn(cmd_data, cmd_data')
<1> USE DEF IInv
<1>1. /\ FeedCommands(commands) /\ commands' = <<>>
      /\ CommandNow' = CommandNow
  BY DEF ControllerLoop, Loop, serverVars, CommandNow
<1>2. /\ commands \in Seq(Command) /\ Len(commands) \in Nat
      /\ cmd_init \in BOOLEAN /\ cmd_data \in IF cmd_init THEN Command ELSE {<<>>}
  BY DEF TypeOK
<1>3. commands' \in Seq(Command) /\ Len(commands') <= CommandDepth
  BY <1>1, Constants
<1>4. CASE commands = <<>>
  <2>1. cmd_init' = cmd_init /\ cmd_data' = cmd_data
    BY <1>1, <1>4 DEF FeedCommands
  <2>2. CommandsInOrder'
    BY <1>1, <2>1 DEF CommandsInOrder, LeadsOn
  <2>3. cmd_init => LeadsOn(cmd_data, cmd_data')
    <3>1. cmd_init => cmd_data \in Position
      BY <1>2, CommandsArePositions
    <3> QED BY <2>1, <3>1, LeadsOnReflexive
  <2> QED BY <1>2, <1>3, <2>1, <2>2, <2>3
<1>5. CASE commands # <<>>
  <2>1. /\ cmd_init' = TRUE /\ cmd_data' = commands[Len(commands)]
        /\ Len(commands) \in 1 .. Len(commands)
    BY <1>1, <1>2, <1>5 DEF FeedCommands
  <2>2. cmd_data' \in Command
    BY <1>2, <2>1
  <2>3. /\ LeadsOn(cmd_data', CommandNow)
        /\ cmd_init => LeadsOn(cmd_data, cmd_data')
    BY <2>1 DEF CommandsInOrder
  <2>4. CommandsInOrder'
    BY <1>1, <2>3 DEF CommandsInOrder, LeadsOn
  <2> QED BY <1>3, <2>1, <2>2, <2>3, <2>4
<1> QED BY <1>4, <1>5

(* If what the server would publish leads on, the commands stay in order. *)
LEMMA CommandsFollow ==
    ASSUME IInv, CommandNow' \in Position, LeadsOn(CommandNow, CommandNow'),
           UNCHANGED <<commands, cmd_init, cmd_data>>
    PROVE  CommandsInOrder'
<1> DEFINE Now == CommandNow
           Next1 == CommandNow'
<1>1. /\ Now \in Position /\ Next1 \in Position /\ LeadsOn(Now, Next1)
      /\ commands \in Seq(Command)
      /\ cmd_init => cmd_data \in Position
  BY NowTyped, CommandsArePositions DEF IInv, TypeOK
<1>2. /\ cmd_init => LeadsOn(cmd_data, Now)
      /\ \A k \in 1 .. Len(commands) : LeadsOn(commands[k], Now)
  BY DEF IInv, CommandsInOrder
<1>3. \A k \in 1 .. Len(commands) : commands[k] \in Position
  BY <1>1, CommandsArePositions
<1> HIDE DEF Now, Next1
<1>4. /\ cmd_init => LeadsOn(cmd_data, Next1)
      /\ \A k \in 1 .. Len(commands) : LeadsOn(commands[k], Next1)
  BY <1>1, <1>2, <1>3, LeadsOnTransitive
<1>5. /\ \A k \in 1 .. Len(commands) : cmd_init => LeadsOn(cmd_data, commands[k])
      /\ \A j, k \in 1 .. Len(commands) : j < k => LeadsOn(commands[j], commands[k])
  BY DEF IInv, CommandsInOrder
<1> QED BY <1>4, <1>5 DEF CommandsInOrder, LeadsOn, Next1

(* A tick of the server that publishes. *)
LEMMA TickInOrder ==
    ASSUME IInv, cmdCallback
    PROVE  /\ commands' \in Seq(Command) /\ Len(commands') <= CommandDepth
           /\ CommandsInOrder'
<1> DEFINE Now == CommandNow
           q == commands
           e == Enqueue(q, CommandDepth, Now)
<1>1. /\ q \in Seq(Command) /\ Len(q) <= CommandDepth /\ Len(q) \in Nat
      /\ CommandDepth \in Nat \ {0}
      /\ cmd_init \in BOOLEAN
      /\ cmd_init => cmd_data \in Position
  BY Constants, CommandsArePositions DEF IInv, TypeOK
<1>2. Now \in Command /\ Now \in Position
  BY NowTyped, CommandsArePositions DEF IInv, cmdCallback
<1>3. /\ cmd_init' = cmd_init /\ cmd_data' = cmd_data
      /\ CommandNow' = Now
      /\ commands' = q \/ commands' = e
  BY DEF cmdCallback, DropWhenLost, serverVars, controllerVars, CommandNow
<1>4. /\ cmd_init => LeadsOn(cmd_data, Now)
      /\ \A k \in 1 .. Len(q) : LeadsOn(q[k], Now)
      /\ \A k \in 1 .. Len(q) : cmd_init => LeadsOn(cmd_data, q[k])
      /\ \A j, k \in 1 .. Len(q) : j < k => LeadsOn(q[j], q[k])
  BY DEF IInv, CommandsInOrder
<1> HIDE DEF Now, q
<1>5. /\ e \in Seq(Command) /\ Len(e) \in 1 .. CommandDepth /\ e[Len(e)] = Now
      /\ \E off \in {0, 1} : \A k \in 1 .. Len(e) :
             k # Len(e) => k + off \in 1 .. Len(q) /\ e[k] = q[k + off]
  BY <1>1, <1>2, EnqueueFacts
<1> HIDE DEF e
<1>6. CASE commands' = q
  <2>1. CommandsInOrder'
    BY <1>3, <1>4, <1>6 DEF CommandsInOrder, LeadsOn
  <2> QED BY <1>1, <1>6, <2>1
<1>7. CASE commands' = e
  <2>1. PICK off \in {0, 1} : \A k \in 1 .. Len(e) :
             k # Len(e) => k + off \in 1 .. Len(q) /\ e[k] = q[k + off]
    BY <1>5
  <2>2. Len(e) \in Nat /\ 1 <= Len(e)
    BY <1>1, <1>5
  <2>3. \A k \in 1 .. Len(e) : LeadsOn(e[k], Now) /\ (cmd_init => LeadsOn(cmd_data, e[k]))
    <3> SUFFICES ASSUME NEW k \in 1 .. Len(e)
                 PROVE  LeadsOn(e[k], Now) /\ (cmd_init => LeadsOn(cmd_data, e[k]))
      OBVIOUS
    <3>1. CASE k = Len(e)
      BY <1>2, <1>4, <1>5, <3>1, LeadsOnReflexive
    <3>2. CASE k # Len(e)
      BY <1>4, <2>1, <3>2
    <3> QED BY <3>1, <3>2
  <2>4. \A j, k \in 1 .. Len(e) : j < k => LeadsOn(e[j], e[k])
    <3> SUFFICES ASSUME NEW j \in 1 .. Len(e), NEW k \in 1 .. Len(e), j < k
                 PROVE  LeadsOn(e[j], e[k])
      OBVIOUS
    <3>1. j # Len(e)
      BY <2>2
    <3>2. CASE k = Len(e)
      BY <1>5, <2>3, <3>2
    <3>3. CASE k # Len(e)
      <4>1. /\ j + off \in 1 .. Len(q) /\ e[j] = q[j + off]
            /\ k + off \in 1 .. Len(q) /\ e[k] = q[k + off]
        BY <2>1, <3>1, <3>3
      <4>2. j + off < k + off
        BY <2>2
      <4> QED BY <1>4, <4>1, <4>2
    <3> QED BY <3>2, <3>3
  <2>5. CommandsInOrder'
    BY <1>3, <1>4, <1>7, <2>3, <2>4 DEF CommandsInOrder, LeadsOn
  <2>6. Len(e) <= CommandDepth
    BY <1>1, <1>5
  <2> QED BY <1>5, <1>7, <2>5, <2>6
<1> QED BY <1>3, <1>6, <1>7

-----------------------------------------------------------------------------
(* The trajectories. *)

(* A published trajectory gets a number above all the others. *)
LEMMA PublishedInOrder ==
    ASSUME IInv, PlanPublished
    PROVE  /\ trajectories' \in Seq(Trajectory) /\ Len(trajectories') <= TrajectoryDepth
           /\ posted' \in 0 .. MaxTrajs
           /\ TrajectoriesInOrder'
<1> DEFINE q == trajectories
           new == [id |-> posted + 1, age |-> 0]
           e == Enqueue(q, TrajectoryDepth, new)
<1>1. /\ q \in Seq(Trajectory) /\ Len(q) <= TrajectoryDepth /\ Len(q) \in Nat
      /\ TrajectoryDepth \in Nat \ {0}
      /\ posted \in 0 .. MaxTrajs /\ MaxTrajs \in Nat /\ posted \in Nat
      /\ traj_id_ \in Nat /\ dropped \in Nat
  BY Constants DEF IInv, TypeOK
<1>2. new \in Trajectory /\ new.id = posted + 1
  BY <1>1, Constants DEF Trajectory
<1>3. /\ UNCHANGED <<dropped, traj_id_, receive_traj_>>
      /\ \/ posted < MaxTrajs /\ posted' = posted + 1 /\ trajectories' = e
         \/ UNCHANGED <<posted, trajectories>>
  BY DEF PlanPublished, serverVars
<1>4. /\ dropped <= traj_id_
      /\ receive_traj_ => dropped < traj_id_
      /\ traj_id_ <= posted
      /\ \A k \in 1 .. Len(q) : traj_id_ < q[k].id /\ q[k].id <= posted
      /\ \A j, k \in 1 .. Len(q) : j < k => q[j].id < q[k].id
  BY DEF IInv, TrajectoriesInOrder
<1>9. \A k \in 1 .. Len(q) : q[k] \in Trajectory
  BY <1>1
<1>5. \A k \in 1 .. Len(q) : q[k].id \in Nat
  BY <1>9 DEF Trajectory
<1>10. /\ q \in Seq(Trajectory) /\ new \in Trajectory
       /\ TrajectoryDepth \in Nat \ {0} /\ Len(q) <= TrajectoryDepth
  BY <1>1, <1>2
<1> HIDE DEF new, q
<1>6. /\ e \in Seq(Trajectory) /\ Len(e) \in 1 .. TrajectoryDepth /\ e[Len(e)] = new
      /\ \E off \in {0, 1} : \A k \in 1 .. Len(e) :
             k # Len(e) => k + off \in 1 .. Len(q) /\ e[k] = q[k + off]
  BY <1>10, EnqueueFacts
<1> HIDE DEF e
<1>7. CASE posted < MaxTrajs /\ posted' = posted + 1 /\ trajectories' = e
  <2>1. PICK off \in {0, 1} : \A k \in 1 .. Len(e) :
             k # Len(e) => k + off \in 1 .. Len(q) /\ e[k] = q[k + off]
    BY <1>6
  <2>2. Len(e) \in Nat /\ 1 <= Len(e) /\ Len(e) <= TrajectoryDepth
    BY <1>1, <1>6
  <2>3. \A k \in 1 .. Len(e) : traj_id_ < e[k].id /\ e[k].id <= posted + 1
    <3> SUFFICES ASSUME NEW k \in 1 .. Len(e)
                 PROVE  traj_id_ < e[k].id /\ e[k].id <= posted + 1
      OBVIOUS
    <3>1. CASE k = Len(e)
      BY <1>1, <1>2, <1>4, <1>6, <3>1
    <3>2. CASE k # Len(e)
      BY <1>1, <1>4, <1>5, <2>1, <3>2
    <3> QED BY <3>1, <3>2
  <2>4. \A j, k \in 1 .. Len(e) : j < k => e[j].id < e[k].id
    <3> SUFFICES ASSUME NEW j \in 1 .. Len(e), NEW k \in 1 .. Len(e), j < k
                 PROVE  e[j].id < e[k].id
      OBVIOUS
    <3>1. j # Len(e) /\ j + off \in 1 .. Len(q) /\ e[j] = q[j + off]
      BY <2>1, <2>2
    <3>2. CASE k = Len(e)
      BY <1>1, <1>2, <1>4, <1>5, <1>6, <3>1, <3>2
    <3>3. CASE k # Len(e)
      <4>1. k + off \in 1 .. Len(q) /\ e[k] = q[k + off] /\ j + off < k + off
        BY <2>1, <2>2, <3>3
      <4> QED BY <1>4, <3>1, <4>1
    <3> QED BY <3>2, <3>3
  <2>5. traj_id_ <= posted + 1
    BY <1>1, <1>4
  <2>6. TrajectoriesInOrder'
    BY <1>3, <1>4, <1>7, <2>3, <2>4, <2>5 DEF TrajectoriesInOrder
  <2> QED BY <1>1, <1>6, <1>7, <2>2, <2>6
<1>8. CASE UNCHANGED <<posted, trajectories>>
  <2>1. TrajectoriesInOrder'
    BY <1>3, <1>8 DEF IInv, TrajectoriesInOrder
  <2>2. trajectories' = q
    BY <1>8 DEF q
  <2> QED BY <1>1, <1>8, <2>1, <2>2
<1> QED BY <1>3, <1>7, <1>8

(* The server takes the first trajectory that waits. *)
LEMMA TakenInOrder ==
    ASSUME IInv, HandleTrajectory
    PROVE  /\ trajectories' \in Seq(Trajectory) /\ Len(trajectories') <= TrajectoryDepth
           /\ traj_id_' \in Nat /\ traj_age' \in 0 .. Duration
           /\ TrajectoriesInOrder'
           /\ CommandNow' \in Position /\ LeadsOn(CommandNow, CommandNow')
<1> DEFINE q == trajectories
           h == Head(trajectories)
           t == Tail(trajectories)
<1>1. /\ q \in Seq(Trajectory) /\ Len(q) <= TrajectoryDepth /\ q # <<>>
      /\ TrajectoryDepth \in Nat
      /\ traj_id_ \in Nat /\ dropped \in Nat /\ posted \in Nat
      /\ odom_inited \in BOOLEAN
  BY Constants DEF IInv, TypeOK, HandleTrajectory
<1>2. /\ trajectories' = t /\ traj_id_' = h.id /\ traj_age' = h.age
      /\ UNCHANGED <<dropped, posted, odom_inited>>
  BY DEF HandleTrajectory, polyTrajCallback, plannerVars
<1>3. /\ t \in Seq(Trajectory) /\ Len(t) = Len(q) - 1 /\ Len(q) \in Nat \ {0}
      /\ \A k \in 1 .. Len(t) : k + 1 \in 1 .. Len(q) /\ t[k] = q[k + 1]
      /\ h = q[1] /\ h \in Trajectory
  BY <1>1, TailFacts
<1>4. /\ dropped <= traj_id_ /\ traj_id_ <= posted
      /\ \A k \in 1 .. Len(q) : traj_id_ < q[k].id /\ q[k].id <= posted
      /\ \A j, k \in 1 .. Len(q) : j < k => q[j].id < q[k].id
  BY DEF IInv, TrajectoriesInOrder
<1> HIDE DEF q, h, t
<1>5. h.id \in Nat /\ h.age \in 0 .. Duration
  BY <1>3 DEF Trajectory
<1>6. traj_id_ < h.id /\ h.id <= posted /\ dropped < h.id /\ dropped <= h.id
  BY <1>1, <1>3, <1>4, <1>5
<1>7. \A k \in 1 .. Len(t) : h.id < t[k].id /\ t[k].id <= posted
  <2> SUFFICES ASSUME NEW k \in 1 .. Len(t)
               PROVE  h.id < t[k].id /\ t[k].id <= posted
    OBVIOUS
  <2>1. k + 1 \in 1 .. Len(q) /\ t[k] = q[k + 1] /\ 1 < k + 1 /\ 1 \in 1 .. Len(q)
    BY <1>3
  <2> QED BY <1>3, <1>4, <2>1
<1>8. \A j, k \in 1 .. Len(t) : j < k => t[j].id < t[k].id
  <2> SUFFICES ASSUME NEW j \in 1 .. Len(t), NEW k \in 1 .. Len(t), j < k
               PROVE  t[j].id < t[k].id
    OBVIOUS
  <2>1. /\ j + 1 \in 1 .. Len(q) /\ t[j] = q[j + 1]
        /\ k + 1 \in 1 .. Len(q) /\ t[k] = q[k + 1] /\ j + 1 < k + 1
    BY <1>3
  <2> QED BY <1>4, <2>1
<1>9. TrajectoriesInOrder'
  BY <1>2, <1>6, <1>7, <1>8 DEF TrajectoriesInOrder
<1>10. Len(t) <= TrajectoryDepth
  BY <1>1, <1>3
<1>11. CommandNow' = [traj |-> h.id, at |-> h.age, aligned |-> odom_inited]
  BY <1>2 DEF CommandNow
<1>12. CommandNow' \in Position
  BY <1>1, <1>5, <1>11 DEF Position
<1>13. LeadsOn(CommandNow, CommandNow')
  BY <1>6, <1>11 DEF CommandNow, LeadsOn
<1> QED BY <1>2, <1>3, <1>5, <1>9, <1>10, <1>12, <1>13

(* Time changes ages only. *)
LEMMA TimeInOrder ==
    ASSUME IInv, TimePasses
    PROVE  /\ trajectories' \in Seq(Trajectory) /\ Len(trajectories') <= TrajectoryDepth
           /\ heartbeat_age' \in 0 .. Timeout + 1 /\ traj_age' \in 0 .. Duration
           /\ TrajectoriesInOrder'
           /\ CommandNow' \in Position /\ LeadsOn(CommandNow, CommandNow')
           /\ Len(trajectories') = Len(trajectories)
           /\ \A k \in 1 .. Len(trajectories) : trajectories'[k].id = trajectories[k].id
<1> DEFINE q == trajectories
           Older(k) == [q[k] EXCEPT !.age = AgeUpTo(@ + 1, Duration)]
           e == [k \in DOMAIN q |-> Older(k)]
<1>1. /\ q \in Seq(Trajectory) /\ Len(q) <= TrajectoryDepth /\ Len(q) \in Nat
      /\ DOMAIN q = 1 .. Len(q)
      /\ Duration \in Nat /\ Timeout + 1 \in Nat
      /\ heartbeat_age \in 0 .. Timeout + 1 /\ traj_age \in 0 .. Duration
      /\ traj_id_ \in Nat /\ odom_inited \in BOOLEAN
  BY Constants DEF IInv, TypeOK
<1>2. /\ trajectories' = e
      /\ heartbeat_age' = AgeUpTo(heartbeat_age + 1, Timeout + 1)
      /\ traj_age' = AgeUpTo(traj_age + 1, Duration)
      /\ UNCHANGED <<dropped, posted, receive_traj_, traj_id_, odom_inited>>
  BY DEF TimePasses, ServerAges, plannerVars
<1>3. \A k \in 1 .. Len(q) : Older(k) \in Trajectory /\ Older(k).id = q[k].id
  <2> SUFFICES ASSUME NEW k \in 1 .. Len(q)
               PROVE  Older(k) \in Trajectory /\ Older(k).id = q[k].id
    OBVIOUS
  <2>1. q[k] \in Trajectory
    BY <1>1
  <2>2. q[k].age \in 0 .. Duration
    BY <2>1 DEF Trajectory
  <2>3. AgeUpTo(q[k].age + 1, Duration) \in 0 .. Duration
    BY <1>1, <2>2, AgeFacts
  <2> QED BY <2>1, <2>3 DEF Trajectory
<1> HIDE DEF Older
<1>4. /\ e \in [1 .. Len(q) -> Trajectory]
      /\ \A k \in 1 .. Len(q) : e[k].id = q[k].id
  BY <1>1, <1>3
<1>5. e \in Seq(Trajectory) /\ Len(e) = Len(q)
  BY <1>1, <1>4, SeqDef
<1> HIDE DEF e
<1>6. TrajectoriesInOrder'
  BY <1>2, <1>4, <1>5 DEF IInv, TrajectoriesInOrder
<1>7. /\ heartbeat_age' \in 0 .. Timeout + 1
      /\ traj_age' \in 0 .. Duration /\ traj_age <= traj_age'
  BY <1>1, <1>2, AgeFacts
<1>8. CommandNow' \in Position
  BY <1>1, <1>2, <1>7 DEF CommandNow, Position
<1>9. LeadsOn(CommandNow, CommandNow')
  BY <1>2, <1>7 DEF CommandNow, LeadsOn
<1>10. trajectories' \in Seq(Trajectory) /\ Len(trajectories') <= TrajectoryDepth
  BY <1>1, <1>2, <1>5
<1>11. /\ Len(trajectories') = Len(trajectories)
       /\ \A k \in 1 .. Len(trajectories) : trajectories'[k].id = trajectories[k].id
  BY <1>2, <1>4, <1>5
<1> QED BY <1>6, <1>7, <1>8, <1>9, <1>10, <1>11

-----------------------------------------------------------------------------
(* The invariant is inductive. *)

(* The steps that leave trajectories and commands alone. *)
LEMMA OrderKept ==
    ASSUME IInv, UNCHANGED <<dropped, traj_id_, traj_age, receive_traj_, odom_inited,
                             posted, trajectories, commands, cmd_init, cmd_data>>
    PROVE  TrajectoriesInOrder' /\ CommandsInOrder'
BY DEF IInv, TrajectoriesInOrder, CommandsInOrder, CommandNow, LeadsOn

LEMMA TakeOffKept ==
    ASSUME IInv, UNCHANGED <<rotors, cnt, cmd_init>>
    PROVE  TakeOffCounted'
BY DEF IInv, TakeOffCounted

LEMMA PlannerIInv ==
    ASSUME IInv, ExecTimer \/ SafetyTimer \/ PlanFails \/ PlannerDies
    PROVE  IInv'
<1>1. /\ UNCHANGED <<posted, linked, trajectories, commands, serverVars, controllerVars>>
      /\ planner' \in {"idle", "planning", "dead"}
  BY DEF ExecTimer, SafetyTimer, PlanFails, PlannerDies, topicVars
<1>2. heartbeats' \in 0 .. HeartbeatDepth
  <2>1. heartbeats \in 0 .. HeartbeatDepth /\ HeartbeatDepth \in Nat
    BY Constants DEF IInv, TypeOK
  <2>2. heartbeats' = heartbeats \/ (heartbeats < HeartbeatDepth /\ heartbeats' = heartbeats + 1)
    BY DEF ExecTimer, SafetyTimer, PlanFails, PlannerDies, topicVars
  <2> QED BY <2>1, <2>2
<1>3. TypeOK'
  BY <1>1, <1>2 DEF IInv, TypeOK, serverVars, controllerVars
<1>4. TrajectoriesInOrder' /\ CommandsInOrder' /\ TakeOffCounted'
  BY <1>1, OrderKept, TakeOffKept DEF serverVars, controllerVars
<1> QED BY <1>3, <1>4 DEF IInv

LEMMA PublishedIInv ==
    ASSUME IInv, PlanPublished
    PROVE  IInv'
<1>1. /\ trajectories' \in Seq(Trajectory) /\ Len(trajectories') <= TrajectoryDepth
      /\ posted' \in 0 .. MaxTrajs
      /\ TrajectoriesInOrder'
  BY PublishedInOrder
<1>2. /\ UNCHANGED <<linked, heartbeats, commands, serverVars, controllerVars>>
      /\ planner' = "idle"
  BY DEF PlanPublished
<1>3. TypeOK'
  BY <1>1, <1>2 DEF IInv, TypeOK, serverVars, controllerVars
<1>4. CommandsInOrder' /\ TakeOffCounted'
  BY <1>2 DEF IInv, CommandsInOrder, CommandNow, LeadsOn, TakeOffCounted,
              serverVars, controllerVars
<1> QED BY <1>1, <1>3, <1>4 DEF IInv

LEMMA HeartbeatIInv ==
    ASSUME IInv, HandleHeartbeat
    PROVE  IInv'
<1>1. /\ UNCHANGED <<planner, posted, linked, trajectories, commands, controllerVars>>
      /\ UNCHANGED <<receive_traj_, traj_id_, traj_age, odom_inited, dropped>>
      /\ heard' = TRUE /\ heartbeat_age' = 0
      /\ heartbeats > 0 /\ heartbeats' = heartbeats - 1
  BY DEF HandleHeartbeat, heartbeatCallback, plannerVars
<1>2. heartbeats' \in 0 .. HeartbeatDepth /\ heartbeat_age' \in 0 .. Timeout + 1
  BY <1>1, Constants DEF IInv, TypeOK
<1>3. TypeOK'
  BY <1>1, <1>2 DEF IInv, TypeOK, controllerVars
<1>4. TrajectoriesInOrder' /\ CommandsInOrder' /\ TakeOffCounted'
  BY <1>1, OrderKept, TakeOffKept DEF controllerVars
<1> QED BY <1>3, <1>4 DEF IInv

LEMMA TrajectoryIInv ==
    ASSUME IInv, HandleTrajectory
    PROVE  IInv'
<1>1. /\ trajectories' \in Seq(Trajectory) /\ Len(trajectories') <= TrajectoryDepth
      /\ traj_id_' \in Nat /\ traj_age' \in 0 .. Duration
      /\ TrajectoriesInOrder'
      /\ CommandNow' \in Position /\ LeadsOn(CommandNow, CommandNow')
  BY TakenInOrder
<1>2. /\ UNCHANGED <<planner, posted, linked, heartbeats, commands, controllerVars>>
      /\ UNCHANGED <<heard, heartbeat_age, odom_inited, dropped>>
      /\ receive_traj_' = TRUE
  BY DEF HandleTrajectory, polyTrajCallback, plannerVars
<1>3. TypeOK'
  BY <1>1, <1>2 DEF IInv, TypeOK, controllerVars
<1>4. CommandsInOrder' /\ TakeOffCounted'
  BY <1>1, <1>2, CommandsFollow, TakeOffKept DEF controllerVars
<1> QED BY <1>1, <1>3, <1>4 DEF IInv

LEMMA OdometryIInv ==
    ASSUME IInv, HandleOdometry
    PROVE  IInv'
<1>1. /\ UNCHANGED <<planner, posted, linked, heartbeats, trajectories, commands,
                     controllerVars>>
      /\ UNCHANGED <<heard, heartbeat_age, receive_traj_, traj_id_, traj_age, dropped>>
      /\ odom_inited' = TRUE
  BY DEF HandleOdometry, odometryCallback, plannerVars, topicVars
<1>2. TypeOK'
  BY <1>1 DEF IInv, TypeOK, controllerVars
<1>3. CommandNow' \in Position /\ LeadsOn(CommandNow, CommandNow')
  BY <1>1 DEF IInv, TypeOK, CommandNow, Position, LeadsOn
<1>4. TrajectoriesInOrder'
  BY <1>1 DEF IInv, TrajectoriesInOrder
<1>5. CommandsInOrder' /\ TakeOffCounted'
  BY <1>1, <1>3, CommandsFollow, TakeOffKept DEF controllerVars
<1> QED BY <1>2, <1>4, <1>5 DEF IInv

LEMMA TickIInv ==
    ASSUME IInv, cmdCallback
    PROVE  IInv'
<1>1. /\ commands' \in Seq(Command) /\ Len(commands') <= CommandDepth
      /\ CommandsInOrder'
  BY TickInOrder
<1>2. /\ UNCHANGED <<planner, posted, linked, heartbeats, trajectories, controllerVars>>
      /\ UNCHANGED <<heard, heartbeat_age, traj_id_, traj_age, odom_inited>>
      /\ \/ receive_traj_' = FALSE /\ dropped' = traj_id_
         \/ UNCHANGED <<receive_traj_, dropped>>
  BY DEF cmdCallback, DropWhenLost, serverVars, plannerVars
<1>3. receive_traj_' \in BOOLEAN /\ dropped' \in Nat
  BY <1>2 DEF IInv, TypeOK
<1>4. TypeOK'
  BY <1>1, <1>2, <1>3 DEF IInv, TypeOK, controllerVars
<1>5. TrajectoriesInOrder'
  <2>1. traj_id_ \in Nat
    BY DEF IInv, TypeOK
  <2> QED BY <1>2, <2>1 DEF IInv, TrajectoriesInOrder
<1>6. TakeOffCounted'
  BY <1>2, TakeOffKept DEF controllerVars
<1> QED BY <1>1, <1>4, <1>5, <1>6 DEF IInv

LEMMA LoopIInv ==
    ASSUME IInv, NEW odom \in BOOLEAN, NEW imu \in BOOLEAN, ControllerLoop(odom, imu)
    PROVE  IInv'
<1>1. /\ odom_init' \in BOOLEAN /\ imu_init' \in BOOLEAN /\ cmd_init' \in BOOLEAN
      /\ cnt' \in 0 .. TakeOff
      /\ rotors' \in {"off", "climb", "settle", "hover", "command"}
      /\ TakeOffCounted'
  BY LoopTakeOff
<1>2. /\ cmd_data' \in IF cmd_init' THEN Command ELSE {<<>>}
      /\ commands' \in Seq(Command) /\ Len(commands') <= CommandDepth
      /\ CommandsInOrder'
  BY LoopCommands
<1>3. UNCHANGED <<planner, posted, linked, heartbeats, trajectories, serverVars>>
  BY DEF ControllerLoop, plannerVars
<1>4. TypeOK'
  BY <1>1, <1>2, <1>3 DEF IInv, TypeOK, serverVars
<1>5. TrajectoriesInOrder'
  BY <1>3 DEF IInv, TrajectoriesInOrder, serverVars
<1> QED BY <1>1, <1>2, <1>4, <1>5 DEF IInv

LEMMA SubscribeIInv ==
    ASSUME IInv, NEW topic \in Topic, Subscribe(topic)
    PROVE  IInv'
<1>1. /\ UNCHANGED <<planner, posted, heartbeats, trajectories, commands,
                     serverVars, controllerVars>>
      /\ linked' = linked \cup {topic}
  BY DEF Subscribe, plannerVars, topicVars
<1>2. TypeOK'
  BY <1>1 DEF IInv, TypeOK, serverVars, controllerVars
<1>3. TrajectoriesInOrder' /\ CommandsInOrder' /\ TakeOffCounted'
  BY <1>1, OrderKept, TakeOffKept DEF serverVars, controllerVars
<1> QED BY <1>2, <1>3 DEF IInv

LEMMA TimeIInv ==
    ASSUME IInv, TimePasses
    PROVE  IInv'
<1>1. /\ trajectories' \in Seq(Trajectory) /\ Len(trajectories') <= TrajectoryDepth
      /\ heartbeat_age' \in 0 .. Timeout + 1 /\ traj_age' \in 0 .. Duration
      /\ TrajectoriesInOrder'
      /\ CommandNow' \in Position /\ LeadsOn(CommandNow, CommandNow')
  BY TimeInOrder
<1>2. /\ UNCHANGED <<planner, posted, linked, heartbeats, commands, controllerVars>>
      /\ UNCHANGED <<heard, receive_traj_, traj_id_, odom_inited, dropped>>
  BY DEF TimePasses, ServerAges, plannerVars
<1>3. TypeOK'
  BY <1>1, <1>2 DEF IInv, TypeOK, controllerVars
<1>4. CommandsInOrder' /\ TakeOffCounted'
  BY <1>1, <1>2, CommandsFollow, TakeOffKept DEF controllerVars
<1> QED BY <1>1, <1>3, <1>4 DEF IInv

LEMMA NextIInv ==
    ASSUME IInv, [Next]_vars
    PROVE  IInv'
<1>1. CASE ExecTimer \/ SafetyTimer \/ PlanFails \/ PlannerDies
  BY <1>1, PlannerIInv
<1>2. CASE PlanPublished
  BY <1>2, PublishedIInv
<1>3. CASE HandleHeartbeat
  BY <1>3, HeartbeatIInv
<1>4. CASE HandleTrajectory
  BY <1>4, TrajectoryIInv
<1>5. CASE HandleOdometry
  BY <1>5, OdometryIInv
<1>6. CASE cmdCallback
  BY <1>6, TickIInv
<1>7. CASE \E odom, imu \in BOOLEAN : ControllerLoop(odom, imu)
  BY <1>7, LoopIInv
<1>8. CASE \E topic \in Topic : Subscribe(topic)
  BY <1>8, SubscribeIInv
<1>9. CASE TimePasses
  BY <1>9, TimeIInv
<1>10. CASE UNCHANGED vars
  <2>1. UNCHANGED <<planner, posted, linked, heartbeats, trajectories, commands,
                    serverVars, controllerVars>>
    BY <1>10 DEF vars, plannerVars, topicVars
  <2>2. TypeOK'
    BY <2>1 DEF IInv, TypeOK, serverVars, controllerVars
  <2>3. TrajectoriesInOrder' /\ CommandsInOrder' /\ TakeOffCounted'
    BY <2>1, OrderKept, TakeOffKept DEF serverVars, controllerVars
  <2> QED BY <2>2, <2>3 DEF IInv
<1> QED BY <1>1, <1>2, <1>3, <1>4, <1>5, <1>6, <1>7, <1>8, <1>9, <1>10 DEF Next, PlanEnds

(* The invariant holds in every reachable state. *)
THEOREM Invariant == Spec => []IInv
<1>1. IInv /\ [Next]_vars => IInv'
  BY NextIInv
<1> QED BY <1>1, InitIInv, PTL DEF Spec

-----------------------------------------------------------------------------
(* Type correctness, for queues of any length and any number of trajectories. *)
THEOREM TypeCorrect == Spec => []TypeOK
<1>1. IInv => TypeOK
  BY DEF IInv
<1> QED BY <1>1, Invariant, PTL

(* A trajectory dropped for a lost heartbeat is never taken up again, however     *)
(* many trajectories wait and whenever heartbeats come back.                      *)
THEOREM DroppedHolds == Spec => []DroppedStaysDropped
<1>1. IInv => DroppedStaysDropped
  BY DEF IInv, TrajectoriesInOrder, DroppedStaysDropped
<1> QED BY <1>1, Invariant, PTL

(* What every step other than the controller's loop leaves alone. *)
LEMMA OnlyTheLoop ==
    ASSUME [Next]_vars, ~ \E odom, imu \in BOOLEAN : ControllerLoop(odom, imu)
    PROVE  UNCHANGED controllerVars
BY DEF Next, vars, PlanEnds, ExecTimer, SafetyTimer, PlanFails, PlannerDies, PlanPublished,
       HandleHeartbeat, HandleTrajectory, HandleOdometry, cmdCallback, Subscribe, TimePasses

(* The controller never goes back to an older command, whatever the queues lose   *)
(* and however long they are.                                                     *)
THEOREM NeverFliesBackHolds == Spec => NeverFliesBack
<1>1. IInv /\ [Next]_vars => [cmd_init => LeadsOn(cmd_data, cmd_data')]_vars
  <2> SUFFICES ASSUME IInv, [Next]_vars, cmd_init
               PROVE  LeadsOn(cmd_data, cmd_data')
    OBVIOUS
  <2>1. CASE \E odom, imu \in BOOLEAN : ControllerLoop(odom, imu)
    BY <2>1, LoopCommands
  <2>2. CASE ~ \E odom, imu \in BOOLEAN : ControllerLoop(odom, imu)
    <3>1. cmd_data' = cmd_data
      BY <2>2, OnlyTheLoop DEF controllerVars
    <3>2. cmd_data \in Position
      BY CommandsArePositions DEF IInv, TypeOK
    <3> QED BY <3>1, <3>2, LeadsOnReflexive
  <2> QED BY <2>1, <2>2
<1> QED BY <1>1, Invariant, PTL DEF Spec, NeverFliesBack

(* The take-off is flown to its end and once, however long it is. *)
THEOREM TakeOffOnceHolds == Spec => TakeOffOnce
<1>1. IInv /\ [Next]_vars =>
        [/\ GoesOn(rotors, rotors')
         /\ rotors' \in {"hover", "command"} => cnt' = TakeOff]_vars
  <2> SUFFICES ASSUME IInv, [Next]_vars
               PROVE  /\ GoesOn(rotors, rotors')
                      /\ rotors' \in {"hover", "command"} => cnt' = TakeOff
    OBVIOUS
  <2>1. CASE \E odom, imu \in BOOLEAN : ControllerLoop(odom, imu)
    BY <2>1, LoopTakeOff
  <2>2. CASE ~ \E odom, imu \in BOOLEAN : ControllerLoop(odom, imu)
    <3>1. rotors' = rotors /\ cnt' = cnt
      BY <2>2, OnlyTheLoop DEF controllerVars
    <3> QED BY <3>1 DEF IInv, TakeOffCounted, GoesOn
  <2> QED BY <2>1, <2>2
<1> QED BY <1>1, Invariant, PTL DEF Spec, TakeOffOnce

-----------------------------------------------------------------------------
(* What the liveness properties rest on. *)

(* The newest trajectory, with the number of all of them, is last in the queue. *)
LEMMA NewestPublished ==
    ASSUME IInv, NewestKept, PlanPublished
    PROVE  NewestKept'
<1> DEFINE q == trajectories
           new == [id |-> posted + 1, age |-> 0]
           e == Enqueue(q, TrajectoryDepth, new)
<1>1. /\ q \in Seq(Trajectory) /\ Len(q) <= TrajectoryDepth
      /\ TrajectoryDepth \in Nat \ {0} /\ new \in Trajectory /\ new.id = posted + 1
  BY Constants DEF IInv, TypeOK, Trajectory
<1>2. \/ posted' = posted + 1 /\ trajectories' = e
      \/ UNCHANGED <<posted, trajectories, traj_id_, receive_traj_, dropped>>
  BY DEF PlanPublished, serverVars
<1> HIDE DEF new, q
<1>3. e \in Seq(Trajectory) /\ Len(e) \in 1 .. TrajectoryDepth /\ e[Len(e)] = new
  BY <1>1, EnqueueFacts
<1> HIDE DEF e
<1>4. e # <<>>
  BY <1>3
<1>5. CASE posted' = posted + 1 /\ trajectories' = e
  BY <1>1, <1>3, <1>4, <1>5 DEF NewestKept
<1>6. CASE UNCHANGED <<posted, trajectories, traj_id_, receive_traj_, dropped>>
  BY <1>6 DEF NewestKept
<1> QED BY <1>2, <1>5, <1>6

(* The server takes the newest trajectory when it takes the last one. *)
LEMMA NewestTaken ==
    ASSUME IInv, NewestKept, HandleTrajectory, posted # 0
    PROVE  NewestKept'
<1> DEFINE q == trajectories
           t == Tail(trajectories)
<1>1. q \in Seq(Trajectory) /\ q # <<>> /\ q[Len(q)].id = posted
  BY DEF IInv, TypeOK, HandleTrajectory, NewestKept
<1>2. /\ trajectories' = t /\ traj_id_' = Head(q).id /\ receive_traj_' = TRUE
      /\ posted' = posted
  BY DEF HandleTrajectory, polyTrajCallback, plannerVars
<1> HIDE DEF q
<1>3. /\ t \in Seq(Trajectory) /\ Len(t) = Len(q) - 1 /\ Len(q) \in Nat \ {0}
      /\ \A k \in 1 .. Len(t) : k + 1 \in 1 .. Len(q) /\ t[k] = q[k + 1]
      /\ Head(q) = q[1]
  BY <1>1, TailFacts DEF q
<1> HIDE DEF t
<1>4. CASE t = <<>>
  <2>1. Len(q) = 1
    BY <1>3, <1>4
  <2> QED BY <1>1, <1>2, <1>3, <1>4, <2>1 DEF NewestKept
<1>5. CASE t # <<>>
  <2>1. Len(t) \in 1 .. Len(t) /\ t[Len(t)] = q[Len(q)]
    BY <1>3, <1>5
  <2> QED BY <1>1, <1>2, <1>5, <2>1 DEF NewestKept
<1> QED BY <1>4, <1>5

(* Every step keeps the newest trajectory. *)
LEMMA NextNewest ==
    ASSUME IInv, NewestKept, [Next]_vars
    PROVE  NewestKept'
<1>1. CASE UNCHANGED <<posted, trajectories, traj_id_, receive_traj_, dropped>>
  BY <1>1 DEF NewestKept
<1>2. CASE PlanPublished
  BY <1>2, NewestPublished
<1>3. CASE HandleTrajectory
  <2>1. posted # 0
    <3>1. trajectories \in Seq(Trajectory) /\ trajectories # <<>> /\ traj_id_ \in Nat
          /\ posted \in Nat
      BY <1>3, Constants DEF IInv, TypeOK, HandleTrajectory
    <3>2. 1 \in 1 .. Len(trajectories)
      BY <3>1
    <3>3. trajectories[1].id <= posted /\ trajectories[1] \in Trajectory
      BY <3>1, <3>2 DEF IInv, TrajectoriesInOrder
    <3> QED BY <3>1, <3>3 DEF Trajectory
  <2> QED BY <1>3, <2>1, NewestTaken
<1>4. CASE cmdCallback
  BY <1>4 DEF cmdCallback, DropWhenLost, NewestKept, serverVars, plannerVars
<1>5. CASE TimePasses
  <2>1. /\ Len(trajectories') = Len(trajectories)
        /\ \A k \in 1 .. Len(trajectories) : trajectories'[k].id = trajectories[k].id
        /\ trajectories' \in Seq(Trajectory)
    BY <1>5, TimeInOrder
  <2>2. UNCHANGED <<posted, traj_id_, receive_traj_, dropped>>
    BY <1>5 DEF TimePasses, ServerAges, plannerVars
  <2>3. trajectories \in Seq(Trajectory)
    BY DEF IInv, TypeOK
  <2>4. trajectories = <<>> <=> trajectories' = <<>>
    BY <2>1, <2>3
  <2>5. trajectories # <<>> => Len(trajectories) \in 1 .. Len(trajectories)
    BY <2>3
  <2>6. trajectories # <<>> =>
          trajectories'[Len(trajectories')].id = trajectories[Len(trajectories)].id
    BY <2>1, <2>5
  <2> QED BY <2>2, <2>4, <2>6 DEF NewestKept
<1>6. CASE ExecTimer \/ SafetyTimer \/ PlanFails \/ PlannerDies
  BY <1>1, <1>6 DEF ExecTimer, SafetyTimer, PlanFails, PlannerDies, topicVars, serverVars
<1>7. CASE HandleHeartbeat \/ HandleOdometry
  BY <1>1, <1>7 DEF HandleHeartbeat, HandleOdometry, heartbeatCallback, odometryCallback,
                    plannerVars, topicVars
<1>8. CASE \E odom, imu \in BOOLEAN : ControllerLoop(odom, imu)
  BY <1>1, <1>8 DEF ControllerLoop, plannerVars, serverVars
<1>9. CASE \E topic \in Topic : Subscribe(topic)
  BY <1>1, <1>9 DEF Subscribe, plannerVars, topicVars, serverVars
<1>10. CASE UNCHANGED vars
  BY <1>1, <1>10 DEF vars, plannerVars, topicVars, serverVars
<1> QED BY <1>2, <1>3, <1>4, <1>5, <1>6, <1>7, <1>8, <1>9, <1>10 DEF Next, PlanEnds

(* The newest trajectory is flown, waits as the last one or has been dropped: a   *)
(* full queue loses older ones only, and the server is never left with an older   *)
(* one.                                                                           *)
THEOREM NewestKeptHolds == Spec => []NewestKept
<1>1. Init => NewestKept
  BY DEF Init, NewestKept
<1>2. IInv /\ NewestKept /\ [Next]_vars => NewestKept'
  BY NextNewest
<1> QED BY <1>1, <1>2, Invariant, PTL DEF Spec

(* After the planner's death heartbeats and trajectories only run out, and        *)
(* nothing makes the server publish again once they have.                         *)
THEOREM DeadPlannerRunsDownHolds == Spec => DeadPlannerRunsDown
<1>1. ASSUME IInv, [Next]_vars, planner = "dead"
      PROVE  RunsDown
  <2>1. /\ trajectories \in Seq(Trajectory) /\ heartbeats \in Nat
        /\ heartbeat_age \in 0 .. Timeout + 1 /\ Timeout + 1 \in Nat
    BY <1>1, Constants DEF IInv, TypeOK
  <2>2. heartbeat_age <= heartbeat_age /\ heartbeats <= heartbeats
        /\ Len(trajectories) <= Len(trajectories)
    BY <2>1
  <2>3. heartbeat_age > Timeout /\ cmdCallback => ~Commands'
    BY DEF cmdCallback, DropWhenLost, Commands
  <2>4. CASE UNCHANGED <<planner, heartbeats, trajectories, heartbeat_age, heard, receive_traj_>>
    BY <1>1, <2>2, <2>3, <2>4 DEF RunsDown, Commands
  <2>5. CASE HandleHeartbeat
    <3>1. heartbeats' = heartbeats - 1 /\ heartbeats > 0 /\ trajectories' = trajectories
          /\ planner' = planner
      BY <2>5 DEF HandleHeartbeat, plannerVars
    <3>2. heartbeats' <= heartbeats /\ heartbeats # 0
      BY <2>1, <3>1
    <3> QED BY <1>1, <2>2, <2>3, <3>1, <3>2 DEF RunsDown
  <2>6. CASE HandleTrajectory
    <3>1. /\ trajectories # <<>> /\ trajectories' = Tail(trajectories)
          /\ UNCHANGED <<planner, heartbeats, heartbeat_age>>
      BY <2>6 DEF HandleTrajectory, polyTrajCallback, plannerVars
    <3>2. Len(trajectories') <= Len(trajectories)
      BY <2>1, <3>1
    <3> QED BY <1>1, <2>2, <2>3, <3>1, <3>2 DEF RunsDown
  <2>7. CASE TimePasses
    <3>1. Len(trajectories') = Len(trajectories)
      BY <1>1, <2>7, TimeInOrder
    <3>2. UNCHANGED <<planner, heartbeats, heard, receive_traj_>>
          /\ heartbeat_age' = AgeUpTo(heartbeat_age + 1, Timeout + 1)
      BY <2>7 DEF TimePasses, ServerAges, plannerVars
    <3>3. heartbeat_age <= heartbeat_age'
      BY <2>1, <3>2, AgeFacts
    <3> QED BY <1>1, <2>2, <2>3, <3>1, <3>2, <3>3 DEF RunsDown, Commands
  <2>8. CASE cmdCallback
    <3>1. UNCHANGED <<planner, heartbeats, trajectories, heartbeat_age>> /\ Commands
      BY <2>8 DEF cmdCallback, DropWhenLost, plannerVars, serverVars
    <3> QED BY <1>1, <2>2, <2>3, <3>1 DEF RunsDown
  <2>9. ~(ExecTimer \/ SafetyTimer \/ PlanEnds \/ PlannerDies)
    BY <1>1 DEF ExecTimer, SafetyTimer, PlanEnds, PlanFails, PlanPublished, PlannerDies
  <2>10. CASE HandleOdometry
    BY <2>4, <2>10 DEF HandleOdometry, odometryCallback, plannerVars, topicVars
  <2>11. CASE \E odom, imu \in BOOLEAN : ControllerLoop(odom, imu)
    BY <2>4, <2>11 DEF ControllerLoop, plannerVars, serverVars
  <2>12. CASE \E topic \in Topic : Subscribe(topic)
    BY <2>4, <2>12 DEF Subscribe, plannerVars, topicVars, serverVars
  <2>13. CASE UNCHANGED vars
    BY <2>4, <2>13 DEF vars, plannerVars, topicVars, serverVars
  <2> QED
    BY <1>1, <2>5, <2>6, <2>7, <2>8, <2>9, <2>10, <2>11, <2>12, <2>13 DEF Next
<1>2. IInv /\ [Next]_vars => (planner = "dead" => RunsDown)
  BY <1>1
<1> QED BY <1>2, Invariant, PTL DEF Spec, DeadPlannerRunsDown
=============================================================================
