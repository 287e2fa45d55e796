----------------------------- MODULE PathSender -----------------------------
(***************************************************************************)
(* path_sender: builds the route from the start station to the end station *)
(* out of the recorded paths between stations and transit hubs, publishes  *)
(* it on /waypoints, and repeats it every two seconds.                     *)
(*                                                                         *)
(* A position counts as the station within 5 m of it, 0 where there is     *)
(* none.  A route is <<initial_num, end_num>>: paths[initial_num - 1], the *)
(* two hubs, paths[end_num - 1] reversed and end_point[end_num].           *)
(***************************************************************************)
EXTENDS Naturals, Sequences

CONSTANTS
  Stations,     \* 1..12
  Positions,    \* positions of the referee's messages
  StationAt,    \* StationAt[x]: the station within 5 m of x, or 0
  Origin,       \* (0, 0, 0), the value temp_end_goal starts with, near a station or not
  FirstHub,     \* the value next_initial_num starts with
  TopicDepth    \* messages the /waypoints queues hold; the oldest gives way

VARIABLES
  initial_num, end_num, next_initial_num,
  initial_num_get, end_num_get, path_get, initial_path_done,
  temp_end_goal,   \* position end_num was taken from
  path,            \* the route, <<0, 0>> before the first
  waypoints,       \* messages under way on /waypoints
  subscribed       \* the planner's subscription has reached the publisher (external)

numVars == <<initial_num, end_num, next_initial_num>>
flagVars == <<initial_num_get, end_num_get, path_get, initial_path_done>>
senderVars == <<numVars, flagVars, temp_end_goal, path>>
topicVars == <<waypoints, subscribed>>
vars == <<senderVars, topicVars>>

Init ==
  /\ initial_num = 0 /\ end_num = 0 /\ next_initial_num = FirstHub
  /\ initial_num_get = FALSE /\ end_num_get = FALSE
  /\ path_get = FALSE /\ initial_path_done = FALSE
  /\ temp_end_goal = Origin
  /\ path = <<0, 0>>
  /\ waypoints = <<>> /\ subscribed = FALSE
-----------------------------------------------------------------------------
\* What is published without a subscriber is lost.
publish(r) ==
  /\ waypoints' = IF ~subscribed THEN waypoints
                  ELSE Append(IF Len(waypoints) < TopicDepth THEN waypoints ELSE Tail(waypoints), r)
  /\ UNCHANGED subscribed

\* the first position near a station counts
initial_pose_cb(x) ==
  /\ ~initial_num_get /\ StationAt[x] # 0
  /\ initial_num' = StationAt[x]
  /\ initial_num_get' = TRUE
  /\ UNCHANGED <<end_num, next_initial_num, end_num_get, path_get, initial_path_done,
                 temp_end_goal, path, topicVars>>

\* Mutant: the route is not opened for rebuilding.
Mut_PathKept(x) ==
  /\ StationAt[x] # 0 /\ x # temp_end_goal
  /\ end_num' = StationAt[x] /\ end_num_get' = TRUE
  /\ temp_end_goal' = x
  /\ UNCHANGED <<initial_num, next_initial_num, initial_num_get, path_get, initial_path_done,
                 path, topicVars>>

\* a position that differs from the last one taken; a goal at Origin is not the first
end_pose_cb(x) ==
  /\ StationAt[x] # 0 /\ x # temp_end_goal
  /\ end_num' = StationAt[x]
  /\ end_num_get' = TRUE
  /\ path_get' = FALSE
  /\ temp_end_goal' = x
  /\ UNCHANGED <<initial_num, next_initial_num, initial_num_get, initial_path_done,
                 path, topicVars>>

\* Mutant: the next leg starts where this one does.
Mut_HubKept ==
  /\ ~path_get /\ initial_num_get /\ end_num_get
  /\ initial_num' = IF initial_path_done THEN next_initial_num ELSE initial_num
  /\ path' = <<initial_num', end_num>> /\ path_get' = TRUE /\ publish(path')
  /\ UNCHANGED <<end_num, next_initial_num, initial_num_get, end_num_get, initial_path_done, temp_end_goal>>

\* timeCB with a route to build: after the first, a leg starts where the
\* one before ended.
BuildPath ==
  /\ ~path_get /\ initial_num_get /\ end_num_get
  /\ IF initial_path_done
       THEN initial_num' = next_initial_num /\ next_initial_num' = end_num
       ELSE UNCHANGED <<initial_num, next_initial_num>>
  /\ path' = <<initial_num', end_num>>
  /\ path_get' = TRUE
  /\ publish(path')
  /\ UNCHANGED <<end_num, initial_num_get, end_num_get, initial_path_done, temp_end_goal>>

\* timeCB otherwise
Republish ==
  /\ path_get
  /\ publish(path)
  /\ initial_path_done' = TRUE
  /\ UNCHANGED <<numVars, initial_num_get, end_num_get, path_get, temp_end_goal, path>>

timeCB == BuildPath \/ Republish
=============================================================================
