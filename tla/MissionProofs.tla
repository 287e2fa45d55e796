---------------------------- MODULE MissionProofs ----------------------------
(***************************************************************************)
(* Theorems about Mission, for any stations, paths and positions, any      *)
(* length of the topic's queue and any number of goals: the legs of the    *)
(* mission of a patient referee connect, and whoever is the referee, the   *)
(* newest goal is the one that is flown when nothing is under way.         *)
(***************************************************************************)
EXTENDS Mission, SequenceTheorems, TLAPS

\* Types of what carries a route, and of the numbers one is built from.
RouteTypes ==
  /\ path \in Routes \cup {NoRoute} /\ waypoints \in Seq(Routes)
  /\ path_get => path # NoRoute
  /\ waypoints_ \in Routes \cup {NoRoute} /\ wps_ \in Routes \cup {NoRoute}
  /\ initial_pose \in Positions /\ end_goal \in Positions \cup {NoPosition}
  /\ initial_num_get => initial_num \in Stations
  /\ end_num_get => end_num \in Stations
  /\ next_initial_num \in Stations
  /\ goals \in Nat

\* What the planner recognises a repetition by is the route it took last.
LastTaken == waypoints_ # NoRoute => flag_points_subd_ /\ temp_path_end_ = waypoints_[2]

\* The announced goal has no route yet.
Unbuilt == temp_end_goal # end_goal \/ ~path_get

\* The numbers of path_sender: the next leg starts where its route ends,
\* before the first route at FirstHub, where the first goal is.
Numbers ==
  /\ goals = 0 => end_goal = NoPosition /\ ~end_num_get /\ path = NoRoute
  /\ end_num_get => end_num = StationAt[temp_end_goal]
  /\ path_get => end_num_get /\ path[2] = end_num
  /\ temp_end_goal # end_goal => path_get \/ ~end_num_get
  /\ path = NoRoute => /\ next_initial_num = FirstHub /\ ~initial_path_done
                       /\ goals # 0 => StationAt[end_goal] = FirstHub
  /\ path # NoRoute => next_initial_num = path[2]

\* At most two routes are about, the one flown and the one built, in this
\* order in the queue; a new one is built only when they are the same.
TwoRoutes ==
  /\ \A i \in 1..Len(waypoints) : waypoints[i] \in {waypoints_, path}
  /\ \A i, j \in 1..Len(waypoints) : i < j /\ waypoints[i] = path => waypoints[j] = path
  /\ waypoints_ \in {wps_, path}
  /\ wps_ # NoRoute /\ wps_ # path => path[1] = wps_[2] /\ path[2] # wps_[2]
  /\ Unbuilt => wps_ = path /\ waypoints_ = path
  /\ Unbuilt /\ path # NoRoute => initial_path_done /\ path[2] # StationAt[end_goal]

LegsInv == RouteTypes /\ LastTaken /\ (patient => Numbers /\ TwoRoutes)
-----------------------------------------------------------------------------
LEMMA StationFacts ==
  /\ NoRoute \notin Routes
  /\ 0 \notin Stations /\ FirstHub \in Stations
  /\ \A r \in Routes : RouteEnd[r] = r[2] /\ r[1] \in Stations /\ r[2] \in Stations
  /\ \A a, b \in Stations : <<a, b>> \in Routes
BY MissionAssumption DEF Routes, NoRoute, RouteEnd

LEMMA InitLegsInv == Init => LegsInv
<1> SUFFICES ASSUME Init PROVE LegsInv
  OBVIOUS
<1>1. RouteTypes
  BY StationFacts DEF Init, Sender!Init, FSM!Init, RouteTypes, NoRoute
<1>2. LastTaken
  BY DEF Init, FSM!Init, LastTaken
<1>3. Numbers
  BY DEF Init, Sender!Init, Numbers, NoRoute
<1>4. TwoRoutes
  BY DEF Init, Sender!Init, FSM!Init, TwoRoutes, Unbuilt, NoRoute
<1> QED
  BY <1>1, <1>2, <1>3, <1>4 DEF LegsInv

\* The state machine's own steps, and the subscription, move no route.
LEMMA Unmoved ==
  ASSUME LegsInv, UNCHANGED <<waypoints_, wps_, flag_points_subd_, temp_path_end_>>,
         UNCHANGED <<pathVars, waypoints, refereeVars>>
  PROVE  LegsInv'
BY DEF LegsInv, RouteTypes, LastTaken, Numbers, TwoRoutes, Unbuilt, pathVars, refereeVars

LEMMA FSMMovesNoRoute ==
  ASSUME Exec \/ Callback
  PROVE  /\ UNCHANGED <<waypoints_, wps_, flag_points_subd_, temp_path_end_>>
         /\ UNCHANGED <<senderVars, refereeVars>>
<1> USE DEF FSM!routeVars, FSM!goalVars, FSM!trajVars, FSM!stopVars, FSM!swarmVars
<1>1. CASE Exec
  BY <1>1 DEF Exec, FSM!execFSMCallback, FSM!ExecInit, FSM!ExecWaitTarget, FSM!ExecFirstTraj,
     FSM!ExecReplan, FSM!ExecNextWaypoint, FSM!mondifyInCollisionFinalGoal,
     FSM!ExecFinalWaypoint, FSM!ExecTimeToReplan, FSM!ExecEmergencyStop, FSM!AssignNextWaypoint
<1>2. CASE Callback
  BY <1>2 DEF Callback, FSM!checkCollisionCallback, FSM!odometryCallback
<1> QED
  BY <1>1, <1>2
-----------------------------------------------------------------------------
(* The referee.                                                            *)

\* When a leg is done its route is the only one about, and goes to the goal.
LEMMA DoneIsBuilt ==
  ASSUME LegsInv, patient, LegDone
  PROVE  /\ wps_ = path /\ waypoints_ = path
         /\ path # NoRoute /\ path_get /\ path[2] = StationAt[end_goal]
         /\ initial_path_done
<1>1. wps_ \in Routes /\ wps_[2] = StationAt[end_goal]
  BY StationFacts DEF LegDone, LegsInv, RouteTypes
<1>2. ~Unbuilt
  BY <1>1 DEF LegDone, LegsInv, TwoRoutes, NoRoute
<1>3. path_get /\ path # NoRoute /\ path[2] = StationAt[end_goal]
  BY <1>2 DEF Unbuilt, LegDone, LegsInv, RouteTypes, Numbers
<1>4. wps_ = path
  BY <1>1, <1>3 DEF LegsInv, TwoRoutes, LegDone
<1> QED
  BY <1>3, <1>4 DEF LegsInv, TwoRoutes, LegDone

LEMMA AnnounceLegs == LegsInv /\ Announce => LegsInv'
<1> SUFFICES ASSUME LegsInv, Announce PROVE LegsInv'
  OBVIOUS
<1> USE DEF senderVars, pathVars, fsmVars
<1>1. RouteTypes'
  BY DEF LegsInv, RouteTypes, Announce
<1>2. LastTaken'
  BY DEF LegsInv, LastTaken, Announce
<1>3. goals' # 0 /\ end_goal' # end_goal
  BY DEF LegsInv, RouteTypes, Announce
<1>4. ASSUME patient' PROVE Numbers' /\ TwoRoutes'
  <2>0. patient
    BY <1>4 DEF Announce
  <2>1. CASE goals = 0
    <3>1. StationAt[end_goal'] = FirstHub /\ path = NoRoute /\ ~path_get /\ ~end_num_get
      BY <2>0, <2>1 DEF LegsInv, RouteTypes, Numbers, Announce
    <3>2. Numbers'
      BY <2>0, <1>3, <3>1 DEF LegsInv, Numbers, Announce
    <3>3. Unbuilt
      BY <3>1 DEF Unbuilt
    <3>4. TwoRoutes'
      BY <2>0, <3>1, <3>3 DEF LegsInv, TwoRoutes, Announce
    <3> QED
      BY <3>2, <3>4
  <2>2. CASE goals # 0
    <3>1. LegDone /\ StationAt[end_goal'] # StationAt[end_goal]
      BY <2>0, <2>2 DEF Announce
    <3>2. /\ wps_ = path /\ waypoints_ = path
          /\ path # NoRoute /\ path_get /\ path[2] = StationAt[end_goal]
          /\ initial_path_done
      BY <2>0, <3>1, DoneIsBuilt
    <3>3. Numbers'
      BY <2>0, <1>3, <3>2 DEF LegsInv, Numbers, Announce
    <3>4. TwoRoutes'
      BY <2>0, <3>1, <3>2 DEF LegsInv, TwoRoutes, Announce
    <3> QED
      BY <3>3, <3>4
  <2> QED
    BY <2>1, <2>2
<1> QED
  BY <1>1, <1>2, <1>4 DEF LegsInv
-----------------------------------------------------------------------------
(* path_sender.                                                            *)

LEMMA ReadStartLegs == LegsInv /\ ReadStart => LegsInv'
<1> SUFFICES ASSUME LegsInv, ReadStart PROVE LegsInv'
  OBVIOUS
<1> USE DEF fsmVars, refereeVars, Sender!topicVars
<1>1. RouteTypes'
  <2>1. initial_num' \in Stations
    BY MissionAssumption DEF ReadStart, Sender!initial_pose_cb, LegsInv, RouteTypes
  <2> QED
    BY <2>1 DEF LegsInv, RouteTypes, ReadStart, Sender!initial_pose_cb
<1> QED
  BY <1>1 DEF LegsInv, LastTaken, Numbers, TwoRoutes, Unbuilt, ReadStart, Sender!initial_pose_cb

LEMMA ReadGoalLegs == LegsInv /\ ReadGoal => LegsInv'
<1> SUFFICES ASSUME LegsInv, ReadGoal PROVE LegsInv'
  OBVIOUS
<1> USE DEF fsmVars, refereeVars, Sender!topicVars
<1>1. end_num' = StationAt[end_goal] /\ end_num' \in Stations
  BY MissionAssumption DEF ReadGoal, Sender!end_pose_cb, LegsInv, RouteTypes
<1>2. RouteTypes'
  BY <1>1 DEF LegsInv, RouteTypes, ReadGoal, Sender!end_pose_cb
<1>3. LastTaken'
  BY DEF LegsInv, LastTaken, ReadGoal, Sender!end_pose_cb
<1>4. ASSUME patient' PROVE Numbers' /\ TwoRoutes'
  <2>1. patient /\ Unbuilt /\ goals # 0
    BY <1>4 DEF LegsInv, Numbers, Unbuilt, ReadGoal, Sender!end_pose_cb
  <2>2. Numbers'
    BY <2>1 DEF LegsInv, Numbers, ReadGoal, Sender!end_pose_cb
  <2>3. TwoRoutes'
    BY <2>1 DEF LegsInv, TwoRoutes, ReadGoal, Sender!end_pose_cb
  <2> QED
    BY <2>2, <2>3
<1> QED
  BY <1>2, <1>3, <1>4 DEF LegsInv

\* The queue after a publication: what was in it, perhaps without its head,
\* and the route published.
LEMMA Published ==
  ASSUME waypoints \in Seq(Routes), NEW r \in Routes, Sender!publish(r)
  PROVE  /\ waypoints' \in Seq(Routes)
         /\ \A i \in 1..Len(waypoints') :
              waypoints'[i] = r \/ \E k \in 1..Len(waypoints) : waypoints'[i] = waypoints[k]
         /\ \A i, j \in 1..Len(waypoints') :
              i < j => \/ waypoints'[j] = r
                       \/ \E k, l \in 1..Len(waypoints) :
                            k < l /\ waypoints'[i] = waypoints[k] /\ waypoints'[j] = waypoints[l]
<1>1. CASE ~subscribed
  BY <1>1 DEF Sender!publish
<1>2. CASE subscribed /\ Len(waypoints) < TopicDepth
  <2>1. waypoints' = Append(waypoints, r)
    BY <1>2 DEF Sender!publish
  <2> QED
    BY <2>1
<1>3. CASE subscribed /\ ~(Len(waypoints) < TopicDepth)
  <2>1. waypoints' = Append(Tail(waypoints), r) /\ waypoints # <<>>
    BY <1>3, MissionAssumption DEF Sender!publish
  <2>2. /\ Tail(waypoints) \in Seq(Routes) /\ Len(Tail(waypoints)) = Len(waypoints) - 1
        /\ \A i \in 1..Len(Tail(waypoints)) : Tail(waypoints)[i] = waypoints[i + 1]
    BY <2>1, HeadTailProperties
  <2>3. Len(waypoints) \in Nat \ {0}
    BY <2>1, EmptySeq
  <2> DEFINE q == Tail(waypoints)
  <2>4. /\ Append(q, r) \in Seq(Routes) /\ Len(Append(q, r)) = Len(waypoints)
        /\ \A i \in 1..(Len(waypoints) - 1) : Append(q, r)[i] = waypoints[i + 1]
        /\ Append(q, r)[Len(waypoints)] = r
    BY <2>2, <2>3, AppendProperties
  <2> HIDE DEF q
  <2>5. \A i \in 1..Len(waypoints) : i = Len(waypoints) \/ (i \in 1..(Len(waypoints) - 1) /\ i + 1 \in 1..Len(waypoints))
    BY <2>3
  <2>6. waypoints' = Append(q, r)
    BY <2>1 DEF q
  <2>7. /\ waypoints' \in Seq(Routes) /\ Len(waypoints') = Len(waypoints)
        /\ \A i \in 1..Len(waypoints) :
             waypoints'[i] = r \/ (i + 1 \in 1..Len(waypoints) /\ waypoints'[i] = waypoints[i + 1])
        /\ waypoints'[Len(waypoints)] = r
    BY <2>4, <2>5, <2>6
  <2>8. ASSUME NEW i \in 1..Len(waypoints), NEW j \in 1..Len(waypoints), i < j,
               waypoints'[j] # r
        PROVE  /\ i + 1 \in 1..Len(waypoints) /\ j + 1 \in 1..Len(waypoints)
               /\ i + 1 < j + 1
               /\ waypoints'[i] = waypoints[i + 1] /\ waypoints'[j] = waypoints[j + 1]
    <3>1. i # Len(waypoints) /\ j # Len(waypoints)
      BY <2>3, <2>7, <2>8
    <3> QED
      BY <2>3, <2>4, <2>5, <2>6, <2>8, <3>1
  <2> QED
    BY <2>7, <2>8
<1> QED
  BY <1>1, <1>2, <1>3

\* A route to the new goal, from where the one before ends.
LEMMA BuildPathLegs == LegsInv /\ Tick /\ Sender!BuildPath => LegsInv'
<1> SUFFICES ASSUME LegsInv, Tick, Sender!BuildPath PROVE LegsInv'
  OBVIOUS
<1> USE DEF fsmVars, refereeVars
<1>1. /\ path' = <<initial_num', end_num>> /\ path' \in Routes
      /\ path'[1] = initial_num' /\ path'[2] = end_num /\ path' # NoRoute
      /\ path_get' /\ ~path_get /\ end_num_get
  BY StationFacts DEF Sender!BuildPath, LegsInv, RouteTypes
<1>2. Sender!publish(path')
  BY DEF Sender!BuildPath
<1>3. waypoints \in Seq(Routes)
  BY DEF LegsInv, RouteTypes
<1>4. waypoints' \in Seq(Routes)
  BY <1>1, <1>2, <1>3, Published
<1>5. RouteTypes'
  BY <1>1, <1>4, StationFacts DEF LegsInv, RouteTypes, Tick, Sender!BuildPath
<1>6. LastTaken'
  BY DEF LegsInv, LastTaken, Tick, Sender!BuildPath
<1>7. ASSUME patient' PROVE Numbers' /\ TwoRoutes'
  <2>0. patient /\ Unbuilt
    BY <1>1, <1>7 DEF Tick, Unbuilt
  <2>1. /\ temp_end_goal = end_goal /\ end_num = StationAt[end_goal] /\ goals # 0
        /\ wps_ = path /\ waypoints_ = path
    BY <1>1, <2>0 DEF LegsInv, Numbers, TwoRoutes
  <2>2. path # NoRoute => initial_path_done /\ path[2] # end_num /\ initial_num' = path[2]
    BY <2>0, <2>1 DEF LegsInv, Numbers, TwoRoutes, Sender!BuildPath
  <2>3. path = NoRoute => /\ ~initial_path_done /\ end_num = FirstHub
                          /\ next_initial_num = FirstHub
    BY <2>0, <2>1 DEF LegsInv, Numbers
  <2>4. next_initial_num' = end_num
    BY <2>2, <2>3 DEF Sender!BuildPath
  <2>5. Numbers'
    BY <1>1, <2>0, <2>1, <2>4 DEF LegsInv, Numbers, Tick, Sender!BuildPath
  <2>6. \A i \in 1..Len(waypoints) : waypoints[i] = path /\ waypoints[i] # path'
    <3>1. \A i \in 1..Len(waypoints) : waypoints[i] \in Routes /\ waypoints[i] = path
      BY <1>3, <2>0, <2>1, ElementOfSeq DEF LegsInv, TwoRoutes
    <3> QED
      BY <3>1, <2>2, <1>1, StationFacts
  <2>7. \A i \in 1..Len(waypoints') : waypoints'[i] \in {waypoints_, path'}
    BY <1>1, <1>2, <1>3, <2>1, <2>6, Published
  <2>8. \A i, j \in 1..Len(waypoints') :
          i < j /\ waypoints'[i] = path' => waypoints'[j] = path'
    BY <1>1, <1>2, <1>3, <2>6, Published
  <2>9. waypoints_' = waypoints_ /\ wps_' = wps_ /\ end_goal' = end_goal /\ temp_end_goal' = temp_end_goal
    BY DEF Tick, Sender!BuildPath
  <2>10. ~Unbuilt'
    BY <1>1, <2>1, <2>9 DEF Unbuilt
  <2>11. TwoRoutes'
    BY <1>1, <2>1, <2>2, <2>7, <2>8, <2>9, <2>10 DEF TwoRoutes
  <2> QED
    BY <2>5, <2>11
<1> QED
  BY <1>5, <1>6, <1>7 DEF LegsInv


\* The route is repeated: it is the last in the queue.
LEMMA RepublishLegs == LegsInv /\ Tick /\ Sender!Republish => LegsInv'
<1> SUFFICES ASSUME LegsInv, Tick, Sender!Republish PROVE LegsInv'
  OBVIOUS
<1> USE DEF fsmVars, refereeVars, Sender!numVars
<1>1. waypoints \in Seq(Routes)
  BY DEF LegsInv, RouteTypes
<1>2. Sender!publish(path)
  BY DEF Sender!Republish
<1>3. path \in Routes
  BY DEF Sender!Republish, LegsInv, RouteTypes
<1>4. waypoints' \in Seq(Routes)
  BY <1>1, <1>2, <1>3, Published
<1>5. RouteTypes'
  BY <1>4 DEF LegsInv, RouteTypes, Tick, Sender!Republish
<1>6. LastTaken'
  BY DEF LegsInv, LastTaken, Tick, Sender!Republish
<1>7. ASSUME patient' PROVE Numbers' /\ TwoRoutes'
  <2>0. patient
    BY <1>7 DEF Tick
  <2>1. Numbers'
    BY <2>0, <1>3, StationFacts DEF LegsInv, Numbers, Tick, Sender!Republish
  <2>2. /\ \A i \in 1..Len(waypoints) : waypoints[i] \in {waypoints_, path}
        /\ \A i, j \in 1..Len(waypoints) : i < j /\ waypoints[i] = path => waypoints[j] = path
    BY <2>0 DEF LegsInv, TwoRoutes
  <2>3. /\ \A i \in 1..Len(waypoints') : waypoints'[i] \in {waypoints_, path}
        /\ \A i, j \in 1..Len(waypoints') : i < j /\ waypoints'[i] = path => waypoints'[j] = path
    <3>1. /\ \A i \in 1..Len(waypoints') :
               waypoints'[i] = path \/ \E k \in 1..Len(waypoints) : waypoints'[i] = waypoints[k]
          /\ \A i, j \in 1..Len(waypoints') :
               i < j => \/ waypoints'[j] = path
                        \/ \E k, l \in 1..Len(waypoints) :
                             k < l /\ waypoints'[i] = waypoints[k] /\ waypoints'[j] = waypoints[l]
      BY <1>1, <1>2, <1>3, Published
    <3>2. \A i \in 1..Len(waypoints') : waypoints'[i] \in {waypoints_, path}
      BY <2>2, <3>1
    <3>3. ASSUME NEW i \in 1..Len(waypoints'), NEW j \in 1..Len(waypoints'),
                 i < j, waypoints'[i] = path, waypoints'[j] # path
          PROVE  FALSE
      <4>1. PICK k, l \in 1..Len(waypoints) :
              k < l /\ waypoints'[i] = waypoints[k] /\ waypoints'[j] = waypoints[l]
        BY <3>1, <3>3
      <4> QED
        BY <2>2, <3>3, <4>1
    <3> QED
      BY <3>2, <3>3
  <2>4. UNCHANGED <<waypoints_, wps_, path, path_get, temp_end_goal, end_goal>>
    BY DEF Tick, Sender!Republish
  <2>5. initial_path_done'
    BY DEF Sender!Republish
  <2>6. TwoRoutes'
    BY <2>0, <2>3, <2>4, <2>5 DEF LegsInv, TwoRoutes, Unbuilt
  <2> QED
    BY <2>1, <2>6
<1> QED
  BY <1>5, <1>6, <1>7 DEF LegsInv
-----------------------------------------------------------------------------
(* The planner.                                                            *)

\* The planner takes a route: a repetition is dropped; any other is the one
\* built last, and follows from the one flown.
LEMMA TakeWayPointsLegs ==
  LegsInv /\ TakeWayPoints
    => LegsInv' /\ (patient /\ wps_ # NoRoute /\ wps_' # wps_ => wps_'[1] = wps_[2])
<1> SUFFICES ASSUME LegsInv, TakeWayPoints
             PROVE  LegsInv' /\ (patient /\ wps_ # NoRoute /\ wps_' # wps_ => wps_'[1] = wps_[2])
  OBVIOUS
<1> DEFINE r == Head(waypoints)
<1>1. /\ waypoints' = Tail(waypoints) /\ waypoints # <<>>
      /\ UNCHANGED <<pathVars, refereeVars>>
  BY DEF TakeWayPoints
<1>2. waypoints \in Seq(Routes)
  BY DEF LegsInv, RouteTypes
<1>3. /\ waypoints' \in Seq(Routes) /\ r \in Routes /\ r = waypoints[1]
      /\ Len(waypoints) \in Nat \ {0} /\ Len(waypoints') = Len(waypoints) - 1
      /\ \A i \in 1..Len(waypoints') : waypoints'[i] = waypoints[i + 1]
  BY <1>1, <1>2, HeadTailProperties, EmptySeq
<1>4. \A i \in 1..Len(waypoints') : i + 1 \in 1..Len(waypoints) /\ 1 < i + 1
  BY <1>3
<1>5. 1 \in 1..Len(waypoints)
  BY <1>3
<1>6. RouteEnd[r] = r[2]
  BY <1>3, StationFacts
<1> HIDE DEF r
<1>7. CASE UNCHANGED fsmVars
  <2>1. RouteTypes' /\ LastTaken'
    BY <1>1, <1>3, <1>7 DEF LegsInv, RouteTypes, LastTaken, pathVars, refereeVars, fsmVars
  <2>2. ASSUME patient' PROVE Numbers' /\ TwoRoutes'
    <3>1. patient
      BY <1>1, <2>2 DEF refereeVars
    <3>2. /\ \A i \in 1..Len(waypoints') : waypoints'[i] \in {waypoints_, path}
          /\ \A i, j \in 1..Len(waypoints') : i < j /\ waypoints'[i] = path => waypoints'[j] = path
      BY <1>3, <1>4, <3>1 DEF LegsInv, TwoRoutes
    <3>3. Numbers'
      BY <1>1, <3>1 DEF LegsInv, Numbers, pathVars, refereeVars
    <3>4. TwoRoutes'
      BY <1>1, <1>7, <3>1, <3>2 DEF LegsInv, TwoRoutes, Unbuilt, pathVars, refereeVars, fsmVars
    <3> QED
      BY <3>3, <3>4
  <2> QED
    BY <1>7, <2>1, <2>2 DEF LegsInv, fsmVars
<1>8. CASE FSM!WayPointsCallback(r)
  <2>1. /\ ~FSM!Repeated(r)
        /\ waypoints_' = r /\ flag_points_subd_' /\ temp_path_end_' = r[2]
        /\ wps_' \in {wps_, r}
    BY <1>6, <1>8 DEF FSM!WayPointsCallback, FSM!readGivenWpsAndPlan, FSM!goalVars
  <2>2. r # waypoints_
    BY <1>3, <1>6, <2>1, StationFacts DEF LegsInv, LastTaken, FSM!Repeated
  <2>3. RouteTypes' /\ LastTaken'
    BY <1>1, <1>3, <2>1 DEF LegsInv, RouteTypes, LastTaken, pathVars, refereeVars
  <2>4. ASSUME patient PROVE r = path /\ ~Unbuilt /\ Numbers' /\ TwoRoutes'
    <3>1. r = path
      BY <1>3, <1>5, <2>2, <2>4 DEF LegsInv, TwoRoutes
    <3>2. ~Unbuilt
      BY <2>2, <2>4, <3>1 DEF LegsInv, TwoRoutes
    <3>3. \A i \in 1..Len(waypoints') : waypoints'[i] = path
      BY <1>3, <1>4, <1>5, <2>4, <3>1 DEF LegsInv, TwoRoutes
    <3>4. Numbers'
      BY <1>1, <2>4 DEF LegsInv, Numbers, pathVars, refereeVars
    <3>5. ~Unbuilt' /\ path' = path
      BY <1>1, <3>2 DEF Unbuilt, pathVars, refereeVars
    <3>6. TwoRoutes'
      BY <2>1, <2>4, <3>1, <3>3, <3>5 DEF LegsInv, TwoRoutes
    <3> QED
      BY <3>1, <3>2, <3>4, <3>6
  <2>5. patient' = patient
    BY <1>1 DEF refereeVars
  <2>6. patient /\ wps_ # NoRoute /\ wps_' # wps_ => wps_'[1] = wps_[2]
    BY <2>1, <2>4 DEF LegsInv, TwoRoutes
  <2> QED
    BY <2>3, <2>4, <2>5, <2>6 DEF LegsInv
<1> QED
  BY <1>7, <1>8 DEF TakeWayPoints, r

\* The waiting loop ends: the route it has waited with is flown.
LEMMA ResumeLegs ==
  LegsInv /\ Resume
    => LegsInv' /\ (patient /\ wps_ # NoRoute /\ wps_' # wps_ => wps_'[1] = wps_[2])
<1> SUFFICES ASSUME LegsInv, Resume
             PROVE  LegsInv' /\ (patient /\ wps_ # NoRoute /\ wps_' # wps_ => wps_'[1] = wps_[2])
  OBVIOUS
<1>1. /\ wps_' = waypoints_ /\ UNCHANGED <<waypoints_, flag_points_subd_, temp_path_end_>>
      /\ UNCHANGED <<pathVars, waypoints, refereeVars>>
  BY DEF Resume, FSM!ResumeWayPoints, FSM!readGivenWpsAndPlan, senderVars
<1>2. patient => waypoints_ \in {wps_, path}
  BY DEF LegsInv, TwoRoutes
<1>3. RouteTypes' /\ LastTaken'
  BY <1>1 DEF LegsInv, RouteTypes, LastTaken, pathVars, refereeVars
<1>4. patient => Numbers' /\ TwoRoutes'
  BY <1>1, <1>2 DEF LegsInv, Numbers, TwoRoutes, Unbuilt, pathVars, refereeVars
<1>5. patient' = patient
  BY <1>1 DEF refereeVars
<1> QED
  BY <1>1, <1>2, <1>3, <1>4, <1>5 DEF LegsInv, TwoRoutes
-----------------------------------------------------------------------------
LEMMA NextLegsInv ==
  LegsInv /\ [Next]_vars
    => LegsInv' /\ (patient /\ wps_ # NoRoute /\ wps_' # wps_ => wps_'[1] = wps_[2])
<1> SUFFICES ASSUME LegsInv, [Next]_vars
             PROVE  LegsInv' /\ (patient /\ wps_ # NoRoute /\ wps_' # wps_ => wps_'[1] = wps_[2])
  OBVIOUS
<1>1. CASE Announce
  BY <1>1, AnnounceLegs DEF Announce, fsmVars
<1>2. CASE Subscribe
  BY <1>2, Unmoved DEF Subscribe, fsmVars
<1>3. CASE ReadStart
  BY <1>3, ReadStartLegs DEF ReadStart, fsmVars
<1>4. CASE ReadGoal
  BY <1>4, ReadGoalLegs DEF ReadGoal, fsmVars
<1>5. CASE Tick
  <2>1. wps_' = wps_
    BY <1>5 DEF Tick, fsmVars
  <2>2. Sender!BuildPath \/ Sender!Republish
    BY <1>5 DEF Tick, Sender!timeCB
  <2> QED
    BY <1>5, <2>1, <2>2, BuildPathLegs, RepublishLegs
<1>6. CASE TakeWayPoints
  BY <1>6, TakeWayPointsLegs
<1>7. CASE Exec \/ Callback
  BY <1>7, FSMMovesNoRoute, Unmoved DEF senderVars
<1>8. CASE Resume
  BY <1>8, ResumeLegs
<1>9. CASE UNCHANGED vars
  BY <1>9, Unmoved DEF vars, senderVars, fsmVars
<1> QED
  BY <1>1, <1>2, <1>3, <1>4, <1>5, <1>6, <1>7, <1>8, <1>9 DEF Next

\* The legs of a patient referee's mission connect: path_sender's own guess of
\* where the drone is, its repetitions and the planner's waiting loop agree
\* (path_sender.cpp:214-266, ego_replan_fsm.cpp:996-1032).
THEOREM LegsConnectHolds == Spec => LegsConnect
<1>1. Init => LegsInv
  BY InitLegsInv
<1>2. LegsInv /\ [Next]_vars => LegsInv'
  BY NextLegsInv
<1>3. LegsInv /\ [Next]_vars
        => [patient /\ wps_ # NoRoute /\ wps_' # wps_ => wps_'[1] = wps_[2]]_vars
  BY NextLegsInv
<1>4. QED
  BY <1>1, <1>2, <1>3, PTL DEF Spec, LegsConnect
-----------------------------------------------------------------------------
(* The newest route, under any referee: it is the last one in the queue,   *)
(* or, when the queue is empty, ends where the route taken last ends.      *)
GoalNumbers ==
  /\ end_num_get => end_num = StationAt[temp_end_goal]
  /\ path_get => end_num_get /\ path[2] = end_num

NewestOnItsWay ==
  /\ waypoints # <<>> => waypoints[Len(waypoints)] = path
  /\ waypoints = <<>> /\ waypoints_ # NoRoute => waypoints_[2] = path[2]
  /\ ~subscribed => waypoints = <<>> /\ waypoints_ = NoRoute

WaitingOrFlown ==
  /\ ~suspended => wps_ = waypoints_
  /\ flag_points_subd_ => waypoints_ # NoRoute

SettleInv == GoalNumbers /\ NewestOnItsWay /\ WaitingOrFlown

\* What is published is the last in the queue, even in a full one.
LEMMA PublishedLast ==
  ASSUME waypoints \in Seq(Routes), NEW r \in Routes, Sender!publish(r)
  PROVE  /\ subscribed => waypoints' # <<>> /\ waypoints'[Len(waypoints')] = r
         /\ ~subscribed => waypoints' = waypoints
         /\ subscribed' = subscribed
<1>1. CASE ~subscribed
  BY <1>1 DEF Sender!publish
<1>2. CASE subscribed
  <2>1. PICK q \in Seq(Routes) : waypoints' = Append(q, r)
    <3>1. waypoints # <<>> => Tail(waypoints) \in Seq(Routes)
      BY HeadTailProperties
    <3>2. ~(Len(waypoints) < TopicDepth) => waypoints # <<>>
      BY MissionAssumption
    <3> QED
      BY <1>2, <3>1, <3>2 DEF Sender!publish
  <2> HIDE <2>1
  <2>2. /\ Append(q, r) # <<>> /\ Len(Append(q, r)) = Len(q) + 1
        /\ Append(q, r)[Len(q) + 1] = r
    BY AppendProperties
  <2> QED
    BY <1>2, <2>1, <2>2 DEF Sender!publish
<1> QED
  BY <1>1, <1>2

LEMMA TickSettles == LegsInv /\ SettleInv /\ Tick => SettleInv'
<1> SUFFICES ASSUME LegsInv, SettleInv, Tick PROVE SettleInv'
  OBVIOUS
<1> USE DEF fsmVars, refereeVars
<1>1. waypoints \in Seq(Routes)
  BY DEF LegsInv, RouteTypes
<1>2. path' \in Routes /\ Sender!publish(path')
  <2>1. CASE Sender!BuildPath
    BY <2>1, StationFacts DEF Sender!BuildPath, LegsInv, RouteTypes
  <2>2. CASE Sender!Republish
    BY <2>2 DEF Sender!Republish, LegsInv, RouteTypes
  <2> QED
    BY <2>1, <2>2 DEF Tick, Sender!timeCB
<1>3. /\ subscribed => waypoints' # <<>> /\ waypoints'[Len(waypoints')] = path'
      /\ ~subscribed => waypoints' = waypoints
      /\ subscribed' = subscribed
  BY <1>1, <1>2, PublishedLast
<1>4. UNCHANGED <<waypoints_, wps_, suspended, flag_points_subd_>>
  BY DEF Tick
<1>5. GoalNumbers'
  BY DEF SettleInv, GoalNumbers, Tick, Sender!timeCB, Sender!BuildPath, Sender!Republish,
     Sender!numVars
<1>6. NewestOnItsWay'
  BY <1>3, <1>4 DEF SettleInv, NewestOnItsWay
<1> QED
  BY <1>4, <1>5, <1>6 DEF SettleInv, WaitingOrFlown

\* A route is taken from the queue, or dropped there because the route
\* taken last ends where it ends.
LEMMA TakeSettles == LegsInv /\ SettleInv /\ TakeWayPoints => SettleInv'
<1> SUFFICES ASSUME LegsInv, SettleInv, TakeWayPoints PROVE SettleInv'
  OBVIOUS
<1> DEFINE r == Head(waypoints)
<1>1. /\ waypoints' = Tail(waypoints) /\ waypoints # <<>>
      /\ UNCHANGED <<pathVars, subscribed>>
  BY DEF TakeWayPoints
<1>2. waypoints \in Seq(Routes)
  BY DEF LegsInv, RouteTypes
<1>3. /\ waypoints' \in Seq(Routes) /\ r \in Routes /\ r = waypoints[1]
      /\ Len(waypoints) \in Nat \ {0} /\ Len(waypoints') = Len(waypoints) - 1
      /\ \A i \in 1..Len(waypoints') : waypoints'[i] = waypoints[i + 1]
  BY <1>1, <1>2, HeadTailProperties, EmptySeq
<1>4. waypoints[Len(waypoints)] = path
  BY <1>1 DEF SettleInv, NewestOnItsWay
<1>5. waypoints' # <<>> => waypoints'[Len(waypoints')] = path'
  <2>1. waypoints' # <<>> => Len(waypoints') \in 1..Len(waypoints')
    BY <1>3, EmptySeq
  <2> QED
    BY <1>1, <1>3, <1>4, <2>1 DEF pathVars
<1>6. waypoints' = <<>> => r = path
  <2>1. waypoints' = <<>> => Len(waypoints) = 1
    BY <1>3
  <2> QED
    BY <1>3, <1>4, <2>1
<1>7. RouteEnd[r] = r[2] /\ subscribed
  BY <1>1, <1>3, StationFacts DEF SettleInv, NewestOnItsWay
<1> HIDE DEF r
<1>8. GoalNumbers'
  BY <1>1 DEF SettleInv, GoalNumbers, pathVars
<1>9. waypoints_'[2] = r[2] /\ WaitingOrFlown'
  <2>1. CASE FSM!Repeated(r) /\ UNCHANGED fsmVars
    <3>1. waypoints_' = waypoints_ /\ WaitingOrFlown'
      BY <2>1 DEF SettleInv, WaitingOrFlown, fsmVars
    <3>2. waypoints_[2] = r[2]
      BY <1>7, <2>1 DEF SettleInv, WaitingOrFlown, LegsInv, LastTaken, FSM!Repeated
    <3> QED
      BY <3>1, <3>2
  <2>2. CASE FSM!WayPointsCallback(r)
    BY <1>3, <2>2, StationFacts DEF FSM!WayPointsCallback, FSM!readGivenWpsAndPlan, WaitingOrFlown
  <2> QED
    BY <2>1, <2>2 DEF TakeWayPoints, r
<1>10. NewestOnItsWay'
  BY <1>1, <1>5, <1>6, <1>7, <1>9 DEF NewestOnItsWay, pathVars
<1> QED
  BY <1>8, <1>9, <1>10 DEF SettleInv

LEMMA FSMKeepsWaiting ==
  ASSUME Exec \/ Callback
  PROVE  suspended' = suspended
<1> USE DEF FSM!routeVars
<1>1. CASE Exec
  BY <1>1 DEF Exec, FSM!execFSMCallback, FSM!ExecInit, FSM!ExecWaitTarget, FSM!ExecFirstTraj,
     FSM!ExecReplan, FSM!ExecNextWaypoint, FSM!mondifyInCollisionFinalGoal,
     FSM!ExecFinalWaypoint, FSM!ExecTimeToReplan, FSM!ExecEmergencyStop
<1>2. CASE Callback
  BY <1>2 DEF Callback, FSM!checkCollisionCallback, FSM!odometryCallback
<1> QED
  BY <1>1, <1>2

LEMMA NextSettleInv == LegsInv /\ SettleInv /\ [Next]_vars => SettleInv'
<1> SUFFICES ASSUME LegsInv, SettleInv, [Next]_vars PROVE SettleInv'
  OBVIOUS
<1> USE DEF SettleInv, GoalNumbers, NewestOnItsWay, WaitingOrFlown
<1>1. CASE Announce
  BY <1>1 DEF Announce, senderVars, pathVars, fsmVars
<1>2. CASE Subscribe
  BY <1>2 DEF Subscribe, pathVars, fsmVars
<1>3. CASE ReadStart
  BY <1>3 DEF ReadStart, Sender!initial_pose_cb, Sender!topicVars, fsmVars
<1>4. CASE ReadGoal
  BY <1>4 DEF ReadGoal, Sender!end_pose_cb, Sender!topicVars, fsmVars
<1>5. CASE Tick
  BY <1>5, TickSettles
<1>6. CASE TakeWayPoints
  BY <1>6, TakeSettles
<1>7. CASE Exec \/ Callback
  <2>1. UNCHANGED <<waypoints_, wps_, flag_points_subd_, senderVars>>
    BY <1>7, FSMMovesNoRoute
  <2>2. suspended' = suspended
    BY <1>7, FSMKeepsWaiting
  <2> QED
    BY <2>1, <2>2 DEF senderVars, pathVars
<1>8. CASE Resume
  BY <1>8 DEF Resume, FSM!ResumeWayPoints, FSM!readGivenWpsAndPlan, senderVars, pathVars
<1>9. CASE UNCHANGED vars
  BY <1>9 DEF vars, senderVars, pathVars, fsmVars
<1> QED
  BY <1>1, <1>2, <1>3, <1>4, <1>5, <1>6, <1>7, <1>8, <1>9 DEF Next

\* The newest goal wins: with nothing under way and nobody waiting, the route
\* flown ends at the goal path_sender took last, however goals, repetitions,
\* the subscription and the waiting loop interleave.
THEOREM SettledOnGoalHolds == Spec => []SettledOnGoal
<1>1. Init => LegsInv /\ SettleInv
  BY InitLegsInv DEF Init, Sender!Init, FSM!Init, SettleInv, GoalNumbers, NewestOnItsWay,
     WaitingOrFlown
<1>2. SettleInv => SettledOnGoal
  BY DEF SettleInv, GoalNumbers, NewestOnItsWay, WaitingOrFlown, SettledOnGoal
<1>3. LegsInv /\ [Next]_vars => LegsInv'
  BY NextLegsInv
<1> QED
  BY <1>1, <1>2, <1>3, NextSettleInv, PTL DEF Spec
-----------------------------------------------------------------------------
(* The planner in its surroundings.                                        *)

\* The constants the planner is used with satisfy what its theorems assume.
LEMMA PlannerAssumption == FSM!FSMAssumption
<1>1. ASSUME NEW r \in Routes PROVE PathLen[r[1]] + PathLen[r[2]] + 3 \in Nat \ {0, 1}
  <2>1. PathLen[r[1]] \in Nat /\ PathLen[r[2]] \in Nat
    BY StationFacts, MissionAssumption
  <2> QED
    BY <2>1
<1>2. RouteLen \in [Routes -> Nat \ {0, 1}]
  BY <1>1 DEF RouteLen
<1>3. \A r \in Routes : RouteEnd[r] # 0
  BY StationFacts
<1> QED
  BY <1>2, <1>3, StationFacts, MissionAssumption DEF FSM!FSMAssumption

\* Every step of the mission is a step of the planner or none of its business.
LEMMA PlannerStep == LegsInv /\ [Next]_vars => [FSM!Next]_(FSM!vars)
<1> SUFFICES ASSUME LegsInv, [Next]_vars, ~UNCHANGED FSM!vars PROVE FSM!Next
  OBVIOUS
<1> USE DEF FSM!vars, FSM!routeVars, FSM!goalVars, FSM!trajVars, FSM!stopVars, FSM!swarmVars,
        fsmVars
<1>1. ASSUME TakeWayPoints PROVE FSM!Next
  <2>1. Head(waypoints) \in Routes
    BY <1>1, HeadTailProperties DEF TakeWayPoints, LegsInv, RouteTypes
  <2>2. FSM!WayPointsCallback(Head(waypoints))
    BY <1>1 DEF TakeWayPoints
  <2> QED
    BY <2>1, <2>2 DEF FSM!Next
<1>2. ASSUME Exec \/ Callback \/ Resume PROVE FSM!Next
  BY <1>2 DEF Exec, Callback, Resume, FSM!Next, FSM!Other
<1> QED
  BY <1>1, <1>2 DEF Next, vars, Announce, Subscribe, ReadStart, ReadGoal, Tick

\* path_sender, the topic and the referee use the planner as its model allows:
\* what ReplanFSMProofs proves of every planner holds of this one.
THEOREM PlannerImplemented == FSM!FSMAssumption /\ (Spec => FSM!Spec)
<1>1. Init => FSM!Init /\ LegsInv
  BY InitLegsInv DEF Init
<1>2. LegsInv /\ [Next]_vars => LegsInv'
  BY NextLegsInv
<1> QED
  BY <1>1, <1>2, PlannerAssumption, PlannerStep, PTL DEF Spec, FSM!Spec
=============================================================================
