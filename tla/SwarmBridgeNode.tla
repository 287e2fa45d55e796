--------------------------- MODULE SwarmBridgeNode --------------------------
(***************************************************************************)
(* bridge_node_tcp: which peers each local topic is sent to and for which  *)
(* senders each node registers a bridge callback.  Devices are numbered    *)
(* drones first, then ground stations.                                     *)
(***************************************************************************)
EXTENDS Naturals

CONSTANTS DroneNum, GroundStationNum

Drones == 0..(DroneNum - 1)
GroundStations == DroneNum..(DroneNum + GroundStationNum - 1)
Devices == Drones \cup GroundStations

BridgeTopics == {"/odom", "/object_odom", "/traj_from_planner", "/joystick", "/goal"}

PeersOf(self) == Devices \ {self}

\* The sets of peers a local callback of node self sends topic t to.
RoutesOf(self, t) ==
  CASE t \in {"/odom", "/object_odom", "/traj_from_planner"} -> {PeersOf(self)} \ {{}}
    [] t = "/joystick" -> {Drones \ {self}} \ {{}}
    [] t = "/goal" -> {{p} : p \in PeersOf(self)}

\* The topics node p registers a callback for when they come from node self.
RegistersFrom(p, self) ==
  {"/traj_from_planner"} \cup IF self \in Drones THEN {"/odom", "/object_odom"}
                                                 ELSE {"/joystick", "/goal"}
=============================================================================
