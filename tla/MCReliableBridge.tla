-------------------------- MODULE MCReliableBridge --------------------------
(* A ground station (device 2) sending to two drones, or to one of them.   *)
EXTENDS ReliableBridge, SwarmBridgeNode

CONSTANT SelfId   \* the device whose bridge sends

MCPeers == PeersOf(SelfId)
MCRoutes == [t \in Topics |-> RoutesOf(SelfId, t)]
MCWanted == [p \in Peers |-> RegistersFrom(p, SelfId) \cap Topics]
=============================================================================
