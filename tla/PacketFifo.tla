----------------------------- MODULE PacketFifo -----------------------------
(* What the ring queues of the Livox driver promise (comm/ldq.cpp, comm/ldq.h): *)
(* one first-in first-out queue per lidar with room for Size packets, whatever  *)
(* the lap of its two counters and however its two threads interleave.          *)
(* LivoxDriver implements this specification (its property QueuesAreFifos).     *)
EXTENDS Integers, Sequences

CONSTANTS Lidar, Packet, Size, NoPacket

VARIABLES stored,       \* the packets each lidar's queue holds, oldest first
          published     \* the packet each lidar published last

vars == <<stored, published>>

Init == /\ stored = [l \in Lidar |-> <<>>]
        /\ published = [l \in Lidar |-> NoPacket]

(* A packet enters a queue that has room. *)
Store(l, p) == /\ Len(stored[l]) < Size
               /\ stored' = [stored EXCEPT ![l] = Append(@, p)]
               /\ UNCHANGED published

(* The oldest packet leaves the queue and is published. *)
Publish(l) == /\ stored[l] # <<>>
              /\ published' = [published EXCEPT ![l] = Head(stored[l])]
              /\ stored' = [stored EXCEPT ![l] = Tail(@)]

Next == \E l \in Lidar : \/ \E p \in Packet : Store(l, p)
                         \/ Publish(l)

Spec == Init /\ [][Next]_vars
=============================================================================
