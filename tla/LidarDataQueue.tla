--------------------------- MODULE LidarDataQueue ---------------------------
(* The ring queue of one lidar's packets (livox_ros_driver2/src/comm/ldq.cpp    *)
(* and ldq.h): two free-running unsigned counters, the slot of a counter being  *)
(* its low bits. One thread pushes and another pops, without a lock: a push     *)
(* writes its slot first and moves wr_idx afterwards, a pop copies its slot     *)
(* first and moves rd_idx afterwards (both counters are volatile).              *)
EXTENDS Integers, Sequences

CONSTANTS Lidar,      \* the lidars
          Packet,     \* the packets a frame may carry for a lidar
          Size,       \* slots of a queue (a power of two in the code)
          Laps,       \* laps of the slots until a counter wraps: 2^32 \div Size
          NoPacket,   \* a slot nothing was written to
          HalfPacket  \* a slot a push is writing to

ASSUME QueueAssumption == /\ Size \in Nat \ {0}
                          /\ Laps \in Nat \ {0, 1}
                          /\ NoPacket \notin Packet
                          /\ HalfPacket \notin Packet

VARIABLES storage_packet,  \* storage_packet[l] : the slots of l's queue
          wr_idx,          \* wr_idx[l] : counts the pushes, modulo Wrap
          rd_idx           \* rd_idx[l] : counts the pops, modulo Wrap

queueVars == <<storage_packet, wr_idx, rd_idx>>

(* The modulus of the counters, and what the code computes from an index. *)
Wrap == Size * Laps
Index == 0 .. Wrap - 1
Slots == 0 .. Size - 1
mask == Size - 1
SlotOf(idx) == idx % Size

(* The unsigned difference of two counters. *)
Used(w, r) == (w + Wrap - r) % Wrap

QueueUsedSize(l) == Used(wr_idx[l], rd_idx[l])

(* Mutant: one slot too many before the queue counts as full. *)
Mut_QueueIsFull(l) == QueueUsedSize(l) > mask + 1

QueueIsFull(l) == QueueUsedSize(l) > mask
QueueIsEmpty(l) == rd_idx[l] = wr_idx[l]

(* The packets in the queue, oldest first. *)
Content(l) == [j \in 1 .. QueueUsedSize(l) |->
                 storage_packet[l][SlotOf(rd_idx[l] + j - 1)]]

InitQueue == /\ storage_packet = [l \in Lidar |-> [s \in Slots |-> NoPacket]]
             /\ wr_idx = [l \in Lidar |-> 0]
             /\ rd_idx = [l \in Lidar |-> 0]

(* QueuePushAny up to wr_idx++: the slot of wr_idx is being written. *)
PushBegin(l) ==
    /\ storage_packet' = [storage_packet EXCEPT ![l][SlotOf(wr_idx[l])] = HalfPacket]
    /\ UNCHANGED <<wr_idx, rd_idx>>

(* The slot is complete, then wr_idx++ lets the reader see it. *)
PushEnd(l, p) ==
    /\ storage_packet' = [storage_packet EXCEPT ![l][SlotOf(wr_idx[l])] = p]
    /\ wr_idx' = [wr_idx EXCEPT ![l] = (@ + 1) % Wrap]
    /\ UNCHANGED rd_idx

(* QueuePrePop: what the reader's copy of the oldest slot holds. *)
QueuePrePop(l) == storage_packet[l][SlotOf(rd_idx[l])]

(* Mutant: a pop skips to the newest packet, as a reset of the queue would. *)
Mut_QueuePopUpdate(l) ==
    /\ rd_idx' = [rd_idx EXCEPT ![l] = wr_idx[l]]
    /\ UNCHANGED <<storage_packet, wr_idx>>

QueuePopUpdate(l) ==
    /\ rd_idx' = [rd_idx EXCEPT ![l] = (@ + 1) % Wrap]
    /\ UNCHANGED <<storage_packet, wr_idx>>
=============================================================================
