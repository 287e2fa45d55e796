--------------------------- MODULE ReliableBridge ---------------------------
(***************************************************************************)
(* swarm_bridge: one node's ReliableBridge, sending to its Peers, and the  *)
(* receiving half of each peer's ReliableBridge for this node.             *)
(*                                                                         *)
(* Threads: the spinner of the sending node (bridge_node_tcp's local       *)
(* callbacks call send_msg_to_one for one peer after the other), one       *)
(* transport_msg_thread per peer, and on the peer one recv_thread and the  *)
(* main thread that registers callbacks after the constructor has already  *)
(* started the threads.  The critical sections of sender_mutex that touch  *)
(* the deque do so once and are one action each; the size() and empty()    *)
(* calls made without the lock are actions of their own.                   *)
(*                                                                         *)
(* The ZMQ PUSH/PULL pair is external: a bounded FIFO pipe; a broken       *)
(* connection loses a suffix of it, and the sockets reconnect.             *)
(***************************************************************************)
EXTENDS Naturals, Sequences

CONSTANTS
  Peers,      \* ids of the other devices (a set of numbers)
  Topics,     \* topic names
  Routes,     \* Routes[t]: the sets of peers a call for topic t may address
  Wanted,     \* Wanted[p]: the topics p registers a callback for
  QueueSize,  \* queue_size
  PipeDepth,  \* messages the two ZMQ sockets hold (external)
  MaxCalls,   \* bound: calls of the local callbacks
  MaxFaults   \* bound: broken connections and peer restarts

ASSUME BridgeAssumption ==
  /\ Peers \subseteq Nat
  /\ Topics # {}
  /\ Routes \in [Topics -> SUBSET ((SUBSET Peers) \ {{}})]
  /\ Wanted \in [Peers -> SUBSET Topics]
  /\ QueueSize \in Nat
  /\ PipeDepth \in Nat \ {0}
  /\ MaxCalls \in Nat
  /\ MaxFaults \in Nat

VARIABLES
  caller_pc,     \* where the spinner thread is in send_msg_to_one
  targets,       \* the peers its call has still to serve
  topic_name,    \* the topic of its call
  send_data,     \* send_data[p]: deque of messages for p
  sender_pc,     \* sender_pc[p]: where transport_msg_thread is
  thread_flag,   \* thread_flag of the sending node
  pipe,          \* pipe[p]: what the ZMQ sockets hold for p (external)
  linked,        \* linked[p]: TCP connection established (external)
  recv_array,    \* recv_array[p]: what recv_thread of p has unpacked, <<>> or one message
  callback_list, \* callback_list[p]: topics p has a callback for
  calls, faults, \* what the bounds count
  accepted,      \* history: accepted[p], number of messages pushed for p
  delivered,     \* history: delivered[p], messages handed to a callback of p
  lost           \* history: lost[p], numbers that will never reach a callback

callVars == <<caller_pc, targets, topic_name, calls>>
sendVars == <<callVars, send_data, sender_pc, thread_flag, accepted>>
linkVars == <<linked, faults>>
recvVars == <<recv_array, callback_list, delivered>>
vars == <<sendVars, pipe, linkVars, recvVars, lost>>

Message == [n : Nat, topic : Topics]
SenderPc == {"enter", "wait", "notified", "locked", "test", "send", "pop", "done"}
CallerPc == {"idle", "check", "push", "notify"}

Numbers(s) == {s[i].n : i \in 1..Len(s)}

\* Mutant: the lock is kept through the blocking send.
Mut_LockKeptWhileSending(p) == sender_pc[p] \in {"locked", "test", "send"}

\* transport_msg_thread owns sender_mutex from the return of wait() to unlock().
HoldsMutex(p) == sender_pc[p] = "locked"

\* id_list is walked in increasing order of the ids.
Target == CHOOSE p \in targets : \A q \in targets : p <= q

Init ==
  /\ caller_pc = "idle"
  /\ targets = {}
  /\ topic_name \in Topics
  /\ send_data = [p \in Peers |-> <<>>]
  /\ sender_pc = [p \in Peers |-> "enter"]
  /\ thread_flag = TRUE
  /\ pipe = [p \in Peers |-> <<>>]
  /\ linked = [p \in Peers |-> FALSE]
  /\ recv_array = [p \in Peers |-> <<>>]
  /\ callback_list = [p \in Peers |-> {}]
  /\ calls = 0
  /\ faults = 0
  /\ accepted = [p \in Peers |-> 0]
  /\ delivered = [p \in Peers |-> <<>>]
  /\ lost = [p \in Peers |-> {}]
-----------------------------------------------------------------------------
(* The spinner thread: a local callback addresses one peer or several.     *)

LocalCallback ==
  /\ caller_pc = "idle" /\ thread_flag
  /\ calls < MaxCalls
  /\ caller_pc' = "check"
  /\ topic_name' \in Topics
  /\ targets' \in Routes[topic_name']
  /\ calls' = calls + 1
  /\ UNCHANGED <<send_data, sender_pc, thread_flag, accepted, pipe, linkVars, recvVars, lost>>

\* Mutant: the loop over id_list goes one index too far.
Mut_OneTargetTooMany ==
  /\ targets' = targets \ {Target}
  /\ caller_pc' = IF targets = {} THEN "idle" ELSE "check"
  /\ UNCHANGED <<topic_name, calls>>

\* the loop of send_msg_to_all, over after one step for send_msg_to_one
NextTarget ==
  /\ targets' = targets \ {Target}
  /\ caller_pc' = IF targets' = {} THEN "idle" ELSE "check"
  /\ UNCHANGED <<topic_name, calls>>

\* Mutant: the size is not looked at.
Mut_NoSizeCheck ==
  /\ caller_pc = "check"
  /\ caller_pc' = "push"
  /\ UNCHANGED <<send_data, sender_pc, thread_flag, targets, topic_name, calls, accepted, pipe, linkVars, recvVars, lost>>

\* size() without the lock; a full queue returns -1 and the loop goes on.
CheckSize ==
  /\ caller_pc = "check"
  /\ IF Len(send_data[Target]) > QueueSize
       THEN NextTarget
       ELSE caller_pc' = "push" /\ UNCHANGED <<targets, topic_name, calls>>
  /\ UNCHANGED <<send_data, sender_pc, thread_flag, accepted, pipe, linkVars, recvVars, lost>>

Push ==
  /\ caller_pc = "push"
  /\ ~HoldsMutex(Target)
  /\ LET m == [n |-> accepted[Target] + 1, topic |-> topic_name]
     IN  send_data' = [send_data EXCEPT ![Target] = Append(@, m)]
  /\ accepted' = [accepted EXCEPT ![Target] = @ + 1]
  /\ caller_pc' = "notify"
  /\ UNCHANGED <<targets, topic_name, calls, sender_pc, thread_flag, pipe, linkVars, recvVars, lost>>

\* notify_all wakes the thread only when it is waiting: nothing is remembered.
Notify ==
  /\ caller_pc = "notify"
  /\ sender_pc' = [sender_pc EXCEPT ![Target] = IF @ = "wait" THEN "notified" ELSE @]
  /\ NextTarget
  /\ UNCHANGED <<send_data, thread_flag, accepted, pipe, linkVars, recvVars, lost>>

\* ros::spin has returned: the threads are told to end and cancelled. That the
\* senders are closed, and this node's own receiving threads cancelled, is left out:
\* what a closed sender would no longer do here it may do, and the receiving threads
\* of this node belong to the other direction.
StopThread ==
  /\ caller_pc = "idle" /\ thread_flag
  /\ thread_flag' = FALSE
  /\ UNCHANGED <<callVars, send_data, sender_pc, accepted, pipe, linkVars, recvVars, lost>>
-----------------------------------------------------------------------------
(* transport_msg_thread of peer p.                                         *)

SenderStep(p, from, to) ==
  /\ sender_pc[p] = from
  /\ sender_pc' = [sender_pc EXCEPT ![p] = to]

\* cond->wait(locker) has no predicate: the thread sleeps whatever the queue holds.
EnterWait(p) ==
  /\ SenderStep(p, "enter", IF thread_flag THEN "wait" ELSE "done")
  /\ UNCHANGED <<callVars, send_data, thread_flag, accepted, pipe, linkVars, recvVars, lost>>

SpuriousWakeup(p) ==
  /\ SenderStep(p, "wait", "notified")
  /\ UNCHANGED <<callVars, send_data, thread_flag, accepted, pipe, linkVars, recvVars, lost>>

\* wait() returns with the mutex, which is released "in time".
Relock(p) ==
  /\ SenderStep(p, "notified", "locked")
  /\ UNCHANGED <<callVars, send_data, thread_flag, accepted, pipe, linkVars, recvVars, lost>>

Unlock(p) ==
  /\ SenderStep(p, "locked", "test")
  /\ UNCHANGED <<callVars, send_data, thread_flag, accepted, pipe, linkVars, recvVars, lost>>

\* empty() and front() without the lock
TestBuffer(p) ==
  /\ SenderStep(p, "test", IF send_data[p] # <<>> /\ thread_flag THEN "send" ELSE "enter")
  /\ UNCHANGED <<callVars, send_data, thread_flag, accepted, pipe, linkVars, recvVars, lost>>

\* Mutant: a non-blocking send whose result is not looked at.
Mut_SendIgnoringResult(p) ==
  /\ SenderStep(p, "send", "pop")
  /\ pipe' = IF linked[p] /\ Len(pipe[p]) < PipeDepth
               THEN [pipe EXCEPT ![p] = Append(@, Head(send_data[p]))] ELSE pipe
  /\ UNCHANGED <<callVars, send_data, thread_flag, accepted, linkVars, recvVars, lost>>

\* send(..., false) blocks until the socket has a peer and room.
SendFront(p) ==
  /\ SenderStep(p, "send", "pop")
  /\ linked[p] /\ Len(pipe[p]) < PipeDepth
  /\ pipe' = [pipe EXCEPT ![p] = Append(@, Head(send_data[p]))]
  /\ UNCHANGED <<callVars, send_data, thread_flag, accepted, linkVars, recvVars, lost>>

\* Mutant: pop_back.
Mut_PopBack(p) ==
  /\ SenderStep(p, "pop", "test")
  /\ send_data' = [send_data EXCEPT ![p] = SubSeq(@, 1, Len(@) - 1)]
  /\ UNCHANGED <<callVars, thread_flag, accepted, pipe, linkVars, recvVars, lost>>

\* Mutant: one message per wakeup.
Mut_PopAndSleep(p) ==
  /\ SenderStep(p, "pop", "enter")
  /\ send_data' = [send_data EXCEPT ![p] = Tail(@)]
  /\ UNCHANGED <<callVars, thread_flag, accepted, pipe, linkVars, recvVars, lost>>

PopFront(p) ==
  /\ SenderStep(p, "pop", "test")
  /\ send_data' = [send_data EXCEPT ![p] = Tail(@)]
  /\ UNCHANGED <<callVars, thread_flag, accepted, pipe, linkVars, recvVars, lost>>

\* pthread_cancel takes effect where the thread blocks.
SenderCancelled(p) ==
  /\ ~thread_flag
  /\ SenderStep(p, "wait", "done") \/ SenderStep(p, "send", "done")
  /\ UNCHANGED <<callVars, send_data, thread_flag, accepted, pipe, linkVars, recvVars, lost>>
-----------------------------------------------------------------------------
(* The peer: recv_thread and the main thread that registers callbacks.     *)

Receive(p) ==
  /\ recv_array[p] = <<>>
  /\ pipe[p] # <<>>
  /\ recv_array' = [recv_array EXCEPT ![p] = <<Head(pipe[p])>>]
  /\ pipe' = [pipe EXCEPT ![p] = Tail(@)]
  /\ UNCHANGED <<sendVars, linkVars, callback_list, delivered, lost>>

\* A message whose topic has no callback yet is dropped.
Dispatch(p) ==
  /\ recv_array[p] # <<>>
  /\ LET m == Head(recv_array[p])
     IN  IF m.topic \in callback_list[p]
           THEN /\ delivered' = [delivered EXCEPT ![p] = Append(@, m)]
                /\ UNCHANGED lost
           ELSE /\ lost' = [lost EXCEPT ![p] = @ \cup {m.n}]
                /\ UNCHANGED delivered
  /\ recv_array' = [recv_array EXCEPT ![p] = <<>>]
  /\ UNCHANGED <<sendVars, pipe, linkVars, callback_list>>

register_callback(p) ==
  /\ \E t \in Wanted[p] \ callback_list[p] :
       callback_list' = [callback_list EXCEPT ![p] = @ \cup {t}]
  /\ UNCHANGED <<sendVars, pipe, linkVars, recv_array, delivered, lost>>
-----------------------------------------------------------------------------
(* The environment: connections come and go, a peer's process restarts.    *)

LinkUp(p) ==
  /\ ~linked[p]
  /\ linked' = [linked EXCEPT ![p] = TRUE]
  /\ UNCHANGED <<sendVars, pipe, faults, recvVars, lost>>

\* What had not reached the peer's socket is lost.
LinkDown(p) ==
  /\ linked[p]
  /\ faults < MaxFaults
  /\ faults' = faults + 1
  /\ linked' = [linked EXCEPT ![p] = FALSE]
  /\ \E k \in 0..Len(pipe[p]) :
       /\ pipe' = [pipe EXCEPT ![p] = SubSeq(@, 1, k)]
       /\ lost' = [lost EXCEPT ![p] = @ \cup (Numbers(pipe[p]) \ Numbers(SubSeq(pipe[p], 1, k)))]
  /\ UNCHANGED <<sendVars, recvVars>>

\* The new process has an empty callback table; the old one's messages are gone.
PeerRestart(p) ==
  /\ faults < MaxFaults
  /\ faults' = faults + 1
  /\ linked' = [linked EXCEPT ![p] = FALSE]
  /\ pipe' = [pipe EXCEPT ![p] = <<>>]
  /\ lost' = [lost EXCEPT ![p] = @ \cup Numbers(pipe[p]) \cup Numbers(recv_array[p])]
  /\ recv_array' = [recv_array EXCEPT ![p] = <<>>]
  /\ callback_list' = [callback_list EXCEPT ![p] = {}]
  /\ UNCHANGED <<sendVars, delivered>>
-----------------------------------------------------------------------------
Caller == CheckSize \/ Push \/ Notify
Sender(p) == \/ EnterWait(p) \/ Relock(p) \/ Unlock(p) \/ TestBuffer(p)
             \/ SendFront(p) \/ PopFront(p) \/ SenderCancelled(p)
Peer(p) == Receive(p) \/ Dispatch(p) \/ register_callback(p)

Next ==
  \/ LocalCallback \/ StopThread \/ Caller
  \/ \E p \in Peers : \/ Sender(p) \/ SpuriousWakeup(p)
                      \/ Peer(p)
                      \/ LinkUp(p) \/ LinkDown(p) \/ PeerRestart(p)

Spec == Init /\ [][Next]_vars

(***************************************************************************)
(* Threads that can run do run, and a thread that waits for a mutex that   *)
(* is released again and again gets it (SF of Push).  Nothing obliges the  *)
(* local callbacks to be called again, a wakeup to be spurious, a peer to  *)
(* become reachable or the node to be stopped.                             *)
(***************************************************************************)
Fairness ==
  /\ WF_vars(Caller) /\ SF_vars(Push)
  /\ \A p \in Peers : /\ WF_vars(Sender(p))
                      /\ WF_vars(Receive(p) \/ Dispatch(p))
                      /\ WF_vars(register_callback(p))

FairSpec == Spec /\ Fairness
-----------------------------------------------------------------------------
\* Types of the bridge's state.
TypeOK ==
  /\ caller_pc \in CallerPc
  /\ targets \in SUBSET Peers
  /\ caller_pc # "idle" => targets # {}
  /\ topic_name \in Topics
  /\ send_data \in [Peers -> Seq(Message)]
  /\ sender_pc \in [Peers -> SenderPc]
  /\ thread_flag \in BOOLEAN
  /\ pipe \in [Peers -> Seq(Message)]
  /\ linked \in [Peers -> BOOLEAN]
  /\ recv_array \in [Peers -> Seq(Message)]
  /\ callback_list \in [Peers -> SUBSET Topics]
  /\ calls \in Nat /\ faults \in Nat
  /\ accepted \in [Peers -> Nat]
  /\ delivered \in [Peers -> Seq(Message)]
  /\ lost \in [Peers -> SUBSET Nat]

\* send_data without the message that is sent but not yet popped
Unsent(p) == IF sender_pc[p] = "pop" THEN Tail(send_data[p]) ELSE send_data[p]

(***************************************************************************)
(* Every accepted message is in exactly one place: still to be sent, in    *)
(* the sockets, in the hands of recv_thread, delivered once, or lost to a  *)
(* fault or a missing callback.  front(), send() and pop_front() are three *)
(* steps of which only the last takes the lock.                            *)
(***************************************************************************)
EachMessageInOnePlace ==
  \A p \in Peers :
    LET places == <<Numbers(Unsent(p)), Numbers(pipe[p]), Numbers(recv_array[p]),
                    Numbers(delivered[p]), lost[p]>>
    IN  /\ UNION {places[i] : i \in 1..5} = 1..accepted[p]
        /\ \A i, j \in 1..5 : i # j => places[i] \cap places[j] = {}

(***************************************************************************)
(* "It can guarantee the data transfer to the device in the strict order": *)
(* callbacks of one peer see the messages in the order of the calls, none  *)
(* twice, across reconnections and restarts of the peer.                   *)
(***************************************************************************)
StrictOrder ==
  \A p \in Peers : \A i, j \in 1..Len(delivered[p]) :
    i < j => delivered[p][i].n < delivered[p][j].n

(***************************************************************************)
(* A claim of the documentation: queue_size is the "max send message queue *)
(* for one device", and send_msg_to_one returns "-1 for queue is full".    *)
(* The code compares with > and so lets one more message in.               *)
(***************************************************************************)
QueueBounded == \A p \in Peers : Len(send_data[p]) <= QueueSize

(***************************************************************************)
(* What holds instead: one message more than queue_size and never a second *)
(* one, although the size is read without sender_mutex and the push takes  *)
(* the lock later, when the sending thread may have popped in between.     *)
(***************************************************************************)
OverrunByOne == \A p \in Peers : Len(send_data[p]) <= QueueSize + 1

(***************************************************************************)
(* Once awake, the sending thread of a reachable peer does not go back to  *)
(* sleep over messages it can see, whatever happens to the other peers.    *)
(***************************************************************************)
DrainsOnceAwake ==
  \A p \in Peers :
    <>[](linked[p] /\ thread_flag) =>
      (sender_pc[p] \in {"notified", "test"} ~> send_data[p] = <<>>)

(***************************************************************************)
(* send_msg_to_one is asynchronous: a local callback always returns, even  *)
(* when a peer is unreachable and its sending thread blocks in send().     *)
(***************************************************************************)
CallerReturns == caller_pc # "idle" ~> caller_pc = "idle"

(***************************************************************************)
(* A claim of the documentation: send_msg_to_one "will push the data in    *)
(* queue and the send thread will send the data immediately".  Stated      *)
(* weakly: with a reachable peer, what is queued is eventually sent.       *)
(***************************************************************************)
QueuedIsSent ==
  \A p \in Peers :
    <>[](linked[p] /\ thread_flag) => (send_data[p] # <<>> ~> send_data[p] = <<>>)

\* The bridge implements an ordered channel to every peer.
DeliveredNumbers(p) == [i \in 1..Len(delivered[p]) |-> delivered[p][i].n]
Channel == INSTANCE OrderedChannel
             WITH sent <- accepted, got <- [p \in Peers |-> DeliveredNumbers(p)]
ImplementsOrderedChannel == Channel!Spec
=============================================================================
