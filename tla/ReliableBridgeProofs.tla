------------------------ MODULE ReliableBridgeProofs ------------------------
(***************************************************************************)
(* Theorems about ReliableBridge, for every set of peers, every routing    *)
(* table, every queue and pipe size and any number of calls and faults:    *)
(* its type invariant, the bound of the queue, strict order, that it       *)
(* implements the ordered channel, and that no message is in two places.   *)
(***************************************************************************)
EXTENDS ReliableBridge, WellFoundedInduction, SequenceTheorems, TLAPS

\* A call that is going on has a next peer.
LEMMA TargetExists ==
  ASSUME NEW S \in SUBSET Nat, S # {}
  PROVE  \E p \in S : \A q \in S : p <= q
<1>1. PICK p \in S : \A q \in S : ~ (<<q, p>> \in OpToRel(<, Nat))
  BY NatLessThanWellFounded, WFMin, Zenon
<1>2. \A q \in S : ~ (q < p)
  BY <1>1 DEF OpToRel
<1> QED BY <1>2

LEMMA TargetType ==
  ASSUME TypeOK, caller_pc # "idle"
  PROVE  Target \in targets /\ Target \in Peers
<1>1. targets \in SUBSET Nat /\ targets # {}
  BY BridgeAssumption DEF TypeOK
<1>2. \E p \in targets : \A q \in targets : p <= q
  BY <1>1, TargetExists
<1>3. Target \in targets
  BY <1>2 DEF Target
<1> QED BY <1>3 DEF TypeOK

-----------------------------------------------------------------------------
(* TypeOK is inductive with one addition: the sending thread holds a front *)
(* element only of a deque that has one.                                   *)

FrontExists == \A p \in Peers : sender_pc[p] \in {"send", "pop"} => send_data[p] # <<>>

TypeInv == TypeOK /\ FrontExists

LEMMA NumbersType == ASSUME NEW s \in Seq(Message) PROVE Numbers(s) \subseteq Nat
<1>1. \A i \in 1..Len(s) : s[i] \in Message
  BY ElementOfSeq
<1>2. \A m \in Message : m.n \in Nat
  BY DEF Message
<1> QED BY <1>1, <1>2 DEF Numbers

LEMMA TypeInvInit == Init => TypeInv
<1> SUFFICES ASSUME Init PROVE TypeInv
  OBVIOUS
<1>1. TypeOK
  BY BridgeAssumption DEF Init, TypeOK, CallerPc, SenderPc
<1>2. FrontExists
  BY DEF Init, FrontExists
<1> QED BY <1>1, <1>2 DEF TypeInv

LEMMA TypeInvNext == TypeInv /\ [Next]_vars => TypeInv'
<1> SUFFICES ASSUME TypeInv, [Next]_vars PROVE TypeInv'
  OBVIOUS
<1> USE DEF TypeInv, TypeOK, FrontExists, linkVars, recvVars, sendVars, callVars
<1>1. CASE LocalCallback
  BY <1>1, BridgeAssumption DEF LocalCallback, CallerPc
<1>2. CASE StopThread
  BY <1>2 DEF StopThread
<1>3. CASE CheckSize
  BY <1>3, TargetType DEF CheckSize, NextTarget, CallerPc
<1>4. CASE Push
  <2>1. Target \in Peers
    BY <1>4, TargetType DEF Push
  <2> DEFINE m == [n |-> accepted[Target] + 1, topic |-> topic_name]
  <2>2. m \in Message
    BY <2>1 DEF Message
  <2>3. send_data' = [send_data EXCEPT ![Target] = Append(@, m)]
    BY <1>4 DEF Push
  <2> HIDE DEF m
  <2>5. Append(send_data[Target], m) \in Seq(Message) /\ Append(send_data[Target], m) # <<>>
    <3>1. send_data[Target] \in Seq(Message)
      BY <2>1
    <3> HIDE DEF TypeInv, TypeOK
    <3> QED BY <2>2, <3>1, AppendProperties
  <2>4. accepted' \in [Peers -> Nat]
    BY <1>4, <2>1 DEF Push
  <2>6. send_data' \in [Peers -> Seq(Message)] /\ send_data'[Target] # <<>>
        /\ \A p \in Peers : p # Target => send_data'[p] = send_data[p]
    BY <2>1, <2>3, <2>5
  <2> QED BY <1>4, <2>4, <2>6 DEF Push, CallerPc
<1>5. CASE Notify
  BY <1>5, TargetType DEF Notify, NextTarget, CallerPc, SenderPc
<1>6. ASSUME NEW p \in Peers, Sender(p) \/ SpuriousWakeup(p)
      PROVE  TypeInv'
  <2>1. CASE EnterWait(p) \/ Relock(p) \/ Unlock(p) \/ SpuriousWakeup(p) \/ SenderCancelled(p)
    BY <2>1 DEF SpuriousWakeup, EnterWait, Relock, Unlock, SenderCancelled, SenderStep, SenderPc
  <2>2. CASE TestBuffer(p)
    BY <2>2 DEF TestBuffer, SenderStep, SenderPc
  <2>3. CASE SendFront(p)
    BY <2>3 DEF SendFront, SenderStep, SenderPc
  <2>4. CASE PopFront(p)
    BY <2>4 DEF PopFront, SenderStep, SenderPc
  <2> QED BY <1>6, <2>1, <2>2, <2>3, <2>4 DEF Sender
<1>7. ASSUME NEW p \in Peers, Peer(p)
      PROVE  TypeInv'
  <2>1. CASE Receive(p)
    <3>1. Head(pipe[p]) \in Message /\ Tail(pipe[p]) \in Seq(Message)
      BY <2>1, HeadTailProperties DEF Receive
    <3>2. <<Head(pipe[p])>> \in Seq(Message)
      BY <3>1
    <3> QED BY <2>1, <3>1, <3>2 DEF Receive
  <2>2. CASE Dispatch(p)
    <3>1. Head(recv_array[p]) \in Message
      BY <2>2, HeadTailProperties DEF Dispatch
    <3>2. Append(delivered[p], Head(recv_array[p])) \in Seq(Message) /\ <<>> \in Seq(Message)
      BY <3>1
    <3>3. lost[p] \cup {Head(recv_array[p]).n} \in SUBSET Nat
      BY <3>1 DEF Message
    <3>4. delivered' \in [Peers -> Seq(Message)] /\ lost' \in [Peers -> SUBSET Nat]
      BY <2>2, <3>2, <3>3 DEF Dispatch
    <3> QED BY <2>2, <3>2, <3>4 DEF Dispatch
  <2>3. CASE register_callback(p)
    <3>1. callback_list' \in [Peers -> SUBSET Topics]
      <4>1. PICK t \in Wanted[p] : callback_list' = [callback_list EXCEPT ![p] = @ \cup {t}]
        BY <2>3 DEF register_callback
      <4>2. t \in Topics
        BY BridgeAssumption
      <4> QED BY <4>1, <4>2
    <3> QED BY <2>3, <3>1 DEF register_callback
  <2> QED BY <1>7, <2>1, <2>2, <2>3 DEF Peer
<1>8. ASSUME NEW p \in Peers, LinkUp(p) \/ LinkDown(p) \/ PeerRestart(p)
      PROVE  TypeInv'
  <2>1. CASE LinkUp(p)
    BY <2>1 DEF LinkUp
  <2>2. CASE LinkDown(p)
    BY <2>2, NumbersType DEF LinkDown
  <2>3. CASE PeerRestart(p)
    BY <2>3, NumbersType DEF PeerRestart
  <2> QED BY <1>8, <2>1, <2>2, <2>3
<1>9. CASE UNCHANGED vars
  BY <1>9 DEF vars
<1> QED BY <1>1, <1>2, <1>3, <1>4, <1>5, <1>6, <1>7, <1>8, <1>9 DEF Next, Caller

\* The bridge's variables always have their types.
THEOREM TypeCorrect == Spec => []TypeOK
<1>1. TypeInv => TypeOK
  BY DEF TypeInv
<1> QED BY TypeInvInit, TypeInvNext, <1>1, PTL DEF Spec

-----------------------------------------------------------------------------
(* Strict order.  StrictOrder alone is not inductive: what is delivered    *)
(* next comes from recv_thread's hands, the pipe and the queue, so the     *)
(* invariant orders all four by message number.                            *)

Increasing(s) == \A i, j \in 1..Len(s) : i < j => s[i].n < s[j].n
Before(s, t) == \A i \in 1..Len(s), j \in 1..Len(t) : s[i].n < t[j].n
UpTo(s, k) == \A i \in 1..Len(s) : s[i].n \in 1..k

\* The number of the last message given to the socket of p.
Sent(p) == accepted[p] - Len(send_data[p]) + IF sender_pc[p] = "pop" THEN 1 ELSE 0

\* The queue holds the latest accepted messages.
QueueNumbered(p) ==
  /\ Len(send_data[p]) <= accepted[p]
  /\ \A i \in 1..Len(send_data[p]) : send_data[p][i].n = accepted[p] - Len(send_data[p]) + i

Line(p) ==
  /\ Increasing(delivered[p]) /\ Increasing(recv_array[p]) /\ Increasing(pipe[p])
  /\ Before(delivered[p], recv_array[p])
  /\ Before(delivered[p], pipe[p])
  /\ Before(recv_array[p], pipe[p])
  /\ UpTo(delivered[p], Sent(p)) /\ UpTo(recv_array[p], Sent(p)) /\ UpTo(pipe[p], Sent(p))

OrderInv == \A p \in Peers : QueueNumbered(p) /\ Line(p)

LEMMA EmptyFacts ==
  ASSUME NEW s, NEW k
  PROVE  Increasing(<<>>) /\ Before(<<>>, s) /\ Before(s, <<>>) /\ UpTo(<<>>, k)
BY DEF Increasing, Before, UpTo

LEMMA HeadTailFacts ==
  ASSUME NEW s \in Seq(Message), s # <<>>, NEW t, NEW k
  PROVE  /\ Increasing(<<Head(s)>>)
         /\ Increasing(s) => Increasing(Tail(s)) /\ Before(<<Head(s)>>, Tail(s))
         /\ Before(t, s) => Before(t, Tail(s)) /\ Before(t, <<Head(s)>>)
         /\ Before(s, t) => Before(Tail(s), t) /\ Before(<<Head(s)>>, t)
         /\ UpTo(s, k) => UpTo(Tail(s), k) /\ UpTo(<<Head(s)>>, k)
<1>1. /\ Len(Tail(s)) = Len(s) - 1 /\ Len(s) \in Nat \ {0}
      /\ \A i \in 1..Len(Tail(s)) : Tail(s)[i] = s[i + 1] /\ i + 1 \in 1..Len(s)
  BY HeadTailProperties, LenProperties, EmptySeq
<1>2. Len(<<Head(s)>>) = 1 /\ <<Head(s)>>[1] = s[1] /\ 1 \in 1..Len(s)
  BY <1>1
<1>3. \A i, j \in 1..1 : ~ (i < j)
  OBVIOUS
<1> QED BY <1>1, <1>2, <1>3 DEF Increasing, Before, UpTo

LEMMA AppendFacts ==
  ASSUME NEW s \in Seq(Message), NEW m \in Message, NEW k \in Nat
  PROVE  /\ Increasing(s) /\ Before(s, <<m>>) => Increasing(Append(s, m))
         /\ \A t : Before(t, s) /\ Before(t, <<m>>) => Before(t, Append(s, m))
         /\ \A t : Before(s, t) /\ Before(<<m>>, t) => Before(Append(s, m), t)
         /\ UpTo(s, k) /\ m.n \in 1..k => UpTo(Append(s, m), k)
<1>1. /\ Len(s) \in Nat /\ Len(Append(s, m)) = Len(s) + 1
      /\ \A i \in 1..Len(s) : Append(s, m)[i] = s[i]
      /\ Append(s, m)[Len(s) + 1] = m
  BY AppendProperties, LenProperties
<1>2. Len(<<m>>) = 1 /\ <<m>>[1] = m
  OBVIOUS
<1>3. \A i \in 1..(Len(s) + 1) : i \in 1..Len(s) \/ i = Len(s) + 1
  BY <1>1
<1> QED BY <1>1, <1>2, <1>3 DEF Increasing, Before, UpTo

LEMMA PrefixFacts ==
  ASSUME NEW s \in Seq(Message), NEW k \in 0..Len(s), NEW t, NEW b
  PROVE  /\ Increasing(s) => Increasing(SubSeq(s, 1, k))
         /\ Before(t, s) => Before(t, SubSeq(s, 1, k))
         /\ UpTo(s, b) => UpTo(SubSeq(s, 1, k), b)
<1>1. \A i \in 1..k : s[i] \in Message /\ i \in 1..Len(s)
  BY ElementOfSeq, LenProperties
<1>2. /\ Len(SubSeq(s, 1, k)) = k
      /\ \A i \in 1..k : SubSeq(s, 1, k)[i] = s[i]
  BY <1>1, SubSeqProperties, LenProperties
<1> QED BY <1>1, <1>2 DEF Increasing, Before, UpTo

\* What OrderInv says of p depends on five components.
LineVars(p) == <<accepted[p], send_data[p], Sent(p), pipe[p], recv_array[p], delivered[p]>>

LEMMA LineFrame ==
  ASSUME NEW p \in Peers, QueueNumbered(p), Line(p), LineVars(p)' = LineVars(p)
  PROVE  (QueueNumbered(p) /\ Line(p))'
<1>1. /\ accepted'[p] = accepted[p] /\ send_data'[p] = send_data[p] /\ Sent(p)' = Sent(p)
      /\ pipe'[p] = pipe[p] /\ recv_array'[p] = recv_array[p] /\ delivered'[p] = delivered[p]
  BY DEF LineVars
<1>2. QueueNumbered(p)'
  BY <1>1 DEF QueueNumbered
<1>3. Line(p)'
  BY <1>1 DEF Line, Increasing, Before, UpTo
<1> QED BY <1>2, <1>3

LEMMA SentType ==
  ASSUME TypeOK, NEW p \in Peers, QueueNumbered(p), FrontExists
  PROVE  Sent(p) \in Nat /\ Len(send_data[p]) \in Nat /\ accepted[p] \in Nat
<1>1. send_data[p] \in Seq(Message) /\ accepted[p] \in Nat
  BY DEF TypeOK
<1>2. Len(send_data[p]) \in Nat
  BY <1>1, LenProperties
<1> QED BY <1>1, <1>2 DEF Sent, QueueNumbered

LEMMA OrderInvInit == Init => OrderInv
<1> SUFFICES ASSUME Init, NEW p \in Peers PROVE QueueNumbered(p) /\ Line(p)
  BY DEF OrderInv
<1>1. /\ send_data[p] = <<>> /\ accepted[p] = 0 /\ pipe[p] = <<>>
      /\ recv_array[p] = <<>> /\ delivered[p] = <<>>
  BY DEF Init
<1> QED BY <1>1, EmptyFacts DEF QueueNumbered, Line

LEMMA OrderInvNext == TypeInv /\ OrderInv /\ [Next]_vars => OrderInv'
<1> SUFFICES ASSUME TypeInv, OrderInv, [Next]_vars, NEW q \in Peers
             PROVE  (QueueNumbered(q) /\ Line(q))'
  BY DEF OrderInv
<1>t. TypeOK /\ FrontExists /\ QueueNumbered(q) /\ Line(q)
  BY DEF TypeInv, OrderInv
<1>s. Sent(q) \in Nat /\ Len(send_data[q]) \in Nat /\ accepted[q] \in Nat
  BY <1>t, SentType
<1>f. ASSUME LineVars(q)' = LineVars(q) PROVE (QueueNumbered(q) /\ Line(q))'
  BY <1>t, <1>f, LineFrame
<1>1. CASE \/ LocalCallback \/ StopThread \/ CheckSize \/ UNCHANGED vars
           \/ \E p \in Peers : register_callback(p) \/ LinkUp(p)
  BY <1>1, <1>f DEF LocalCallback, StopThread, CheckSize, register_callback, LinkUp, vars,
     sendVars, linkVars, recvVars, callVars, LineVars, Sent
<1>2. CASE Notify
  <2>1. sender_pc'[q] = "pop" <=> sender_pc[q] = "pop"
    BY <1>2, <1>t, TargetType DEF Notify, TypeOK
  <2> QED BY <1>2, <1>f, <2>1 DEF Notify, linkVars, recvVars, LineVars, Sent
<1>3. CASE Push
  <2>1. Target \in Peers
    BY <1>3, <1>t, TargetType DEF Push
  <2>2. CASE q # Target
    BY <1>3, <1>t, <1>f, <2>1, <2>2 DEF Push, TypeOK, LineVars, Sent, linkVars, recvVars
  <2>3. CASE q = Target
    <3> DEFINE m == [n |-> accepted[q] + 1, topic |-> topic_name]
    <3>1. m \in Message /\ m.n = accepted[q] + 1
      BY <1>t, <1>s DEF Message, TypeOK
    <3>2. send_data'[q] = Append(send_data[q], m) /\ accepted'[q] = accepted[q] + 1
      BY <1>3, <1>t, <2>3 DEF Push, TypeOK
    <3> HIDE DEF m
    <3>3. send_data[q] \in Seq(Message)
      BY <1>t DEF TypeOK
    <3>4. /\ Len(send_data'[q]) = Len(send_data[q]) + 1
          /\ \A i \in 1..Len(send_data[q]) : send_data'[q][i] = send_data[q][i]
          /\ send_data'[q][Len(send_data[q]) + 1] = m
      BY <3>1, <3>2, <3>3, AppendProperties
    <3>5. QueueNumbered(q)'
      BY <1>t, <1>s, <3>1, <3>2, <3>4 DEF QueueNumbered
    <3>6. Sent(q)' = Sent(q) /\ pipe' = pipe /\ recv_array' = recv_array /\ delivered' = delivered
      <4>1. UNCHANGED <<sender_pc, pipe, recv_array, delivered>>
        BY <1>3 DEF Push, recvVars
      <4>2. Sent(q)' = Sent(q)
        BY <1>s, <3>2, <3>4, <4>1 DEF Sent
      <4> QED BY <4>1, <4>2
    <3>7. Line(q)'
      BY <1>t, <3>6 DEF Line, Increasing, Before, UpTo
    <3> QED BY <3>5, <3>7
  <2> QED BY <2>2, <2>3
<1>4. ASSUME NEW p \in Peers,
             \/ EnterWait(p) \/ SpuriousWakeup(p) \/ Relock(p) \/ Unlock(p)
             \/ TestBuffer(p) \/ SenderCancelled(p)
      PROVE  (QueueNumbered(q) /\ Line(q))'
  <2>1. (sender_pc'[q] = "pop") <=> (sender_pc[q] = "pop")
    BY <1>4, <1>t DEF EnterWait, SpuriousWakeup, Relock, Unlock, TestBuffer, SenderCancelled,
       SenderStep, TypeOK
  <2>2. UNCHANGED <<send_data, accepted, pipe, recvVars>>
    BY <1>4 DEF EnterWait, SpuriousWakeup, Relock, Unlock, TestBuffer, SenderCancelled
  <2> QED BY <1>f, <2>1, <2>2 DEF LineVars, Sent, recvVars
<1>5. ASSUME NEW p \in Peers, SendFront(p)
      PROVE  (QueueNumbered(q) /\ Line(q))'
  <2>1. CASE q # p
    BY <1>5, <1>t, <1>f, <2>1 DEF SendFront, SenderStep, TypeOK, LineVars, Sent, recvVars
  <2>2. CASE q = p
    <3> DEFINE m == Head(send_data[q])
    <3>1. send_data[q] \in Seq(Message) /\ send_data[q] # <<>> /\ pipe[q] \in Seq(Message)
      BY <1>5, <1>t, <2>2 DEF SendFront, SenderStep, FrontExists, TypeOK
    <3>2. m \in Message /\ m = send_data[q][1] /\ 1 \in 1..Len(send_data[q])
      BY <3>1, HeadTailProperties, LenProperties, EmptySeq
    <3>3. /\ pipe'[q] = Append(pipe[q], m)
          /\ UNCHANGED <<send_data, accepted, recv_array, delivered>>
          /\ sender_pc[q] = "send" /\ sender_pc'[q] = "pop"
      BY <1>5, <1>t, <2>2 DEF SendFront, SenderStep, TypeOK, recvVars
    <3> HIDE DEF m
    <3>4. m.n = Sent(q) + 1 /\ Sent(q)' = Sent(q) + 1
      BY <1>t, <1>s, <3>2, <3>3 DEF Sent, QueueNumbered
    <3>5. QueueNumbered(q)'
      BY <1>t, <3>3 DEF QueueNumbered
    <3>6. \A s : UpTo(s, Sent(q)) => Before(s, <<m>>) /\ UpTo(s, Sent(q) + 1)
      BY <1>s, <3>4 DEF UpTo, Before
    <3>7. m.n \in 1..(Sent(q) + 1) /\ Sent(q) + 1 \in Nat
      BY <1>s, <3>4
    <3>8. Line(q)'
      BY <1>t, <3>1, <3>2, <3>3, <3>4, <3>6, <3>7, AppendFacts DEF Line
    <3> QED BY <3>5, <3>8
  <2> QED BY <2>1, <2>2
<1>6. ASSUME NEW p \in Peers, PopFront(p)
      PROVE  (QueueNumbered(q) /\ Line(q))'
  <2>1. CASE q # p
    BY <1>6, <1>t, <1>f, <2>1 DEF PopFront, SenderStep, TypeOK, LineVars, Sent, recvVars
  <2>2. CASE q = p
    <3>1. send_data[q] \in Seq(Message) /\ send_data[q] # <<>>
      BY <1>6, <1>t, <2>2 DEF PopFront, SenderStep, FrontExists, TypeOK
    <3>2. /\ send_data'[q] = Tail(send_data[q])
          /\ UNCHANGED <<accepted, pipe, recv_array, delivered>>
          /\ sender_pc[q] = "pop" /\ sender_pc'[q] = "test"
      BY <1>6, <1>t, <2>2 DEF PopFront, SenderStep, TypeOK, recvVars
    <3>3. /\ Len(send_data'[q]) = Len(send_data[q]) - 1
          /\ Len(send_data[q]) \in Nat \ {0}
          /\ \A i \in 1..Len(send_data'[q]) : send_data'[q][i] = send_data[q][i + 1]
      BY <3>1, <3>2, HeadTailProperties, EmptySeq
    <3>7. \A i \in 1..Len(send_data'[q]) : i + 1 \in 1..Len(send_data[q])
      BY <3>3
    <3>4. QueueNumbered(q)'
      BY <1>t, <1>s, <3>2, <3>3, <3>7 DEF QueueNumbered
    <3>5. Sent(q)' = Sent(q)
      BY <1>s, <3>2, <3>3 DEF Sent
    <3>6. Line(q)'
      BY <1>t, <3>2, <3>5 DEF Line, Increasing, Before, UpTo
    <3> QED BY <3>4, <3>6
  <2> QED BY <2>1, <2>2
<1>7. ASSUME NEW p \in Peers, Receive(p) \/ Dispatch(p) \/ LinkDown(p) \/ PeerRestart(p)
      PROVE  (QueueNumbered(q) /\ Line(q))'
  <2>1. CASE q # p
    <3>1. UNCHANGED <<accepted, send_data, sender_pc>>
      BY <1>7 DEF Receive, Dispatch, LinkDown, PeerRestart, sendVars
    <3>2. pipe'[q] = pipe[q] /\ recv_array'[q] = recv_array[q] /\ delivered'[q] = delivered[q]
      BY <1>7, <1>t, <2>1 DEF Receive, Dispatch, LinkDown, PeerRestart, TypeOK, recvVars
    <3> QED BY <1>f, <3>1, <3>2 DEF LineVars, Sent
  <2>2. CASE q = p
    <3>1. QueueNumbered(q)' /\ Sent(q)' = Sent(q)
      BY <1>7, <1>t DEF Receive, Dispatch, LinkDown, PeerRestart, sendVars, QueueNumbered, Sent
    <3>2. pipe[q] \in Seq(Message) /\ recv_array[q] \in Seq(Message) /\ delivered[q] \in Seq(Message)
      BY <1>t DEF TypeOK
    <3>3. CASE Receive(p)
      <4>1. /\ recv_array[q] = <<>> /\ pipe[q] # <<>> /\ delivered' = delivered
            /\ recv_array'[q] = <<Head(pipe[q])>> /\ pipe'[q] = Tail(pipe[q])
        BY <1>t, <2>2, <3>3 DEF Receive, TypeOK
      <4> QED BY <1>t, <3>1, <3>2, <4>1, HeadTailFacts DEF Line
    <3>4. CASE Dispatch(p)
      <4> DEFINE m == Head(recv_array[q])
      <4>1. /\ recv_array[q] # <<>> /\ recv_array'[q] = <<>> /\ pipe' = pipe
            /\ delivered'[q] = delivered[q] \/ delivered'[q] = Append(delivered[q], m)
        BY <1>t, <2>2, <3>4 DEF Dispatch, TypeOK
      <4>2. m \in Message
        BY <3>2, <4>1, HeadTailProperties
      <4> HIDE DEF m
      <4>3. /\ Before(delivered[q], <<m>>) /\ Before(<<m>>, pipe[q])
            /\ UpTo(<<m>>, Sent(q))
        BY <1>t, <3>2, <4>1, HeadTailFacts DEF Line, m
      <4>4. m.n \in 1..Sent(q)
        BY <4>3 DEF UpTo
      <4> QED BY <1>t, <1>s, <3>1, <3>2, <4>1, <4>2, <4>3, <4>4, AppendFacts, EmptyFacts DEF Line
    <3>5. CASE LinkDown(p)
      <4>1. PICK k \in 0..Len(pipe[q]) :
              pipe'[q] = SubSeq(pipe[q], 1, k) /\ UNCHANGED <<recv_array, delivered>>
        BY <1>t, <2>2, <3>5 DEF LinkDown, TypeOK, recvVars
      <4> QED BY <1>t, <3>1, <3>2, <4>1, PrefixFacts DEF Line
    <3>6. CASE PeerRestart(p)
      <4>1. pipe'[q] = <<>> /\ recv_array'[q] = <<>> /\ delivered' = delivered
        BY <1>t, <2>2, <3>6 DEF PeerRestart, TypeOK
      <4> QED BY <1>t, <3>1, <4>1, EmptyFacts DEF Line
    <3> QED BY <1>7, <3>3, <3>4, <3>5, <3>6
  <2> QED BY <2>1, <2>2
<1> QED BY <1>1, <1>2, <1>3, <1>4, <1>5, <1>6, <1>7 DEF Next, Caller, Sender, Peer

\* The callbacks of a peer see messages in the order of acceptance, none twice.
THEOREM StrictOrderHolds == Spec => []StrictOrder
<1>1. OrderInv => StrictOrder
  BY DEF OrderInv, Line, Increasing, StrictOrder
<1> QED BY TypeInvInit, TypeInvNext, OrderInvInit, OrderInvNext, <1>1, PTL DEF Spec

-----------------------------------------------------------------------------
(* The queue bound: between the unlocked size check and the push only the  *)
(* sending thread touches the deque, and it only shortens it.              *)

BoundInv ==
  /\ OverrunByOne
  /\ caller_pc = "push" => Len(send_data[Target]) <= QueueSize

LEMMA BoundInvNext == TypeInv /\ BoundInv /\ [Next]_vars => BoundInv'
<1> SUFFICES ASSUME TypeInv, BoundInv, [Next]_vars PROVE BoundInv'
  OBVIOUS
<1>t. /\ TypeOK /\ FrontExists
      /\ \A p \in Peers : send_data[p] \in Seq(Message) /\ Len(send_data[p]) \in Nat
  BY LenProperties DEF TypeInv, TypeOK
<1>1. CASE \/ LocalCallback \/ StopThread \/ Notify \/ UNCHANGED vars
           \/ \E p \in Peers : \/ EnterWait(p) \/ SpuriousWakeup(p) \/ Relock(p) \/ Unlock(p)
                               \/ TestBuffer(p) \/ SendFront(p) \/ SenderCancelled(p)
                               \/ Peer(p) \/ LinkUp(p) \/ LinkDown(p) \/ PeerRestart(p)
  <2>1. UNCHANGED send_data
    BY <1>1 DEF LocalCallback, StopThread, Notify, vars, EnterWait, SpuriousWakeup, Relock, Unlock,
       TestBuffer, SendFront, SenderCancelled, Peer, Receive, Dispatch, register_callback,
       LinkUp, LinkDown, PeerRestart, sendVars
  <2>2. caller_pc' = "push" => caller_pc = "push" /\ targets' = targets
    BY <1>1 DEF LocalCallback, StopThread, Notify, NextTarget, vars, EnterWait, SpuriousWakeup,
       Relock, Unlock, TestBuffer, SendFront, SenderCancelled, Peer, Receive, Dispatch,
       register_callback, LinkUp, LinkDown, PeerRestart, sendVars, callVars
  <2> QED BY <2>1, <2>2 DEF BoundInv, OverrunByOne, Target
<1>2. CASE CheckSize
  <2>1. Target \in Peers
    BY <1>2, <1>t, TargetType DEF CheckSize
  <2>2. caller_pc' = "push" => targets' = targets /\ ~ (Len(send_data[Target]) > QueueSize)
    BY <1>2 DEF CheckSize, NextTarget
  <2>3. caller_pc' = "push" => Target' = Target
    BY <2>2 DEF Target
  <2>4. UNCHANGED send_data
    BY <1>2 DEF CheckSize
  <2> QED BY <1>t, <2>1, <2>2, <2>3, <2>4, BridgeAssumption DEF BoundInv, OverrunByOne
<1>3. CASE Push
  <2>1. Target \in Peers /\ Len(send_data[Target]) <= QueueSize
    BY <1>3, <1>t, TargetType DEF Push, BoundInv
  <2> DEFINE m == [n |-> accepted[Target] + 1, topic |-> topic_name]
  <2>2. m \in Message
    BY <1>t, <2>1 DEF Message, TypeOK
  <2>3. send_data' = [send_data EXCEPT ![Target] = Append(@, m)] /\ caller_pc' = "notify"
    BY <1>3 DEF Push
  <2> HIDE DEF m
  <2>4. Len(Append(send_data[Target], m)) = Len(send_data[Target]) + 1
    BY <1>t, <2>1, <2>2, AppendProperties
  <2> QED BY <1>t, <2>1, <2>3, <2>4, BridgeAssumption DEF BoundInv, OverrunByOne, TypeOK
<1>4. ASSUME NEW p \in Peers, PopFront(p)
      PROVE  BoundInv'
  <2>1. send_data[p] # <<>> /\ send_data' = [send_data EXCEPT ![p] = Tail(@)]
    BY <1>4, <1>t DEF PopFront, SenderStep, FrontExists
  <2>2. \A q \in Peers : Len(send_data'[q]) <= Len(send_data[q]) /\ Len(send_data'[q]) \in Nat
    BY <1>t, <2>1, HeadTailProperties, LenProperties DEF TypeOK
  <2>3. OverrunByOne'
    BY <1>t, <2>2, BridgeAssumption DEF BoundInv, OverrunByOne
  <2>4. UNCHANGED <<caller_pc, targets>>
    BY <1>4 DEF PopFront, callVars
  <2>5. caller_pc = "push" => Target \in Peers
    BY <1>t, TargetType
  <2>6. Target' = Target
    BY <2>4 DEF Target
  <2>7. ASSUME caller_pc' = "push" PROVE Len(send_data'[Target']) <= QueueSize
    <3>1. caller_pc = "push" /\ Target' = Target /\ Target \in Peers
      BY <2>4, <2>5, <2>6, <2>7
    <3>2. Len(send_data'[Target]) <= Len(send_data[Target]) /\ Len(send_data[Target]) <= QueueSize
      BY <2>2, <3>1 DEF BoundInv
    <3> QED BY <1>t, <2>2, <3>1, <3>2, BridgeAssumption
  <2> QED BY <2>3, <2>7 DEF BoundInv
<1> QED BY <1>1, <1>2, <1>3, <1>4 DEF Next, Caller, Sender

\* The deque of a peer never holds more than queue_size + 1 messages.
THEOREM OverrunByOneHolds == Spec => []OverrunByOne
<1>1. Init => BoundInv
  BY BridgeAssumption, EmptySeq DEF Init, BoundInv, OverrunByOne
<1>2. BoundInv => OverrunByOne
  BY DEF BoundInv
<1> QED BY TypeInvInit, TypeInvNext, BoundInvNext, <1>1, <1>2, PTL DEF Spec

-----------------------------------------------------------------------------
(* The bridge implements the ordered channel: Push accepts a message,      *)
(* Dispatch may deliver one, every other step is invisible.                *)

Got == [p \in Peers |-> DeliveredNumbers(p)]

LEMMA ChannelStep ==
  TypeInv /\ OrderInv /\ [Next]_vars => [Channel!Next]_<<accepted, Got>>
<1> SUFFICES ASSUME TypeInv, OrderInv, [Next]_vars
             PROVE  [Channel!Next]_<<accepted, Got>>
  OBVIOUS
<1>t. TypeOK /\ FrontExists /\ \A p \in Peers : delivered[p] \in Seq(Message)
  BY DEF TypeInv, TypeOK
<1>f. ASSUME UNCHANGED <<accepted, delivered>> PROVE UNCHANGED <<accepted, Got>>
  BY <1>f DEF Got, DeliveredNumbers
<1>1. CASE \/ LocalCallback \/ StopThread \/ Notify \/ CheckSize \/ UNCHANGED vars
           \/ \E p \in Peers : \/ Sender(p) \/ SpuriousWakeup(p)
                               \/ Receive(p) \/ register_callback(p)
                               \/ LinkUp(p) \/ LinkDown(p) \/ PeerRestart(p)
  <2>1. UNCHANGED <<accepted, delivered>>
    BY <1>1 DEF LocalCallback, StopThread, Notify, CheckSize, vars, Sender, EnterWait, Relock,
       Unlock, TestBuffer, SendFront, PopFront, SenderCancelled, SpuriousWakeup, Receive,
       register_callback, LinkUp, LinkDown, PeerRestart, sendVars, recvVars
  <2> QED BY <2>1, <1>f
<1>2. CASE Push
  <2>1. Target \in Peers
    BY <1>2, <1>t, TargetType DEF Push
  <2>2. accepted' = [accepted EXCEPT ![Target] = @ + 1] /\ Got' = Got
    BY <1>2 DEF Push, recvVars, Got, DeliveredNumbers
  <2> QED BY <2>1, <2>2 DEF Channel!Next, Channel!Accept, Got
<1>3. ASSUME NEW p \in Peers, Dispatch(p)
      PROVE  [Channel!Next]_<<accepted, Got>>
  <2> DEFINE m == Head(recv_array[p])
  <2>1. recv_array[p] \in Seq(Message) /\ recv_array[p] # <<>>
    BY <1>3, <1>t DEF Dispatch, TypeOK
  <2>2. m \in Message /\ m = recv_array[p][1] /\ 1 \in 1..Len(recv_array[p])
    BY <2>1, HeadTailProperties, EmptySeq
  <2>3. accepted' = accepted /\ (delivered' = delivered \/ delivered' = [delivered EXCEPT ![p] = Append(@, m)])
    BY <1>3 DEF Dispatch, sendVars
  <2>4. /\ \A i \in 1..Len(delivered[p]) : delivered[p][i].n < m.n
        /\ m.n \in 1..Sent(p)
    BY <2>2 DEF OrderInv, Line, Before, UpTo
  <2>5. m.n \in 1..accepted[p]
    <3>1. QueueNumbered(p) /\ send_data[p] \in Seq(Message) /\ accepted[p] \in Nat
      BY <1>t DEF OrderInv, TypeOK
    <3>2. Len(send_data[p]) \in Nat /\ (sender_pc[p] = "pop" => Len(send_data[p]) # 0)
      BY <1>t, <3>1, EmptySeq, LenProperties DEF FrontExists
    <3> QED BY <2>4, <3>1, <3>2 DEF Sent, QueueNumbered
  <2> HIDE DEF m
  <2>6. CASE delivered' = [delivered EXCEPT ![p] = Append(@, m)]
    <3>1. /\ delivered[p] \in Seq(Message) /\ Len(delivered[p]) \in Nat
          /\ Len(Append(delivered[p], m)) = Len(delivered[p]) + 1
          /\ \A i \in 1..Len(delivered[p]) : Append(delivered[p], m)[i] = delivered[p][i]
          /\ Append(delivered[p], m)[Len(delivered[p]) + 1] = m
      BY <1>t, <2>2, AppendProperties, LenProperties
    <3>2. \A i \in 1..Len(delivered[p]) : delivered[p][i].n \in Nat
      <4>1. \A i \in 1..Len(delivered[p]) : delivered[p][i] \in Message
        BY <1>t, ElementOfSeq
      <4> QED BY <4>1 DEF Message
    <3>3. DeliveredNumbers(p) \in Seq(Nat) /\ Len(DeliveredNumbers(p)) = Len(delivered[p])
      BY <3>1, <3>2 DEF DeliveredNumbers
    <3>4. delivered'[p] = Append(delivered[p], m) /\ \A q \in Peers : q # p => delivered'[q] = delivered[q]
      BY <1>t, <2>6 DEF TypeOK
    <3>5. DeliveredNumbers(p)' = Append(DeliveredNumbers(p), m.n)
      <4>1. m.n \in Nat
        BY <2>2 DEF Message
      <4>2. \A i \in 1..(Len(delivered[p]) + 1) : i \in 1..Len(delivered[p]) \/ i = Len(delivered[p]) + 1
        BY <3>1
      <4>3. DeliveredNumbers(p)' \in Seq(Nat) /\ Len(DeliveredNumbers(p)') = Len(delivered[p]) + 1
        BY <3>1, <3>2, <3>4, <4>1, <4>2 DEF DeliveredNumbers
      <4>4. /\ Append(DeliveredNumbers(p), m.n) \in Seq(Nat)
            /\ Len(Append(DeliveredNumbers(p), m.n)) = Len(delivered[p]) + 1
        BY <3>3, <4>1, AppendProperties
      <4>5. \A i \in 1..(Len(delivered[p]) + 1) :
               DeliveredNumbers(p)'[i] = Append(DeliveredNumbers(p), m.n)[i]
        BY <3>1, <3>3, <3>4, <4>1, <4>2, AppendProperties DEF DeliveredNumbers
      <4> QED BY <4>3, <4>4, <4>5, SeqEqual
    <3>6. \A q \in Peers : q # p => DeliveredNumbers(q)' = DeliveredNumbers(q)
      BY <3>4 DEF DeliveredNumbers
    <3>7. Got' = [Got EXCEPT ![p] = Append(@, m.n)]
      BY <3>5, <3>6 DEF Got
    <3>8. \A i \in 1..Len(Got[p]) : Got[p][i] < m.n
      BY <2>4, <3>3 DEF Got, DeliveredNumbers
    <3> QED BY <2>3, <2>5, <3>7, <3>8 DEF Channel!Next, Channel!Deliver, Got
  <2> QED BY <1>f, <2>3, <2>6
<1> QED BY <1>1, <1>2, <1>3 DEF Next, Caller, Peer

\* ReliableBridge implements the ordered channel to every peer.
THEOREM BridgeImplementsChannel == Spec => ImplementsOrderedChannel
<1>1. Init => Channel!Init
  BY EmptySeq DEF Init, Channel!Init, DeliveredNumbers
<1>2. TypeInv /\ OrderInv /\ [Next]_vars =>
        [Channel!Next]_<<accepted, [p \in Peers |-> DeliveredNumbers(p)]>>
  BY ChannelStep DEF Got
<1> QED BY TypeInvInit, TypeInvNext, OrderInvInit, OrderInvNext, <1>1, <1>2, PTL
        DEF Spec, ImplementsOrderedChannel, Channel!Spec
-----------------------------------------------------------------------------
(* Every message in one place.  What is lost is, by induction, exactly     *)
(* what was sent and is neither on the way nor delivered; that the other   *)
(* places are disjoint follows from their order.                           *)

OnTheWay(p) == Numbers(pipe[p]) \cup Numbers(recv_array[p]) \cup Numbers(delivered[p])

Accounted(p) ==
  /\ Len(recv_array[p]) <= 1
  /\ lost[p] = (1..Sent(p)) \ OnTheWay(p)

AccountedInv == \A p \in Peers : Accounted(p)

LEMMA NumbersOfShort == ASSUME NEW m PROVE Numbers(<<>>) = {} /\ Numbers(<<m>>) = {m.n}
<1>1. Len(<<>>) = 0 /\ Len(<<m>>) = 1 /\ <<m>>[1] = m
  OBVIOUS
<1> QED BY <1>1 DEF Numbers

LEMMA NumbersOfAppend ==
  ASSUME NEW s \in Seq(Message), NEW m \in Message
  PROVE  Numbers(Append(s, m)) = Numbers(s) \cup {m.n}
<1>1. /\ Len(s) \in Nat /\ Len(Append(s, m)) = Len(s) + 1
      /\ \A i \in 1..Len(s) : Append(s, m)[i] = s[i]
      /\ Append(s, m)[Len(s) + 1] = m
  BY AppendProperties, LenProperties
<1>2. \A i : i \in 1..(Len(s) + 1) <=> i \in 1..Len(s) \/ i = Len(s) + 1
  BY <1>1
<1> QED BY <1>1, <1>2 DEF Numbers

LEMMA NumbersOfTail ==
  ASSUME NEW s \in Seq(Message), s # <<>>
  PROVE  Numbers(s) = {Head(s).n} \cup Numbers(Tail(s))
<1>1. /\ Len(Tail(s)) = Len(s) - 1 /\ Len(s) \in Nat \ {0} /\ Head(s) = s[1]
      /\ \A i \in 1..Len(Tail(s)) : Tail(s)[i] = s[i + 1]
  BY HeadTailProperties, LenProperties, EmptySeq
<1>2. \A i \in 1..Len(s) : i = 1 \/ (i - 1 \in 1..Len(Tail(s)) /\ s[i] = Tail(s)[i - 1])
  BY <1>1
<1>3. 1 \in 1..Len(s) /\ \A i \in 1..Len(Tail(s)) : i + 1 \in 1..Len(s)
  BY <1>1
<1>4. Numbers(s) \subseteq {Head(s).n} \cup Numbers(Tail(s))
  BY <1>1, <1>2 DEF Numbers
<1>5. {Head(s).n} \cup Numbers(Tail(s)) \subseteq Numbers(s)
  BY <1>1, <1>3 DEF Numbers
<1> QED BY <1>4, <1>5

LEMMA TailOfShort ==
  ASSUME NEW s \in Seq(Message), s # <<>>, Len(s) <= 1
  PROVE  Tail(s) = <<>>
<1>1. Tail(s) \in Seq(Message) /\ Len(Tail(s)) = Len(s) - 1 /\ Len(s) \in Nat \ {0}
  BY HeadTailProperties, LenProperties, EmptySeq
<1>2. Len(Tail(s)) = 0
  BY <1>1
<1> QED BY <1>1, <1>2, EmptySeq

LEMMA NumbersOfPrefix ==
  ASSUME NEW s \in Seq(Message), NEW k \in 0..Len(s)
  PROVE  Numbers(SubSeq(s, 1, k)) \subseteq Numbers(s)
<1>1. \A i \in 1..k : s[i] \in Message /\ i \in 1..Len(s)
  BY ElementOfSeq, LenProperties
<1>2. Len(SubSeq(s, 1, k)) = k /\ \A i \in 1..k : SubSeq(s, 1, k)[i] = s[i]
  BY <1>1, SubSeqProperties, LenProperties
<1> QED BY <1>1, <1>2 DEF Numbers

\* Ordered sequences have no number in common, and none beyond the last one sent.
LEMMA LinePlaces ==
  ASSUME NEW p \in Peers, TypeOK, Line(p)
  PROVE  /\ Numbers(pipe[p]) \cap Numbers(recv_array[p]) = {}
         /\ Numbers(pipe[p]) \cap Numbers(delivered[p]) = {}
         /\ Numbers(recv_array[p]) \cap Numbers(delivered[p]) = {}
         /\ OnTheWay(p) \subseteq 1..Sent(p)
<1> DEFINE D == delivered[p]
           R == recv_array[p]
           Q == pipe[p]
<1>1. ASSUME NEW s, NEW t, Numbers(s) \subseteq Nat, Before(s, t)
      PROVE  Numbers(t) \cap Numbers(s) = {}
  <2> SUFFICES ASSUME NEW n \in Numbers(s), n \in Numbers(t) PROVE FALSE
    OBVIOUS
  <2>1. PICK i \in 1..Len(s) : n = s[i].n
    BY DEF Numbers
  <2>2. PICK j \in 1..Len(t) : n = t[j].n
    BY DEF Numbers
  <2>3. n < n /\ n \in Nat
    BY <1>1, <2>1, <2>2 DEF Before
  <2> QED BY <2>3
<1>2. \A s, k : UpTo(s, k) => Numbers(s) \subseteq 1..k
  BY DEF Numbers, UpTo
<1>3. Numbers(D) \subseteq Nat /\ Numbers(R) \subseteq Nat
  BY NumbersType DEF TypeOK
<1>4. Before(D, R) /\ Before(D, Q) /\ Before(R, Q)
      /\ UpTo(D, Sent(p)) /\ UpTo(R, Sent(p)) /\ UpTo(Q, Sent(p))
  BY DEF Line
<1> HIDE DEF D, R, Q
<1>5. Numbers(Q) \cap Numbers(R) = {} /\ Numbers(Q) \cap Numbers(D) = {} /\ Numbers(R) \cap Numbers(D) = {}
  BY <1>1, <1>3, <1>4
<1>6. Numbers(Q) \cup Numbers(R) \cup Numbers(D) \subseteq 1..Sent(p)
  BY <1>2, <1>4
<1> QED BY <1>5, <1>6 DEF OnTheWay, D, R, Q

LEMMA AccountedInit == Init => AccountedInv
<1> SUFFICES ASSUME Init, NEW p \in Peers PROVE Accounted(p)
  BY DEF AccountedInv
<1>1. /\ send_data[p] = <<>> /\ accepted[p] = 0 /\ pipe[p] = <<>> /\ recv_array[p] = <<>>
      /\ delivered[p] = <<>> /\ lost[p] = {} /\ sender_pc[p] = "enter"
  BY DEF Init
<1>2. Sent(p) \in Nat /\ Sent(p) <= 0
  <2>1. TypeOK /\ FrontExists /\ QueueNumbered(p)
    BY TypeInvInit, OrderInvInit DEF TypeInv, OrderInv
  <2>2. Sent(p) \in Nat /\ Len(send_data[p]) \in Nat /\ accepted[p] \in Nat
    BY <2>1, SentType
  <2>3. Sent(p) = accepted[p] - Len(send_data[p])
    BY <1>1, <2>2 DEF Sent
  <2>4. Sent(p) <= accepted[p]
    BY <2>2, <2>3
  <2> QED BY <1>1, <2>2, <2>4
<1>3. Len(recv_array[p]) <= 1
  BY <1>1
<1>4. 1..Sent(p) = {}
  BY <1>2
<1>5. lost[p] = (1..Sent(p)) \ OnTheWay(p)
  BY <1>1, <1>4
<1> QED BY <1>3, <1>5 DEF Accounted

LEMMA AccountedFrame ==
  ASSUME NEW p \in Peers, Accounted(p), LineVars(p)' = LineVars(p), lost'[p] = lost[p]
  PROVE  Accounted(p)'
BY DEF LineVars, Accounted, OnTheWay

LEMMA AccountedNext == TypeInv /\ OrderInv /\ AccountedInv /\ [Next]_vars => AccountedInv'
<1> SUFFICES ASSUME TypeInv, OrderInv, AccountedInv, [Next]_vars, NEW q \in Peers
             PROVE  Accounted(q)'
  BY DEF AccountedInv
<1>t. TypeOK /\ FrontExists /\ QueueNumbered(q) /\ Line(q) /\ Accounted(q)
  BY DEF TypeInv, OrderInv, AccountedInv
<1>s. Sent(q) \in Nat /\ Len(send_data[q]) \in Nat /\ accepted[q] \in Nat
  BY <1>t, SentType
<1>q. /\ pipe[q] \in Seq(Message) /\ recv_array[q] \in Seq(Message)
      /\ delivered[q] \in Seq(Message) /\ send_data[q] \in Seq(Message)
  BY <1>t DEF TypeOK
<1>l. /\ Numbers(pipe[q]) \cap Numbers(recv_array[q]) = {}
      /\ Numbers(pipe[q]) \cap Numbers(delivered[q]) = {}
      /\ Numbers(recv_array[q]) \cap Numbers(delivered[q]) = {}
      /\ OnTheWay(q) \subseteq 1..Sent(q)
  BY <1>t, LinePlaces
<1>f. ASSUME LineVars(q)' = LineVars(q), lost'[q] = lost[q] PROVE Accounted(q)'
  BY <1>t, <1>f, AccountedFrame
<1>1. CASE \/ LocalCallback \/ StopThread \/ CheckSize \/ UNCHANGED vars
           \/ \E p \in Peers : register_callback(p) \/ LinkUp(p)
  BY <1>1, <1>f DEF LocalCallback, StopThread, CheckSize, register_callback, LinkUp, vars,
     sendVars, linkVars, recvVars, callVars, LineVars, Sent
<1>2. CASE Notify
  <2>1. sender_pc'[q] = "pop" <=> sender_pc[q] = "pop"
    BY <1>2, <1>t, TargetType DEF Notify, TypeOK
  <2> QED BY <1>2, <1>f, <2>1 DEF Notify, linkVars, recvVars, LineVars, Sent
<1>3. CASE Push
  <2>1. Target \in Peers
    BY <1>3, <1>t, TargetType DEF Push
  <2>2. UNCHANGED <<sender_pc, pipe, recv_array, delivered, lost>>
    BY <1>3 DEF Push, recvVars
  <2>3. Sent(q)' = Sent(q)
    <3>1. CASE q # Target
      BY <1>3, <1>t, <2>1, <2>2, <3>1 DEF Push, TypeOK, Sent
    <3>2. CASE q = Target
      <4> DEFINE m == [n |-> accepted[q] + 1, topic |-> topic_name]
      <4>1. m \in Message
        BY <1>t, <1>s DEF Message, TypeOK
      <4>2. send_data'[q] = Append(send_data[q], m) /\ accepted'[q] = accepted[q] + 1
        BY <1>3, <1>t, <3>2 DEF Push, TypeOK
      <4> HIDE DEF m
      <4>3. Len(send_data'[q]) = Len(send_data[q]) + 1
        BY <1>q, <4>1, <4>2, AppendProperties
      <4> QED BY <1>s, <2>2, <4>2, <4>3 DEF Sent
    <3> QED BY <3>1, <3>2
  <2> QED BY <1>t, <2>2, <2>3 DEF Accounted, OnTheWay
<1>4. ASSUME NEW p \in Peers,
             \/ EnterWait(p) \/ SpuriousWakeup(p) \/ Relock(p) \/ Unlock(p)
             \/ TestBuffer(p) \/ SenderCancelled(p)
      PROVE  Accounted(q)'
  <2>1. (sender_pc'[q] = "pop") <=> (sender_pc[q] = "pop")
    BY <1>4, <1>t DEF EnterWait, SpuriousWakeup, Relock, Unlock, TestBuffer, SenderCancelled,
       SenderStep, TypeOK
  <2>2. UNCHANGED <<send_data, accepted, pipe, recvVars, lost>>
    BY <1>4 DEF EnterWait, SpuriousWakeup, Relock, Unlock, TestBuffer, SenderCancelled
  <2> QED BY <1>f, <2>1, <2>2 DEF LineVars, Sent, recvVars
<1>5. ASSUME NEW p \in Peers, SendFront(p)
      PROVE  Accounted(q)'
  <2>1. CASE q # p
    BY <1>5, <1>t, <1>f, <2>1 DEF SendFront, SenderStep, TypeOK, LineVars, Sent, recvVars
  <2>2. CASE q = p
    <3> DEFINE m == Head(send_data[q])
    <3>1. send_data[q] # <<>>
      BY <1>5, <1>t, <2>2 DEF SendFront, SenderStep, FrontExists
    <3>2. m \in Message /\ m = send_data[q][1] /\ 1 \in 1..Len(send_data[q])
      BY <1>q, <3>1, HeadTailProperties, LenProperties, EmptySeq
    <3>3. /\ pipe'[q] = Append(pipe[q], m)
          /\ UNCHANGED <<send_data, accepted, recv_array, delivered, lost>>
          /\ sender_pc[q] = "send" /\ sender_pc'[q] = "pop"
      BY <1>5, <1>t, <2>2 DEF SendFront, SenderStep, TypeOK, recvVars
    <3> HIDE DEF m
    <3>4. m.n = Sent(q) + 1 /\ Sent(q)' = Sent(q) + 1
      <4>1. Sent(q) = accepted[q] - Len(send_data[q]) /\ Sent(q)' = Sent(q) + 1
        BY <1>s, <3>3 DEF Sent
      <4>2. m.n = accepted[q] - Len(send_data[q]) + 1
        BY <1>t, <3>2 DEF QueueNumbered
      <4> QED BY <4>1, <4>2
    <3>5. OnTheWay(q)' = OnTheWay(q) \cup {Sent(q) + 1}
      BY <1>q, <3>2, <3>3, <3>4, NumbersOfAppend DEF OnTheWay
    <3>6. 1..(Sent(q) + 1) = (1..Sent(q)) \cup {Sent(q) + 1} /\ Sent(q) + 1 \notin 1..Sent(q)
      BY <1>s
    <3>7. lost'[q] = (1..Sent(q)') \ OnTheWay(q)'
      BY <1>t, <3>3, <3>4, <3>5, <3>6 DEF Accounted
    <3> QED BY <1>t, <3>3, <3>7 DEF Accounted
  <2> QED BY <2>1, <2>2
<1>6. ASSUME NEW p \in Peers, PopFront(p)
      PROVE  Accounted(q)'
  <2>1. CASE q # p
    BY <1>6, <1>t, <1>f, <2>1 DEF PopFront, SenderStep, TypeOK, LineVars, Sent, recvVars
  <2>2. CASE q = p
    <3>1. send_data[q] # <<>>
      BY <1>6, <1>t, <2>2 DEF PopFront, SenderStep, FrontExists
    <3>2. /\ send_data'[q] = Tail(send_data[q])
          /\ UNCHANGED <<accepted, pipe, recv_array, delivered, lost>>
          /\ sender_pc[q] = "pop" /\ sender_pc'[q] = "test"
      BY <1>6, <1>t, <2>2 DEF PopFront, SenderStep, TypeOK, recvVars
    <3>3. Len(send_data'[q]) = Len(send_data[q]) - 1
      BY <1>q, <3>1, <3>2, HeadTailProperties
    <3>4. Sent(q)' = Sent(q)
      BY <1>s, <3>2, <3>3 DEF Sent
    <3> QED BY <1>t, <3>2, <3>4 DEF Accounted, OnTheWay
  <2> QED BY <2>1, <2>2
<1>7. ASSUME NEW p \in Peers, Receive(p) \/ Dispatch(p) \/ LinkDown(p) \/ PeerRestart(p)
      PROVE  Accounted(q)'
  <2>1. UNCHANGED <<accepted, send_data, sender_pc>>
    BY <1>7 DEF Receive, Dispatch, LinkDown, PeerRestart, sendVars
  <2>2. Sent(q)' = Sent(q)
    BY <2>1 DEF Sent
  <2>3. CASE q # p
    <3>1. /\ pipe'[q] = pipe[q] /\ recv_array'[q] = recv_array[q]
          /\ delivered'[q] = delivered[q] /\ lost'[q] = lost[q]
      BY <1>7, <1>t, <2>3 DEF Receive, Dispatch, LinkDown, PeerRestart, TypeOK, recvVars
    <3> QED BY <1>f, <2>1, <2>2, <3>1 DEF LineVars
  <2>4. CASE q = p
    <3>1. CASE Receive(p)
      <4>1. /\ recv_array[q] = <<>> /\ pipe[q] # <<>> /\ delivered' = delivered /\ lost' = lost
            /\ recv_array'[q] = <<Head(pipe[q])>> /\ pipe'[q] = Tail(pipe[q])
        BY <1>t, <2>4, <3>1 DEF Receive, TypeOK
      <4>2. OnTheWay(q)' = OnTheWay(q)
        BY <1>q, <4>1, NumbersOfShort, NumbersOfTail DEF OnTheWay
      <4>3. Len(recv_array'[q]) <= 1
        BY <4>1
      <4> QED BY <1>t, <2>2, <4>1, <4>2, <4>3 DEF Accounted
    <3>2. CASE Dispatch(p)
      <4> DEFINE m == Head(recv_array[q])
      <4>1. /\ recv_array[q] # <<>> /\ recv_array'[q] = <<>> /\ pipe' = pipe
            /\ \/ delivered'[q] = Append(delivered[q], m) /\ lost'[q] = lost[q]
               \/ delivered'[q] = delivered[q] /\ lost'[q] = lost[q] \cup {m.n}
        BY <1>t, <2>4, <3>2 DEF Dispatch, TypeOK
      <4>2. m \in Message /\ Tail(recv_array[q]) = <<>>
        <5>1. Len(recv_array[q]) <= 1
          BY <1>t DEF Accounted
        <5> QED BY <1>q, <4>1, <5>1, HeadTailProperties, TailOfShort
      <4>3. Numbers(recv_array[q]) = {m.n}
        BY <1>q, <4>1, <4>2, NumbersOfTail, NumbersOfShort
      <4> HIDE DEF m
      <4>4. Numbers(recv_array'[q]) = {} /\ Len(recv_array'[q]) <= 1
        <5>1. Numbers(<<>>) = {} /\ Len(<<>>) = 0
          BY NumbersOfShort
        <5> QED BY <4>1, <5>1
      <4>5. CASE delivered'[q] = Append(delivered[q], m) /\ lost'[q] = lost[q]
        <5>1. OnTheWay(q)' = OnTheWay(q)
          BY <1>q, <4>1, <4>2, <4>3, <4>4, <4>5, NumbersOfAppend DEF OnTheWay
        <5> QED BY <1>t, <2>2, <4>4, <4>5, <5>1 DEF Accounted
      <4>6. CASE delivered'[q] = delivered[q] /\ lost'[q] = lost[q] \cup {m.n}
        <5>1. OnTheWay(q)' = OnTheWay(q) \ {m.n} /\ m.n \in OnTheWay(q)
          BY <1>l, <4>1, <4>3, <4>4, <4>6 DEF OnTheWay
        <5> QED BY <1>t, <1>l, <2>2, <4>4, <4>6, <5>1 DEF Accounted
      <4> QED BY <4>1, <4>5, <4>6
    <3>3. CASE LinkDown(p)
      <4>1. PICK k \in 0..Len(pipe[q]) :
              /\ pipe'[q] = SubSeq(pipe[q], 1, k) /\ UNCHANGED <<recv_array, delivered>>
              /\ lost'[q] = lost[q] \cup (Numbers(pipe[q]) \ Numbers(SubSeq(pipe[q], 1, k)))
        BY <1>t, <2>4, <3>3 DEF LinkDown, TypeOK, recvVars
      <4>2. Numbers(SubSeq(pipe[q], 1, k)) \subseteq Numbers(pipe[q])
        BY <1>q, NumbersOfPrefix
      <4>3. OnTheWay(q)' = OnTheWay(q) \ (Numbers(pipe[q]) \ Numbers(SubSeq(pipe[q], 1, k)))
        BY <1>l, <4>1, <4>2 DEF OnTheWay
      <4>4. Numbers(pipe[q]) \subseteq OnTheWay(q)
        BY DEF OnTheWay
      <4> QED BY <1>t, <1>l, <2>2, <4>1, <4>3, <4>4 DEF Accounted
    <3>4. CASE PeerRestart(p)
      <4>1. /\ pipe'[q] = <<>> /\ recv_array'[q] = <<>> /\ delivered' = delivered
            /\ lost'[q] = lost[q] \cup Numbers(pipe[q]) \cup Numbers(recv_array[q])
        BY <1>t, <2>4, <3>4 DEF PeerRestart, TypeOK
      <4>2. OnTheWay(q)' = OnTheWay(q) \ (Numbers(pipe[q]) \cup Numbers(recv_array[q]))
        BY <1>l, <4>1, NumbersOfShort DEF OnTheWay
      <4>3. Numbers(pipe[q]) \cup Numbers(recv_array[q]) \subseteq OnTheWay(q)
        BY DEF OnTheWay
      <4>4. Len(recv_array'[q]) <= 1
        BY <4>1
      <4> QED BY <1>t, <1>l, <2>2, <4>1, <4>2, <4>3, <4>4 DEF Accounted
    <3> QED BY <1>7, <3>1, <3>2, <3>3, <3>4
  <2> QED BY <2>3, <2>4
<1> QED BY <1>1, <1>2, <1>3, <1>4, <1>5, <1>6, <1>7 DEF Next, Caller, Sender, Peer

\* A sequence numbered b + 1, b + 2, ... holds exactly those numbers.
LEMMA NumbersOfRun ==
  ASSUME NEW s \in Seq(Message), NEW b \in Nat, \A i \in 1..Len(s) : s[i].n = b + i
  PROVE  Numbers(s) = (b + 1)..(b + Len(s))
<1> DEFINE L == Len(s)
<1>1. L \in Nat /\ \A i \in 1..L : s[i].n = b + i
  BY LenProperties
<1> HIDE DEF L
<1>2. ASSUME NEW n \in (b + 1)..(b + L) PROVE n - b \in 1..L /\ b + (n - b) = n
  BY <1>1
<1>3. ASSUME NEW i \in 1..L PROVE b + i \in (b + 1)..(b + L)
  BY <1>1
<1>4. \A n \in (b + 1)..(b + L) : \E i \in 1..L : n = s[i].n
  <2> TAKE n \in (b + 1)..(b + L)
  <2>1. n - b \in 1..L /\ s[n - b].n = n
    BY <1>1, <1>2
  <2> QED BY <2>1
<1>5. \A i \in 1..L : s[i].n \in (b + 1)..(b + L)
  BY <1>1, <1>3
<1> QED BY <1>4, <1>5 DEF Numbers, L

\* Sent but not popped, or still queued: the numbers after the last one sent.
LEMMA UnsentNumbers ==
  ASSUME TypeOK, FrontExists, NEW p \in Peers, QueueNumbered(p)
  PROVE  Numbers(Unsent(p)) = (Sent(p) + 1)..accepted[p]
<1>1. send_data[p] \in Seq(Message) /\ accepted[p] \in Nat
  BY DEF TypeOK
<1>2. /\ Len(send_data[p]) \in Nat /\ Len(send_data[p]) <= accepted[p]
      /\ \A i \in 1..Len(send_data[p]) : send_data[p][i].n = accepted[p] - Len(send_data[p]) + i
  BY <1>1, LenProperties DEF QueueNumbered
<1>3. PICK b \in Nat : b = accepted[p] - Len(send_data[p])
  BY <1>1, <1>2
<1>4. accepted[p] = b + Len(send_data[p])
  BY <1>1, <1>2, <1>3
<1>5. \A i \in 1..Len(send_data[p]) : send_data[p][i].n = b + i
  BY <1>2, <1>3
<1>6. CASE sender_pc[p] # "pop"
  <2>1. Sent(p) = b /\ Unsent(p) = send_data[p]
    BY <1>3, <1>6 DEF Sent, Unsent
  <2> QED BY <1>1, <1>4, <1>5, <2>1, NumbersOfRun
<1>7. CASE sender_pc[p] = "pop"
  <2> DEFINE t == Tail(send_data[p])
  <2>1. Sent(p) = b + 1 /\ Unsent(p) = t /\ send_data[p] # <<>>
    BY <1>3, <1>7 DEF Sent, Unsent, FrontExists
  <2>2. /\ t \in Seq(Message) /\ Len(t) = Len(send_data[p]) - 1
        /\ Len(send_data[p]) \in Nat \ {0}
        /\ \A i \in 1..Len(t) : t[i] = send_data[p][i + 1]
    BY <1>1, <2>1, HeadTailProperties, EmptySeq
  <2> HIDE DEF t
  <2>3. ASSUME NEW i \in 1..Len(t) PROVE t[i].n = (b + 1) + i
    <3>1. i + 1 \in 1..Len(send_data[p]) /\ b + (i + 1) = (b + 1) + i
      BY <2>2, <2>3
    <3> QED BY <1>5, <2>2, <3>1
  <2>4. Numbers(t) = ((b + 1) + 1)..((b + 1) + Len(t))
    <3>1. b + 1 \in Nat /\ \A i \in 1..Len(t) : t[i].n = (b + 1) + i
      BY <2>3
    <3> QED BY <2>2, <3>1, NumbersOfRun
  <2>5. (b + 1) + Len(t) = accepted[p]
    <3>1. \A l \in Nat : (b + 1) + (l - 1) = b + l
      OBVIOUS
    <3> QED BY <1>2, <1>4, <2>2, <3>1
  <2> QED BY <2>1, <2>4, <2>5
<1> QED BY <1>6, <1>7

\* No message is duplicated or disappears without a fault or a missing callback.
THEOREM EachMessageInOnePlaceHolds == Spec => []EachMessageInOnePlace
<1>1. TypeInv /\ OrderInv /\ AccountedInv => EachMessageInOnePlace
  <2> SUFFICES ASSUME TypeInv, OrderInv, AccountedInv, NEW p \in Peers
      PROVE  LET places == <<Numbers(Unsent(p)), Numbers(pipe[p]), Numbers(recv_array[p]),
                             Numbers(delivered[p]), lost[p]>>
             IN  /\ UNION {places[i] : i \in 1..5} = 1..accepted[p]
                 /\ \A i, j \in 1..5 : i # j => places[i] \cap places[j] = {}
    BY DEF EachMessageInOnePlace
  <2> DEFINE places == <<Numbers(Unsent(p)), Numbers(pipe[p]), Numbers(recv_array[p]),
                         Numbers(delivered[p]), lost[p]>>
  <2>1. TypeOK /\ FrontExists /\ QueueNumbered(p) /\ Line(p) /\ Accounted(p)
    BY DEF TypeInv, OrderInv, AccountedInv
  <2>2. Sent(p) \in Nat /\ accepted[p] \in Nat /\ Sent(p) <= accepted[p]
    <3>1. sender_pc[p] = "pop" => Len(send_data[p]) # 0
      BY <2>1, EmptySeq DEF TypeOK, FrontExists
    <3> QED BY <2>1, <3>1, SentType DEF Sent
  <2>3. /\ places[1] = (Sent(p) + 1)..accepted[p] /\ places[2] = Numbers(pipe[p])
        /\ places[3] = Numbers(recv_array[p]) /\ places[4] = Numbers(delivered[p])
        /\ places[5] = (1..Sent(p)) \ OnTheWay(p)
    BY <2>1, UnsentNumbers DEF Accounted
  <2>4. /\ Numbers(pipe[p]) \cap Numbers(recv_array[p]) = {}
        /\ Numbers(pipe[p]) \cap Numbers(delivered[p]) = {}
        /\ Numbers(recv_array[p]) \cap Numbers(delivered[p]) = {}
        /\ OnTheWay(p) \subseteq 1..Sent(p)
    BY <2>1, LinePlaces
  <2> HIDE DEF places
  <2>5. places[2] \cup places[3] \cup places[4] \cup places[5] = 1..Sent(p)
    BY <2>3, <2>4 DEF OnTheWay
  <2>6. /\ (1..Sent(p)) \cup ((Sent(p) + 1)..accepted[p]) = 1..accepted[p]
        /\ (1..Sent(p)) \cap ((Sent(p) + 1)..accepted[p]) = {}
    BY <2>2
  <2>7. UNION {places[i] : i \in 1..5}
          = places[1] \cup places[2] \cup places[3] \cup places[4] \cup places[5]
    <3>1. \A i : i \in 1..5 <=> i \in {1, 2, 3, 4, 5}
      OBVIOUS
    <3> QED BY <3>1
  <2>8. /\ places[1] \cap places[2] = {} /\ places[1] \cap places[3] = {}
        /\ places[1] \cap places[4] = {} /\ places[1] \cap places[5] = {}
    BY <2>3, <2>5, <2>6
  <2>9. /\ places[2] \cap places[3] = {} /\ places[2] \cap places[4] = {} /\ places[3] \cap places[4] = {}
        /\ places[2] \cap places[5] = {} /\ places[3] \cap places[5] = {} /\ places[4] \cap places[5] = {}
    BY <2>3, <2>4 DEF OnTheWay
  <2>10. UNION {places[i] : i \in 1..5} = 1..accepted[p]
    BY <2>3, <2>5, <2>6, <2>7
  <2>11. \A i, j \in 1..5 : i # j => places[i] \cap places[j] = {}
    <3>1. \A i \in 1..5 : i = 1 \/ i = 2 \/ i = 3 \/ i = 4 \/ i = 5
      OBVIOUS
    <3> QED BY <2>8, <2>9, <3>1
  <2> QED BY <2>10, <2>11 DEF places
<1> QED BY TypeInvInit, TypeInvNext, OrderInvInit, OrderInvNext, AccountedInit, AccountedNext,
           <1>1, PTL DEF Spec
=============================================================================
