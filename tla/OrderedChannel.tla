--------------------------- MODULE OrderedChannel ---------------------------
(***************************************************************************)
(* What ReliableBridge promises to its callers: for each peer a channel    *)
(* that may lose messages (a full queue, a broken connection, a topic      *)
(* nobody listens to) but never reorders, repeats or invents one.          *)
(*                                                                         *)
(* Messages accepted for a peer are numbered 1, 2, ... in the order of     *)
(* acceptance.                                                             *)
(***************************************************************************)
EXTENDS Naturals, Sequences

CONSTANT Peers   \* the devices a node is connected to

VARIABLES sent,  \* sent[p]: how many messages were accepted for p
          got    \* got[p]: the numbers handed to the callbacks of p, in order

Init == /\ sent = [p \in Peers |-> 0]
        /\ got = [p \in Peers |-> <<>>]

Accept(p) == /\ sent' = [sent EXCEPT ![p] = @ + 1]
             /\ UNCHANGED got

\* A later message may overtake one that was lost, never one that is delivered.
Deliver(p, n) == /\ \A i \in 1..Len(got[p]) : got[p][i] < n
                 /\ got' = [got EXCEPT ![p] = Append(@, n)]
                 /\ UNCHANGED sent

Next == \E p \in Peers : Accept(p) \/ \E n \in 1..sent[p] : Deliver(p, n)

Spec == Init /\ [][Next]_<<sent, got>>

=============================================================================
