----------------------------- MODULE MCReplanFSM -----------------------------
(* ReplanFSM for TLC: routes of different lengths, two with the same end.  *)
EXTENDS ReplanFSM

CONSTANTS A, B, C   \* routes

MCRouteLen == [r \in Routes |-> CASE r = A -> 2 [] r = B -> 3 [] OTHER -> 2]
MCRouteEnd == [r \in Routes |-> IF r = C THEN "a" ELSE IF r = A THEN "a" ELSE "b"]
MCNoEnd == "none"
=============================================================================
