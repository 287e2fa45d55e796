--------------------------- MODULE MCLivoxDriver ---------------------------
(* Two lidars, one listed with one of the two settings and one not listed.    *)
EXTENDS LivoxDriver

CONSTANTS l1, l2, s1, s2

MCLidar == {l1, l2}
MCSetting == {s1, s2}
MCListed == {l1}
MCWanted == [l \in MCListed |-> {s1}]
MCPacket == 1 .. 4
=============================================================================
