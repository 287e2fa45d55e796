------------------------------ MODULE MCMission ------------------------------
(* Mission for TLC: three stations; position 1 is far from any, 2 and 3    *)
(* are near station 3, 4 and 5 near the stations 5 and 7.                  *)
EXTENDS Mission

MCStationAt == [x \in Positions |-> CASE x = 1 -> 0 [] x \in {2, 3} -> 3 [] x = 4 -> 5 [] OTHER -> 7]
MCPathLen == [s \in Stations |-> IF s = 5 THEN 2 ELSE 1]
=============================================================================
