--------------------------- MODULE MC_ProcessRun ---------------------------
(* A signing subset of three peers with peer 1 as coordinator, and a     *)
(* protocol of two rounds: a message of round 2 may overtake one of       *)
(* round 1 on its way to a party still in round 1.                        *)
EXTENDS ProcessRun

MCParties == {1, 2, 3}
=============================================================================
