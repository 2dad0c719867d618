------------------------------ MODULE MCBridge ------------------------------
(* Three cars one way, enough to keep the bridge for ever, and one the     *)
(* other way, on the shortest road on which they can do so: two cells of   *)
(* approach before the barrier, one cell of one lane.                      *)
EXTENDS Bridge

CONSTANTS l1, l2, l3, r1

MCprio == [t \in Task |-> 1]
=============================================================================
