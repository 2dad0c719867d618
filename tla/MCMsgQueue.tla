----------------------------- MODULE MCMsgQueue -----------------------------
(* Two tasks on one side, one and a device on the other.                   *)
EXTENDS MsgQueue

MCprio == [t \in Task |-> 1]
=============================================================================
