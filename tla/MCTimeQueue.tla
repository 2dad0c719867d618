----------------------------- MODULE MCTimeQueue ----------------------------
(* Three tasks and waits of one, two and three ticks; 21 and 41 are not    *)
(* whole numbers of ticks.                                                 *)
EXTENDS TimeQueue

MCMsecs == {1, 21, 60}

=============================================================================
