--------------------------- MODULE MCPhilosophers ---------------------------
(* Five philosophers, as in the programs. *)
EXTENDS Philosophers

MCTask == 0 .. NF - 1
MCprio == [i \in MCTask |-> 1]
MCown == [i \in MCTask |-> <<"cond", i>>]
MCCond == {all} \cup {<<"cond", i>> : i \in MCTask}
=============================================================================
