------------------------------- MODULE Dining -------------------------------
(***************************************************************************)
(* What every program of the dining philosophers promises: a philosopher   *)
(* thinks, is hungry, eats and thinks again, and never eats while one of   *)
(* the two next to it does.  Whoever stops eating may leave the forks in   *)
(* the hands of its neighbours in the same step.                           *)
(***************************************************************************)
CONSTANTS Phil, Neighbours

VARIABLE phase

Phases == {"thinking", "hungry", "eating"}

Init == phase = [i \in Phil |-> "thinking"]

BecomeHungry(i) == phase[i] = "thinking" /\ phase' = [phase EXCEPT ![i] = "hungry"]

MayEat(i) == phase[i] = "hungry" /\ \A j \in Neighbours[i] : phase[j] # "eating"

Eat(i) == MayEat(i) /\ phase' = [phase EXCEPT ![i] = "eating"]

\* Those who begin to eat are not neighbours of each other.
Stop(i) ==
  /\ phase[i] = "eating"
  /\ \E fed \in SUBSET Neighbours[i] :
       /\ \A j \in fed : phase[j] = "hungry"
       /\ \A j \in fed : \A k \in Neighbours[j] \ {i} : phase[k] # "eating" /\ k \notin fed
       /\ phase' = [j \in Phil |-> IF j = i THEN "thinking"
                                   ELSE IF j \in fed THEN "eating" ELSE phase[j]]

Next == \E i \in Phil : BecomeHungry(i) \/ Eat(i) \/ Stop(i)

Spec == Init /\ [][Next]_phase
=============================================================================
