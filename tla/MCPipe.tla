------------------------------- MODULE MCPipe -------------------------------
(* Two readers and a writer of the same priority.                          *)
EXTENDS Pipe

CONSTANTS r1, r2, w1

MCprio == [t \in Task |-> 1]

\* Readers that take all there is.
MCDrain == [t \in Task |-> IF t = w1 THEN {1, 2} ELSE {2}]
ASSUME MCTakesAll == TakesAll

\* Readers that may leave bytes behind: with these, in the place of MCDrain
\* and without the assumption, NoLostWakeup does not hold.
MCAny == [t \in Task |-> {1, 2}]

\* The readers are alike.
Symmetry == Permutations(Readers)
=============================================================================
