----------------------------- MODULE Allocator ------------------------------
(***************************************************************************)
(* What malloc and free promise: a block that is handed out lies in the    *)
(* heap and shares nothing with those in use, and a call fails only if no  *)
(* stretch of the heap that is free is long enough.                        *)
(***************************************************************************)
EXTENDS Integers

CONSTANT Units     \* the heap is 1 .. Units

VARIABLES
  live,    \* the blocks in use: where they start and how long they are
  asked    \* the size of the block asked for, 0 if none is

Cells(b) == b.at .. b.at + b.units - 1
Free == (1 .. Units) \ UNION {Cells(b) : b \in live}
Fits(b) == Cells(b) \subseteq Free

Init == live = {} /\ asked = 0

Ask(n) == asked = 0 /\ asked' = n /\ UNCHANGED live

Grant(a) ==
  LET b == [at |-> a, units |-> asked]
  IN asked > 0 /\ Fits(b) /\ live' = live \cup {b} /\ asked' = 0

Refuse ==
  /\ asked > 0 /\ \A a \in 1 .. Units : ~ Fits([at |-> a, units |-> asked])
  /\ asked' = 0 /\ UNCHANGED live

Release(b) == asked = 0 /\ live' = live \ {b} /\ UNCHANGED asked

Next ==
  \/ \E n \in 1 .. Units : Ask(n)
  \/ \E a \in 1 .. Units : Grant(a)
  \/ Refuse
  \/ \E b \in live : Release(b)

Spec == Init /\ [][Next]_<<live, asked>>
=============================================================================
