------------------------------- MODULE Timers -------------------------------
(***************************************************************************)
(* What the time queue promises, with no lists of differences: every task  *)
(* that started a timed wait of wait[t] ticks is woken by the first clock  *)
(* interrupt that finds that slept[t], the number of clock interrupts the  *)
(* wait has already been through, has reached wait[t].  Tasks due at the   *)
(* same interrupt are woken in the order of the line they stand in.        *)
(***************************************************************************)
EXTENDS Integers, Sequences, SequencesExt

CONSTANTS Task, Waits

VARIABLES
  line,     \* the tasks waiting, the first one due first
  wait,     \* the ticks each one asked for
  slept     \* the clock interrupts each one has been through

timersVars == <<line, wait, slept>>

Left(t) == wait[t] - slept[t]

Init ==
  /\ line = <<>>
  /\ wait = [t \in Task |-> 0]
  /\ slept = [t \in Task |-> 0]

\* t stands before the first task that is due no sooner than itself.
Start(t, n) ==
  /\ t \notin ToSet(line)
  /\ \E p \in 1 .. Len(line) + 1 :
       /\ \A i \in 1 .. p - 1 : Left(line[i]) < n
       /\ p <= Len(line) => n <= Left(line[p])
       /\ line' = InsertAt(line, p, t)
  /\ wait' = [wait EXCEPT ![t] = n]
  /\ slept' = [slept EXCEPT ![t] = 0]

Stop(t) ==
  /\ \E p \in 1 .. Len(line) : line[p] = t /\ line' = RemoveAt(line, p)
  /\ UNCHANGED <<wait, slept>>

\* The first n tasks are due and leave; the rest have slept one more tick.
Tick ==
  \E n \in 0 .. Len(line) :
    /\ \A i \in 1 .. n : Left(line[i]) = 0
    /\ \A i \in n + 1 .. Len(line) : Left(line[i]) > 0
    /\ line' = SubSeq(line, n + 1, Len(line))
    /\ slept' = [t \in Task |-> IF t \in ToSet(line') THEN slept[t] + 1 ELSE slept[t]]
    /\ UNCHANGED wait

Next ==
  \/ \E t \in Task, n \in Waits : Start(t, n)
  \/ \E t \in Task : Stop(t)
  \/ Tick

Spec == Init /\ [][Next]_timersVars
=============================================================================
