------------------------------ MODULE SyncState -----------------------------
(***************************************************************************)
(* Semaphores and the task queues under them, as the tasks that use them   *)
(* see them: sem.c over WaitQueueTimed and SignalQueue.  The data is one   *)
(* record w:                                                               *)
(*                                                                         *)
(*   value     the count of every semaphore                                *)
(*   list      the tasks in every queue, head (least priority) first       *)
(*   timed     the tasks whose wait has a timeout                          *)
(*   success   what the last wait of every task returns                    *)
(*                                                                         *)
(* Each operation runs with interrupts disabled up to the context switch,  *)
(* so it is one step; a task in a queue does not run (Runs), and one that  *)
(* is out of it goes on, at some moment the scheduler picks, with the      *)
(* success its wait ended with.                                            *)
(***************************************************************************)
EXTENDS OrderedQueue

CONSTANTS
  Task,
  prio,       \* the priority of each task
  Sem,        \* the semaphores, which also name their queues
  Cond,       \* the other queues
  FOREVER

WaitingIn(w, q) == ToSet(w.list[q])
Runs(w, t) == \A q \in Sem \cup Cond : t \notin WaitingIn(w, q)

\* A wait of no time, one with a timeout, and one without.
Waits == {0, 1, FOREVER}

ASSUME SyncStateAssumption ==
  /\ FOREVER \notin Nat
  /\ prio \in [Task -> Nat]
  /\ Sem \cap Cond = {}

-----------------------------------------------------------------------------
(* kernel.c *)

WaitQueue(w, t, q, n) ==
  IF n = 0 THEN [w EXCEPT !.success[t] = FALSE]
  ELSE [w EXCEPT !.list[q] = OrderedInsert(@, prio, t, prio[t]),
                 !.timed = IF n = FOREVER THEN @ ELSE @ \cup {t}]

Wake(w, t, q, ok) ==
  [w EXCEPT !.list[q] = Unlink(@, t), !.timed = @ \ {t}, !.success[t] = ok]

SignalQueue(w, q) ==
  IF w.list[q] = <<>> THEN w ELSE Wake(w, Last(w.list[q]), q, TRUE)

FlushQueue(w, q, ok) ==
  [w EXCEPT !.list[q] = <<>>, !.timed = @ \ WaitingIn(w, q),
            !.success = [t \in Task |-> IF t \in WaitingIn(w, q) THEN ok ELSE @[t]]]

\* The clock ends a wait (clockint).
TimesOut(w, t) == t \in w.timed

\* Faulty variant: the wait ends as if it had been granted.
TimeOutSucceeds(w, t) ==
  LET q == CHOOSE r \in Sem \cup Cond : t \in WaitingIn(w, r)
  IN  Wake(w, t, q, TRUE)

TimeOut(w, t) ==
  LET q == CHOOSE r \in Sem \cup Cond : t \in WaitingIn(w, r)
  IN  Wake(w, t, q, FALSE)

\* A status that has been read is not looked at again.
Returned(w, t) == [w EXCEPT !.success[t] = FALSE]

-----------------------------------------------------------------------------
(* sem.c *)

WaitSem(w, t, s, n) ==
  IF w.value[s] > 0 THEN [w EXCEPT !.value[s] = @ - 1, !.success[t] = TRUE]
  ELSE WaitQueue(w, t, s, n)

\* Faulty variant: the count goes up although a task was woken.
SignalSemTwice(w, s) == [SignalQueue(w, s) EXCEPT !.value[s] = @ + 1]

SignalSem(w, s) ==
  IF w.list[s] = <<>> THEN [w EXCEPT !.value[s] = @ + 1] ELSE SignalQueue(w, s)
=============================================================================
