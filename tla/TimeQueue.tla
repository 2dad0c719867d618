------------------------------ MODULE TimeQueue -----------------------------
(***************************************************************************)
(* The time queue of queue.c and its clock interrupt (clockint, kernel.c). *)
(*                                                                         *)
(* time_q is the doubly linked list of Task_t, head first; membership of   *)
(* the sequence stands for the in_time_q flag.  ticks is the differential  *)
(* count of each task.  The insertion loop of mt_enqueue_time runs one     *)
(* comparison per step: pc = "scan", with the loop's own variables in      *)
(* call.  The waking loop of clockint runs one task per step: pc =         *)
(* "clock", with the tasks it has passed to ready() in woken.  Both run    *)
(* with interrupts disabled, so nothing else happens meanwhile.            *)
(*                                                                         *)
(* asked and slept are history variables: the ticks a wait was started     *)
(* with, and the clock interrupts it has been through since.               *)
(***************************************************************************)
EXTENDS OrderedQueue

CONSTANTS
  Task,       \* the tasks that may wait
  Msecs,      \* the waits they ask for, in milliseconds
  MSPERTICK,  \* milliseconds between two clock interrupts
  Word        \* 2^32: the modulus of unsigned arithmetic

ASSUME TimeQueueAssumption ==
  /\ MSPERTICK \in Nat \ {0}
  /\ Word \in Nat \ {0}
  /\ Msecs \subseteq 1 .. Word - 2     \* 0 and FOREVER (Word - 1) do not get here

VARIABLES time_q, ticks, pc, call, woken, msecs, asked, slept

timeVars == <<time_q, ticks, pc, call, woken, msecs, asked, slept>>

\* Faulty variant: no rounding up.
MsecsToTicksDown(m) == m \div MSPERTICK

MsecsToTicks(m) == ((m + MSPERTICK - 1) % Word) \div MSPERTICK

Waits == {MsecsToTicks(m) : m \in Msecs}

TimeInit ==
  /\ time_q = <<>>
  /\ ticks = [t \in Task |-> 0]
  /\ pc = "idle"
  /\ call \in [task : Task, ticks : {0}, at : {1}]
  /\ woken = <<>>
  /\ msecs = [t \in Task |-> 0]
  /\ asked = [t \in Task |-> 0]
  /\ slept = [t \in Task |-> 0]

-----------------------------------------------------------------------------
(* mt_enqueue_time, called by Delay and the timed waits for a task that    *)
(* block() has just taken out of the queue.                                *)

EnqueueTime(t, m) ==
  /\ pc = "idle"
  /\ t \notin ToSet(time_q)
  /\ pc' = "scan"
  /\ call' = [task |-> t, ticks |-> MsecsToTicks(m), at |-> 1]
  /\ msecs' = [msecs EXCEPT ![t] = m]
  /\ UNCHANGED <<time_q, ticks, woken, asked, slept>>

\* Faulty variant: past the tasks that are due at the same tick.
PassesEquals == call.at <= Len(time_q) /\ call.ticks >= ticks[time_q[call.at]]

\* The condition of the insertion loop.
Passes == call.at <= Len(time_q) /\ call.ticks > ticks[time_q[call.at]]

\* Faulty variant: the loop does not move on to the next task.
ScanNextStays ==
  /\ pc = "scan"
  /\ Passes
  /\ call' = [call EXCEPT !.ticks = @ - ticks[time_q[call.at]]]
  /\ UNCHANGED <<time_q, ticks, pc, woken, msecs, asked, slept>>

ScanNext ==
  /\ pc = "scan"
  /\ Passes
  /\ call' = [call EXCEPT !.ticks = @ - ticks[time_q[call.at]], !.at = @ + 1]
  /\ UNCHANGED <<time_q, ticks, pc, woken, msecs, asked, slept>>

\* Faulty variant: the count of the next task still includes this one's.
LinkKeepsNext ==
  /\ pc = "scan"
  /\ ~ Passes
  /\ time_q' = InsertAt(time_q, call.at, call.task)
  /\ ticks' = [ticks EXCEPT ![call.task] = call.ticks]
  /\ pc' = "idle"
  /\ asked' = [asked EXCEPT ![call.task] = MsecsToTicks(msecs[call.task])]
  /\ slept' = [slept EXCEPT ![call.task] = 0]
  /\ UNCHANGED <<call, woken, msecs>>

Link ==
  /\ pc = "scan"
  /\ ~ Passes
  /\ time_q' = InsertAt(time_q, call.at, call.task)
  /\ ticks' = [t \in Task |->
       IF t = call.task THEN call.ticks
       ELSE IF call.at <= Len(time_q) /\ t = time_q[call.at] THEN ticks[t] - call.ticks
       ELSE ticks[t]]
  /\ pc' = "idle"
  /\ asked' = [asked EXCEPT ![call.task] = MsecsToTicks(msecs[call.task])]
  /\ slept' = [slept EXCEPT ![call.task] = 0]
  /\ UNCHANGED <<call, woken, msecs>>

\* Faulty variant: the ticks of the task that leaves are lost.
DequeueTimeLoses(t) ==
  /\ pc = "idle"
  /\ \E p \in 1 .. Len(time_q) : time_q[p] = t /\ time_q' = RemoveAt(time_q, p)
  /\ UNCHANGED <<ticks, pc, call, woken, msecs, asked, slept>>

(* mt_dequeue_time on a task that is in the queue (on another it returns). *)
DequeueTime(t) ==
  /\ pc = "idle"
  /\ \E p \in 1 .. Len(time_q) :
       /\ time_q[p] = t
       /\ time_q' = RemoveAt(time_q, p)
       /\ ticks' = [u \in Task |->
            IF p < Len(time_q) /\ u = time_q[p + 1] THEN ticks[u] + ticks[t] ELSE ticks[u]]
  /\ UNCHANGED <<pc, call, woken, msecs, asked, slept>>

-----------------------------------------------------------------------------
(* clockint: the loop that wakes, then the decrement of the new head.      *)

\* Faulty variant: the loop wakes one task only.
HeadIsDueOnce == time_q # <<>> /\ ticks[Head(time_q)] = 0 /\ woken = <<>>

HeadIsDue == time_q # <<>> /\ ticks[Head(time_q)] = 0

ClockInt ==
  /\ pc = "idle"
  /\ pc' = "clock"
  /\ UNCHANGED <<time_q, ticks, call, woken, msecs, asked, slept>>

WakeHead ==
  /\ pc = "clock"
  /\ HeadIsDue
  /\ time_q' = Tail(time_q)
  /\ woken' = Append(woken, Head(time_q))
  /\ UNCHANGED <<ticks, pc, call, msecs, asked, slept>>

ClockEnd ==
  /\ pc = "clock"
  /\ ~ HeadIsDue
  /\ ticks' = IF time_q = <<>> THEN ticks ELSE [ticks EXCEPT ![Head(time_q)] = @ - 1]
  /\ slept' = [t \in Task |-> IF t \in ToSet(time_q) THEN slept[t] + 1 ELSE slept[t]]
  /\ pc' = "idle"
  /\ woken' = <<>>
  /\ UNCHANGED <<time_q, call, msecs, asked>>

TimeNext ==
  \/ \E t \in Task, m \in Msecs : EnqueueTime(t, m)
  \/ ScanNext
  \/ Link
  \/ \E t \in Task : DequeueTime(t)
  \/ ClockInt
  \/ WakeHead
  \/ ClockEnd

TimeSpec == TimeInit /\ [][TimeNext]_timeVars

(* The clock keeps interrupting and a loop that has begun runs to its end: *)
(* the timer is periodic (mt_setup_timer) and both loops run with          *)
(* interrupts disabled.  Nothing obliges a task to start or stop a wait.   *)
FairSpec ==
  /\ TimeSpec
  /\ WF_timeVars(ScanNext) /\ WF_timeVars(Link)
  /\ SF_timeVars(ClockInt) /\ WF_timeVars(WakeHead) /\ WF_timeVars(ClockEnd)

-----------------------------------------------------------------------------
(* Properties *)

(* The ticks still to pass before t is due. *)
Left(t) == asked[t] - slept[t]

TimeTypeOK ==
  /\ time_q \in Seq(Task)
  /\ ticks \in [Task -> Nat]
  /\ pc \in {"idle", "scan", "clock"}
  /\ call \in [task : Task, ticks : Nat, at : Nat \ {0}]
  /\ woken \in Seq(Task)
  /\ msecs \in [Task -> Nat]
  /\ asked \in [Task -> Nat]
  /\ slept \in [Task -> Nat]

(* The differences of queue.c:110-114: however waits are started, stopped  *)
(* and woken, the head's count is what is left of its own wait and every   *)
(* other count is what is left beyond the wait of the task before it.      *)
DeltaEncoding ==
  /\ time_q # <<>> => ticks[time_q[1]] = Left(time_q[1])
  /\ \A i \in 1 .. Len(time_q) - 1 :
       ticks[time_q[i + 1]] = Left(time_q[i + 1]) - Left(time_q[i])

(* The order of the queue is the order in which its tasks are due, so that *)
(* looking at the head is enough, and a task stands in it once.            *)
DueOrder ==
  /\ NoRepetition(time_q)
  /\ \A i, j \in DOMAIN time_q : i < j => Left(time_q[i]) <= Left(time_q[j])

(* No wait ends early: a task the clock wakes has been through enough      *)
(* whole ticks to cover the milliseconds it asked for.  The interrupt that *)
(* wakes it is not counted in slept, because the first tick of a wait may  *)
(* come right after it starts.                                             *)
NeverEarly ==
  \A i \in DOMAIN woken : slept[woken[i]] * MSPERTICK >= msecs[woken[i]]

(* A wait that is not stopped ends. *)
WaitsEnd == \A t \in Task : t \in ToSet(time_q) ~> t \notin ToSet(time_q)

(* The queue of differences implements the timers.  While the clock        *)
(* interrupt is waking tasks, those it has woken are still in line.        *)
Promise == INSTANCE Timers WITH line <- woken \o time_q, wait <- asked

ImplementsTimers == Promise!Spec
=============================================================================
