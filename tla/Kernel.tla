-------------------------------- MODULE Kernel ------------------------------
(***************************************************************************)
(* The MTask kernel at work: tasks that call its API, the clock and a      *)
(* device that interrupt them, and the scheduler that moves the CPU among  *)
(* them (kernel.c, math.c, irq.c and the common code of interrupts.asm).   *)
(*                                                                         *)
(* There is one CPU.  An action is a stretch of code that runs with        *)
(* interrupts disabled, from DisableInts or the entry of a handler to      *)
(* RestoreInts, its end, or the context switch inside scheduler().  A task *)
(* switched out there is in switched; it goes on (Resume) once it has the  *)
(* CPU again.  A task that an interrupt takes the CPU from goes on where   *)
(* it was.  The loops of FlushQueue and clockint take one task per step,   *)
(* with interrupts disabled all through (op).                              *)
(*                                                                         *)
(* What tasks ask of the kernel is arbitrary, except that they use handles *)
(* of tasks and queues that exist: nobody has one of the null task, and    *)
(* nobody but its deleter uses a task or a queue once its deletion began.  *)
(***************************************************************************)
EXTENDS KernelState

CONSTANTS
  Uses,        \* the sets of calls that programs and devices make of it
  Delays,      \* the ticks of a Delay or a timed wait
  FOREVER,
  MaxLevel,    \* interrupt levels in use at once
  MaxNest      \* nesting of Atomic and of DisableInts in a task's own code

ASSUME KernelAssumption ==
  /\ Delays \subseteq Nat \ {0}
  /\ FOREVER \notin Nat
  /\ MaxLevel \in Nat /\ MaxNest \in Nat

VARIABLES
  calls,      \* the calls tasks make here and the interrupts that come
  k,          \* the kernel's data (KernelState)
  iflag,      \* the interrupt flag of the CPU
  eflags,     \* the interrupt flag saved on the stack of each task
  switched,   \* the tasks inside mt_context_switch
  at,         \* the call each task is in the middle of
  victim,     \* what a task inside DeleteTask or DeleteQueue deletes
  freed,      \* the queues whose memory was given back
  frames,     \* the interrupt handlers on the internal stack, innermost last
  op,         \* the loop that runs, if any
  signalled   \* history: the wait each task is in has been granted

vars == <<calls, k, iflag, eflags, switched, at, victim, freed, frames, op, signalled>>
control == <<switched, at, victim, frames, op>>

NoOp == [loop |-> "none", queue |-> NoQueue, success |-> FALSE]

int_level == Len(frames)

\* A task that somebody may name in a call, and one that may make a call.
Handle(t) ==
  /\ k.state[t] \notin {"Unborn", "Terminated", "Freed"}
  /\ t # Null
  /\ \A d \in Task : victim[d] # t

\* A queue that somebody may name.
Usable(q) == q \notin freed /\ \A d \in Task : victim[d] # q

Running(t) ==
  /\ k.curr = t /\ t # Null
  /\ t \notin switched /\ frames = <<>> /\ op = NoOp

Client(t, call) == call \in calls /\ Running(t) /\ at[t] = "client"

-----------------------------------------------------------------------------
(* The state in which mt_main calls the shell: the main task runs and the  *)
(* null task is ready.  The keyboard's task has had the CPU once, so the   *)
(* TS bit is up.                                                           *)

Boot ==
  [state |-> [t \in Task |-> CASE t = Main -> "Current" [] t = Null -> "Ready" [] OTHER -> "Unborn"],
   prio |-> [t \in Task |-> IF t = Main THEN DEFAULT_PRIO ELSE MIN_PRIO],
   queue |-> [t \in Task |-> IF t = Null THEN ReadyQ ELSE NoQueue],
   list |-> [q \in Queue |-> IF q = ReadyQ THEN <<Null>> ELSE <<>>],
   time_q |-> <<>>,
   left |-> [t \in Task |-> 0],
   success |-> [t \in Task |-> FALSE],
   from |-> [t \in Task |-> NoTask],
   atomic |-> [t \in Task |-> 0],
   disint |-> [t \in Task |-> 0],
   curr |-> Main, run |-> QUANTUM, fpu |-> NoTask, ts |-> TRUE, math |-> {}]

Init ==
  /\ calls \in Uses
  /\ k = Boot
  /\ iflag = TRUE
  /\ eflags = [t \in Task |-> TRUE]     \* INIFL
  /\ switched = {}
  /\ at = [t \in Task |-> "client"]
  /\ victim = [t \in Task |-> NoTask] /\ freed = {}
  /\ frames = <<>>
  /\ op = NoOp
  /\ signalled = [t \in Task |-> FALSE]

-----------------------------------------------------------------------------
(* The ends of a call of the current task t that has interrupts disabled   *)
(* and has made the kernel's data d.                                       *)

\* RestoreInts alone: the level is back where DisableInts found it.
Return(t, d) ==
  /\ k' = d
  /\ iflag' = (iflag \/ k.disint[t] = 0)
  /\ UNCHANGED <<eflags, switched>>

\* scheduler() and RestoreInts.  If the task loses the CPU its flags are
\* saved with interrupts disabled and RestoreInts is still to come.
Reschedule(t, d) ==
  LET s == Select(d)
  IN  \/ s.curr = t /\ Return(t, s)
      \/ /\ s.curr # t
         /\ k' = [s EXCEPT !.disint[t] = @ + 1]
         /\ eflags' = [eflags EXCEPT ![t] = FALSE]
         /\ iflag' = eflags[s.curr]
         /\ switched' = switched \cup {t}

Grant(t, granted) == signalled' = [signalled EXCEPT ![t] = granted]

\* Faulty variant: interrupts are enabled at any level.
ResumeEnables(t) ==
  /\ k.curr = t /\ t \in switched /\ frames = <<>> /\ op = NoOp
  /\ switched' = switched \ {t}
  /\ k' = [k EXCEPT !.disint[t] = @ - 1]
  /\ iflag' = TRUE
  /\ at' = [at EXCEPT ![t] = IF @ \in {"wait", "send", "receive"} THEN "client" ELSE @]
  /\ Grant(t, FALSE)
  /\ UNCHANGED <<eflags, victim, frames, op>>

\* The context switch returns into t, which leaves scheduler() behind.
Resume(t) ==
  /\ k.curr = t /\ t \in switched /\ frames = <<>> /\ op = NoOp
  /\ switched' = switched \ {t}
  /\ k' = [k EXCEPT !.disint[t] = @ - 1]
  /\ iflag' = (iflag \/ k.disint[t] = 1)
  /\ at' = [at EXCEPT ![t] = IF @ \in {"wait", "send", "receive"} THEN "client" ELSE @]
  /\ Grant(t, FALSE)
  /\ UNCHANGED <<eflags, victim, frames, op>>

-----------------------------------------------------------------------------
(* Calls on tasks *)

\* Malloc and Free end with an Unatomic, which calls the scheduler when it
\* brings the level to zero.
AfterAtomic(t, d) == IF k.atomic[t] = 0 THEN Reschedule(t, d) ELSE Return(t, d)

\* CreateTask: each Malloc frees the terminated tasks.  The three it calls
\* are one step: nobody else has the handle of the task yet.
CreateTask(t, u, p) ==
  LET d == [FreeTerminated(k) EXCEPT
              !.state[u] = "Suspended", !.prio[u] = p]
  IN  /\ Client(t, "create")
      /\ k.state[u] = "Unborn"
      /\ AfterAtomic(t, d)
      /\ UNCHANGED <<at, victim, frames, op, signalled>>

Suspend(t, u) ==
  /\ Client(t, "suspend") /\ Handle(u)
  /\ LET d == Block(k, u, "Suspended")
     IN  IF u = t THEN Reschedule(t, d) ELSE Return(t, d)
  /\ UNCHANGED <<at, victim, frames, op, signalled>>

\* Ready, and Yield when u is t.  calls tells apart what it is used for.
Use(t, u) ==
  IF u = t THEN "yield" ELSE IF k.state[u] = "Suspended" THEN "start" ELSE "ready"

Ready(t, u) ==
  /\ Client(t, Use(t, u)) /\ Handle(u)
  /\ Reschedule(t, MakeReady(k, u, FALSE))
  /\ UNCHANGED <<at, victim, frames, op, signalled>>

\* Faulty variant: the task keeps its place in the queue it is in.
SetPriorityInPlace(t, u, p) ==
  /\ Client(t, "setprio") /\ Handle(u)
  /\ LET d == [k EXCEPT !.prio[u] = p]
     IN  IF u = t \/ k.state[u] = "Ready" THEN Reschedule(t, d) ELSE Return(t, d)
  /\ UNCHANGED <<at, victim, frames, op, signalled>>

SetPriority(t, u, p) ==
  /\ Client(t, "setprio") /\ Handle(u)
  /\ LET q == k.queue[u]
         d == [Dequeue(k, u) EXCEPT !.prio[u] = p]
         e == IF q = NoQueue THEN d ELSE Enqueue(d, u, q)
     IN  IF u = t \/ k.state[u] = "Ready" THEN Reschedule(t, e) ELSE Return(t, e)
  /\ UNCHANGED <<at, victim, frames, op, signalled>>

Timed(d, t, n) == IF n = FOREVER THEN d ELSE EnqueueTime(d, t, n)

Delay(t, n) ==
  /\ Client(t, "delay")
  /\ Reschedule(t, IF n = 0 THEN MakeReady(k, t, FALSE)
                   ELSE Timed(Block(k, t, "Delaying"), t, n))
  /\ UNCHANGED <<at, victim, frames, op, signalled>>

Atomic(t) ==
  /\ Client(t, "atomic") /\ k.atomic[t] < MaxNest
  /\ k' = [k EXCEPT !.atomic[t] = @ + 1]
  /\ UNCHANGED <<iflag, eflags, control, signalled>>

\* Faulty variant: no rescheduling at the end of the section.
UnatomicQuietly(t) ==
  /\ Client(t, "atomic") /\ k.atomic[t] > 0
  /\ k' = [k EXCEPT !.atomic[t] = @ - 1]
  /\ UNCHANGED <<iflag, eflags, control, signalled>>

Unatomic(t) ==
  /\ Client(t, "atomic") /\ k.atomic[t] > 0
  /\ LET d == [k EXCEPT !.atomic[t] = @ - 1]
     IN  IF d.atomic[t] = 0 THEN Reschedule(t, d)
         ELSE k' = d /\ UNCHANGED <<iflag, eflags, switched>>
  /\ UNCHANGED <<at, victim, frames, op, signalled>>

\* DisableInts and RestoreInts in the task's own code.
DisableInts(t) ==
  /\ Client(t, "disable") /\ k.disint[t] < MaxNest
  /\ k' = [k EXCEPT !.disint[t] = @ + 1]
  /\ iflag' = IF k.disint[t] = 0 THEN FALSE ELSE iflag
  /\ UNCHANGED <<eflags, control, signalled>>

RestoreInts(t) ==
  /\ Client(t, "disable") /\ k.disint[t] > 0
  /\ k' = [k EXCEPT !.disint[t] = @ - 1]
  /\ iflag' = (iflag \/ k.disint[t] = 1)
  /\ UNCHANGED <<eflags, control, signalled>>

-----------------------------------------------------------------------------
(* Queues *)

WaitQueue(t, q, n) ==
  /\ Client(t, "wait") /\ Usable(q)
  /\ Reschedule(t, Timed(Enqueue(Block(k, t, "Waiting"), t, q), t, n))
  /\ at' = [at EXCEPT ![t] = "wait"]
  /\ Grant(t, FALSE)
  /\ UNCHANGED <<victim, frames, op>>

SignalQueue(t, q) ==
  /\ Client(t, "signal") /\ Usable(q)
  /\ k.list[q] # <<>>       \* a signal nobody waits for does nothing
  /\ LET u == PeekLast(k, q)
     IN  Reschedule(t, MakeReady(GetLast(k, q), u, TRUE)) /\ Grant(u, TRUE)
  /\ UNCHANGED <<at, victim, frames, op>>

\* FlushQueue, which has nothing to do on an empty queue.
FlushQueue(t, q, ok) ==
  /\ Client(t, "flush") /\ Usable(q)
  /\ k.list[q] # <<>>
  /\ op' = [loop |-> "flush", queue |-> q, success |-> ok]
  /\ iflag' = FALSE
  /\ UNCHANGED <<k, eflags, switched, at, victim, frames, signalled>>

FlushNext ==
  /\ op.loop = "flush"
  /\ k.list[op.queue] # <<>>
  /\ LET u == PeekLast(k, op.queue)
     IN  /\ k' = MakeReady(GetLast(k, op.queue), u, op.success)
         /\ Grant(u, op.success)
  /\ UNCHANGED <<iflag, eflags, control>>

FlushEnd ==
  /\ op.loop = "flush"
  /\ k.list[op.queue] = <<>>
  /\ Reschedule(k.curr, k)
  /\ op' = NoOp
  /\ UNCHANGED <<at, victim, frames, signalled>>

\* DeleteQueue flushes the queue and gives its memory back in a step of its
\* own: in between the tasks it woke may run.
DeleteQueue(t, q) ==
  /\ Client(t, "queues") /\ Usable(q)
  /\ victim' = [victim EXCEPT ![t] = q]
  /\ at' = [at EXCEPT ![t] = "emptied"]
  /\ IF k.list[q] = <<>> THEN UNCHANGED <<op, iflag>>
     ELSE op' = [loop |-> "flush", queue |-> q, success |-> FALSE] /\ iflag' = FALSE
  /\ UNCHANGED <<k, eflags, switched, frames, signalled>>

FreeQueue(t) ==
  /\ Running(t) /\ at[t] = "emptied"
  /\ freed' = freed \cup {victim[t]}
  /\ victim' = [victim EXCEPT ![t] = NoTask]
  /\ at' = [at EXCEPT ![t] = "client"]
  /\ AfterAtomic(t, k)
  /\ UNCHANGED <<frames, op, signalled>>

CreateQueue(t, q) ==
  /\ Client(t, "queues")
  /\ q \in freed /\ freed' = freed \ {q}
  /\ AfterAtomic(t, FreeTerminated(k))
  /\ UNCHANGED <<at, victim, frames, op, signalled>>

-----------------------------------------------------------------------------
(* Messages: what is kept of a message is who sent it. *)

\* Faulty variant: only a receiver that named the sender.
AwaitsByName(u, t) == k.state[u] = "Receiving" /\ k.from[u] = t

Awaits(u, t) == k.state[u] = "Receiving" /\ k.from[u] \in {NoTask, t}

\* SendTimed, with the receiver ready for it and without.
Send(t, u) ==
  /\ Client(t, "send") /\ Handle(u)
  /\ Awaits(u, t)
  /\ Reschedule(t, MakeReady([k EXCEPT !.from[u] = t], u, TRUE))
  /\ Grant(u, TRUE)
  /\ UNCHANGED <<at, victim, frames, op>>

SendWait(t, u, n) ==
  /\ Client(t, "send") /\ Handle(u)
  /\ ~ Awaits(u, t)
  /\ Reschedule(t, Timed(Enqueue([k EXCEPT !.state[t] = "Sending"], t, u), t, n))
  /\ at' = [at EXCEPT ![t] = "send"]
  /\ Grant(t, FALSE)
  /\ UNCHANGED <<victim, frames, op>>

\* The sender ReceiveTimed finds waiting; from = NoTask asks for any.
Senders(t, from) ==
  IF from # NoTask THEN {s \in {from} : k.queue[s] = t}
  ELSE IF k.list[t] = <<>> THEN {} ELSE {PeekLast(k, t)}

Receive(t, from) ==
  /\ Client(t, "receive") /\ (from # NoTask => Handle(from))
  /\ \E s \in Senders(t, from) : Reschedule(t, MakeReady(k, s, TRUE)) /\ Grant(s, TRUE)
  /\ UNCHANGED <<at, victim, frames, op>>

ReceiveWait(t, from, n) ==
  /\ Client(t, "receive") /\ (from # NoTask => Handle(from))
  /\ Senders(t, from) = {}
  /\ Reschedule(t, Timed([k EXCEPT !.from[t] = from, !.state[t] = "Receiving"], t, n))
  /\ at' = [at EXCEPT ![t] = "receive"]
  /\ Grant(t, FALSE)
  /\ UNCHANGED <<victim, frames, op>>

-----------------------------------------------------------------------------
(* DeleteTask, and Exit when u is t.  FlushQueue on the send queue runs    *)
(* first, then the coprocessor is taken from the task, and only then do    *)
(* interrupts stay disabled until the task is gone.                        *)

\* Faulty variant: the send queue is left as it is.
DeleteTaskForgets(t, u) ==
  /\ Client(t, "delete") /\ Handle(u) /\ u # Main
  /\ victim' = [victim EXCEPT ![t] = u]
  /\ at' = [at EXCEPT ![t] = "flushed"]
  /\ UNCHANGED <<k, iflag, eflags, switched, frames, op, signalled>>

DeleteTask(t, u) ==
  /\ Client(t, "delete") /\ Handle(u) /\ u # Main
  /\ victim' = [victim EXCEPT ![t] = u]
  /\ at' = [at EXCEPT ![t] = "flushed"]
  /\ IF k.list[u] = <<>> THEN UNCHANGED <<op, iflag>>
     ELSE op' = [loop |-> "flush", queue |-> u, success |-> FALSE] /\ iflag' = FALSE
  /\ UNCHANGED <<k, eflags, switched, frames, signalled>>

ReleaseFpu(t) ==
  /\ Running(t) /\ at[t] = "flushed"
  /\ k' = [k EXCEPT !.fpu = IF @ = victim[t] THEN NoTask ELSE @]
  /\ at' = [at EXCEPT ![t] = "released"]
  /\ UNCHANGED <<iflag, eflags, switched, victim, frames, op, signalled>>

\* Faulty variant: the task is freed in whatever queue it is.
TerminateInPlace(t) ==
  /\ Running(t) /\ at[t] = "released"
  /\ IF victim[t] = t
     THEN Reschedule(t, Enqueue([k EXCEPT !.state[t] = "Terminated"], t, TerminatedQ))
     ELSE Return(t, [k EXCEPT !.state[victim[t]] = "Freed"])
  /\ at' = [at EXCEPT ![t] = "client"]
  /\ victim' = [victim EXCEPT ![t] = NoTask, ![victim[t]] = NoTask]
  /\ UNCHANGED <<frames, op, signalled>>

Terminate(t) ==
  /\ Running(t) /\ at[t] = "released"
  /\ IF victim[t] = t
     THEN Reschedule(t, Enqueue([k EXCEPT !.state[t] = "Terminated"], t, TerminatedQ))
     ELSE Return(t, Block(k, victim[t], "Freed"))
  /\ at' = [at EXCEPT ![t] = "client"]
  /\ victim' = [victim EXCEPT ![t] = NoTask, ![victim[t]] = NoTask]
  /\ UNCHANGED <<frames, op, signalled>>

-----------------------------------------------------------------------------
(* A coprocessor instruction.  With the TS bit up it raises exception 7:   *)
(* math_handler hands the coprocessor over, Malloc for the state of the    *)
(* last owner frees the terminated tasks, and the way out of the exception *)
(* selects a task.  That Malloc may enable interrupts in the middle.  It   *)
(* is one step all the same: an interrupt taken there switches no task and *)
(* does not look at the coprocessor, as one does not that comes just after.*)

UseFpu(t) ==
  LET saves == k.fpu # NoTask
      m == IF saves /\ k.fpu \notin k.math
           THEN [FreeTerminated(k) EXCEPT !.math = @ \cup {k.fpu}] ELSE k
      s == Select([m EXCEPT !.ts = FALSE, !.fpu = t])
  IN  /\ Client(t, "fpu") /\ k.ts
      /\ k' = s
      /\ eflags' = [eflags EXCEPT ![t] = iflag]
      /\ iflag' = eflags'[s.curr]
      /\ UNCHANGED <<control, signalled>>

-----------------------------------------------------------------------------
(* Interrupts.  All gates disable interrupts; the clock has the highest    *)
(* priority in the interrupt controller, and an interrupt in service holds *)
(* back those of its priority and below until eoi().                       *)

\* The way out of common_handler: the outermost one selects a task.
IntExit(fs, d) ==
  /\ frames' = Front(fs)
  /\ IF Len(fs) = 1
     THEN LET s == Select(d) 
          IN  /\ k' = s
              /\ eflags' = [eflags EXCEPT ![k.curr] = TRUE]
              /\ iflag' = eflags'[s.curr]
     ELSE k' = d /\ iflag' = TRUE /\ UNCHANGED eflags

ClockInt ==
  /\ "clock" \in calls
  /\ iflag /\ op = NoOp /\ int_level < MaxLevel
  /\ iflag' = FALSE
  /\ frames' = Append(frames, "clock")
  /\ op' = [NoOp EXCEPT !.loop = "clock"]
  /\ k' = [k EXCEPT !.run = IF @ > 0 THEN @ - 1 ELSE 0]
  /\ UNCHANGED <<eflags, switched, at, victim, signalled>>

HeadIsDue == k.time_q # <<>> /\ k.left[Head(k.time_q)] = 0

WakeHead ==
  /\ op.loop = "clock"
  /\ HeadIsDue
  /\ LET t == Head(k.time_q)
     IN  k' = MakeReady([k EXCEPT !.time_q = Tail(@)], t, FALSE)
  /\ UNCHANGED <<iflag, eflags, control, signalled>>

\* Faulty variant: the count of the head is not decremented.
ClockEndStuck ==
  /\ op.loop = "clock"
  /\ ~ HeadIsDue
  /\ IntExit(frames, k)
  /\ op' = NoOp
  /\ UNCHANGED <<switched, at, victim, signalled>>

ClockEnd ==
  /\ op.loop = "clock"
  /\ ~ HeadIsDue
  /\ IntExit(frames, [k EXCEPT !.left = [t \in Task |->
                        IF t \in ToSet(k.time_q) THEN @[t] - 1 ELSE @[t]]])
  /\ op' = NoOp
  /\ UNCHANGED <<switched, at, victim, signalled>>

\* A device handler that signals a queue, as kbdint does through
\* PutMsgQueueCond.  The RestoreInts of SignalQueue enables interrupts.
DeviceInt(q) ==
  /\ "device" \in calls /\ Usable(q)
  /\ iflag /\ op = NoOp /\ int_level < MaxLevel
  /\ \A i \in DOMAIN frames : frames[i] = "served"
  /\ frames' = Append(frames, "device")
  /\ IF k.list[q] = <<>> THEN UNCHANGED <<k, signalled>>
     ELSE LET t == PeekLast(k, q)
          IN  k' = MakeReady(GetLast(k, q), t, TRUE) /\ Grant(t, TRUE)
  /\ iflag' = (k.disint[k.curr] = 0)
  /\ UNCHANGED <<eflags, switched, at, victim, op>>

DeviceEoi ==
  /\ op = NoOp /\ frames # <<>> /\ Last(frames) = "device"
  /\ frames' = Append(Front(frames), "served")
  /\ UNCHANGED <<k, iflag, eflags, switched, at, victim, op, signalled>>

DeviceEnd ==
  /\ op = NoOp /\ frames # <<>> /\ Last(frames) = "served"
  /\ IntExit(frames, k)
  /\ UNCHANGED <<switched, at, victim, op, signalled>>

-----------------------------------------------------------------------------
Waits == Delays \cup {FOREVER}

TaskCall(t) ==
  \/ \E u \in Task :
       \/ \E p \in Priority : CreateTask(t, u, p) \/ SetPriority(t, u, p)
       \/ Suspend(t, u) \/ Ready(t, u) \/ DeleteTask(t, u)
       \/ Send(t, u)
       \/ \E n \in Waits : SendWait(t, u, n)
  \/ \E n \in Waits \cup {0} : Delay(t, n)
  \/ \E q \in WaitQ :
       \/ \E n \in Waits : WaitQueue(t, q, n)
       \/ SignalQueue(t, q) \/ DeleteQueue(t, q)
       \/ \E ok \in BOOLEAN : FlushQueue(t, q, ok)
  \/ \E from \in Task \cup {NoTask} :
       \/ Receive(t, from)
       \/ \E n \in Waits : ReceiveWait(t, from, n)
  \/ Atomic(t) \/ Unatomic(t) \/ DisableInts(t) \/ RestoreInts(t) \/ UseFpu(t)

\* What goes on by itself once it has begun.
GoesOn(t) ==
  \/ (Resume(t) \/ ReleaseFpu(t) \/ Terminate(t)) /\ UNCHANGED <<calls, freed>>
  \/ FreeQueue(t) /\ UNCHANGED calls
KernelStep ==
  (FlushNext \/ FlushEnd \/ WakeHead \/ ClockEnd \/ DeviceEoi \/ DeviceEnd) /\ UNCHANGED <<calls, freed>>
TimerInt == ClockInt /\ UNCHANGED <<calls, freed>>

Next ==
  \/ \E t \in Task : (TaskCall(t) /\ UNCHANGED <<calls, freed>>) \/ GoesOn(t)
  \/ \E t \in Task, q \in WaitQ : CreateQueue(t, q) /\ UNCHANGED calls
  \/ KernelStep
  \/ TimerInt
  \/ \E q \in WaitQ : DeviceInt(q) /\ UNCHANGED <<calls, freed>>

Spec == Init /\ [][Next]_vars

(* Code that runs with interrupts disabled, and the handlers, run to their *)
(* end; a task that has the CPU uses it; and the timer is periodic, so an  *)
(* interrupt of the clock comes again and again unless tasks keep them     *)
(* disabled.                                                               *)
FairSpec ==
  /\ Spec
  /\ WF_vars(KernelStep)
  /\ \A t \in Task : WF_vars(GoesOn(t))
  /\ SF_vars(TimerInt)

-----------------------------------------------------------------------------
(* Properties *)

TypeOK ==
  /\ calls \in Uses
  /\ k \in Records
  /\ iflag \in BOOLEAN
  /\ eflags \in [Task -> BOOLEAN]
  /\ switched \subseteq Task
  /\ at \in [Task -> {"client", "wait", "send", "receive", "flushed", "released", "emptied"}]
  /\ victim \in [Task -> Task \cup WaitQ \cup {NoTask}] /\ freed \subseteq WaitQ
  /\ frames \in Seq({"clock", "device", "served"})
  /\ op \in [loop : {"none", "flush", "clock"}, queue : Queue \cup {NoQueue}, success : BOOLEAN]
  /\ signalled \in [Task -> BOOLEAN]

(* The queue field of a task names the one list the task is linked in, and *)
(* every list is kept by priority whatever SetPriority does (MTask.html:   *)
(* 340-346).                                                               *)
QueuesAgree ==
  /\ \A t \in Task, q \in Queue : t \in ToSet(k.list[q]) <=> k.queue[t] = q
  /\ \A q \in Queue : NoRepetition(k.list[q]) /\ IsOrdered(k.list[q], k.prio)
  /\ NoRepetition(k.time_q) /\ IsOrdered(k.time_q, k.left)

(* Where the tasks of each state are (MTask.html:364-394): one task is     *)
(* current and it is mt_curr_task, and any other is in the queue of its    *)
(* state; a task that no timed wait holds is not in the time queue.        *)
StatesAgree ==
  /\ \A t \in Task :
       /\ k.state[t] = "Current" <=> t = k.curr
       /\ k.state[t] = "Ready" <=> k.queue[t] = ReadyQ
       /\ k.state[t] = "Terminated" <=> k.queue[t] = TerminatedQ
       /\ k.state[t] = "Waiting" <=> k.queue[t] \in WaitQ
       /\ k.state[t] = "Sending" <=> k.queue[t] \in Task
  /\ \A t \in ToSet(k.time_q) : k.state[t] \in {"Delaying", "Waiting", "Sending", "Receiving"}
  /\ k.state[Null] \in {"Ready", "Current"}

(* Whenever a task's own code runs in preemptive mode, no task of higher   *)
(* priority is ready, nor one of the same priority once the time slice is  *)
(* over: a wakeup inside an interrupt, an Atomic section or a call has     *)
(* been made up for by then.                                               *)
PriorityScheduling ==
  frames = <<>> /\ op = NoOp /\ k.atomic[k.curr] = 0 =>
    \A r \in Task : k.state[r] = "Ready" =>
      IF k.run > 0 THEN k.prio[r] <= k.prio[k.curr] ELSE k.prio[r] < k.prio[k.curr]

(* Interrupts are enabled in a task's code exactly when its own nesting    *)
(* level of DisableInts is zero, whatever other tasks did with theirs      *)
(* (MTask.html:564-567), and so they are in the flags that wait for it on  *)
(* its stack.                                                              *)
InterruptFlag ==
  /\ frames = <<>> /\ op = NoOp => (iflag <=> k.disint[k.curr] = 0)
  /\ \A t \in Task : t # k.curr => (eflags[t] <=> k.disint[t] = 0)
  /\ frames # <<>> => k.disint[k.curr] = 0

(* A blocking call returns true only if its wait was granted by a signal,  *)
(* a flush with true or the other end of a rendezvous, and not if it timed *)
(* out or was cut short by Ready (MTask.html:449-454).                     *)
TrueMeansGranted ==
  \A t \in switched :
    at[t] \in {"wait", "send", "receive"} /\ k.state[t] \in {"Ready", "Current"} /\ k.success[t]
      => signalled[t]

(* A receiver and a sender that match are never both left waiting          *)
(* (MTask.html:478-484).                                                   *)
RendezvousMeets ==
  \A s, r \in Task :
    k.state[s] = "Sending" /\ k.queue[s] = r /\ k.state[r] = "Receiving" =>
      k.from[r] \notin {NoTask, s}

(* Nobody is left in a queue that is gone: the send queue of a task that   *)
(* ended, or a queue whose memory was given back.  Both are flushed some   *)
(* steps before (kernel.c:208, 458), and others run in between.            *)
Gone == {t \in Task : k.state[t] \in {"Terminated", "Freed"}} \cup freed
NobodyStranded == \A q \in Gone : k.list[q] = <<>>

(* The TS bit is down only while the task that owns the coprocessor has    *)
(* the CPU, so that no other can change its registers (MTask.html:605-621).*)
LazyFpu ==
  frames = <<>> /\ ~ k.ts => k.fpu = k.curr \/ at[k.curr] = "released"

(* A task in cooperative mode loses the CPU only by what it calls itself:  *)
(* it blocks, suspends, ends or yields (MTask.html:546-548).               *)
Yields(t) == Ready(t, t) \/ Delay(t, 0)

KeepsOrYields(t) ==
  k'.curr # t => k'.state[t] # "Ready" \/ Yields(t)

AtomicKeepsCPU ==
  [][k.atomic[k.curr] > 0 /\ k'.atomic[k.curr] > 0 => KeepsOrYields(k.curr)]_vars

(* A task that enters a queue goes behind those of its priority, and they  *)
(* stay in the order they came in while their priorities are not set       *)
(* (MTask.html:340-346).                                                   *)
Behind(d, q, u, t) == Place(d.list[q], u) < Place(d.list[q], t)

FirstComeFirst ==
  [][\A q \in Queue : \A t, u \in ToSet(k'.list[q]) :
       /\ t # u /\ t \in ToSet(k.list[q])
       /\ u \in ToSet(k.list[q]) => Behind(k, q, u, t)
       /\ k'.prio[t] = k'.prio[u]
       /\ ~ \E c \in Task, p \in Priority : SetPriority(c, t, p)
       => Behind(k', q, u, t)]_vars

(* Nobody waits longer than it asked for: a task leaves the time queue.    *)
TimedWaitsEnd == \A t \in Task : t \in ToSet(k.time_q) ~> t \notin ToSet(k.time_q)

(* The tasks of the highest priority share the CPU: none of them stays     *)
(* ready for ever.                                                         *)
Outranked(t) == \E u \in Task : k.state[u] \in {"Ready", "Current"} /\ k.prio[u] > k.prio[t]

RoundRobin ==
  \A t \in Task : []<>(k.state[t] = "Ready" => Outranked(t) \/ k.atomic[k.curr] > 0)
=============================================================================
