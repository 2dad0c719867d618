----------------------------- MODULE KernelState ----------------------------
(***************************************************************************)
(* The kernel's data and the operations on it that kernel.c builds its     *)
(* calls from: the task queues of queue.c, block(), ready() and            *)
(* mt_select_task().  The data is one record k, so that an operation is an *)
(* operator from k to the next k:                                          *)
(*                                                                         *)
(*   state, prio, queue, success, from, atomic, disint                     *)
(*             the fields of the same name of every Task_t                 *)
(*   list      the tasks of every queue, head (least priority) first       *)
(*   time_q    the tasks of the time queue, first one due first            *)
(*   left      the clock interrupts left before each of them is due (zero  *)
(*             for a task out of the time queue)                           *)
(*   curr      mt_curr_task                                                *)
(*   run       ticks_to_run                                                *)
(*   fpu, ts   mt_fpu_task, and the TS bit of CR0                          *)
(*   math      the tasks whose math_data is allocated                      *)
(*                                                                         *)
(* left holds the absolute counts that the differences of the time queue   *)
(* stand for: TimeQueue shows that the two are the same.                   *)
(*                                                                         *)
(* The send queue of a task is named by the task.  A task slot is "Unborn" *)
(* until CreateTask hands it out and "Freed" once its memory is returned;  *)
(* memory is not handed out twice.                                         *)
(***************************************************************************)
EXTENDS OrderedQueue

CONSTANTS
  Task,         \* every task there will ever be
  Main, Null,   \* the main task, and the null task of do_nothing
  WaitQ,        \* the queues made with CreateQueue
  ReadyQ, TerminatedQ,
  NoQueue, NoTask,
  Priority,     \* the priorities in use
  DEFAULT_PRIO,
  QUANTUM       \* the ticks of a time slice

MIN_PRIO == 0

Queue == Task \cup WaitQ \cup {ReadyQ, TerminatedQ}

TaskState ==
  {"Suspended", "Ready", "Current", "Delaying", "Waiting", "Sending",
   "Receiving", "Terminated", "Unborn", "Freed"}

ASSUME KernelStateAssumption ==
  /\ Main \in Task /\ Null \in Task /\ Main # Null
  /\ WaitQ \cap Task = {}
  /\ ReadyQ \notin Task \cup WaitQ
  /\ TerminatedQ \notin Task \cup WaitQ \cup {ReadyQ}
  /\ NoQueue \notin Queue
  /\ NoTask \notin Queue        \* NULL is nobody's address
  /\ Priority \subseteq Nat
  /\ MIN_PRIO \in Priority /\ DEFAULT_PRIO \in Priority
  /\ QUANTUM \in Nat \ {0}

\* The kernel's data.
Records ==
  [state : [Task -> TaskState], prio : [Task -> Priority],
   queue : [Task -> Queue \cup {NoQueue}], list : [Queue -> Seq(Task)],
   time_q : Seq(Task), left : [Task -> Nat],
   success : [Task -> BOOLEAN], from : [Task -> Task \cup {NoTask}],
   atomic : [Task -> Nat], disint : [Task -> Nat],
   curr : Task, run : 0 .. QUANTUM, fpu : Task \cup {NoTask}, ts : BOOLEAN,
   math : SUBSET Task]

-----------------------------------------------------------------------------
(* queue.c *)

Enqueue(k, t, q) ==
  [k EXCEPT !.list[q] = OrderedInsert(@, k.prio, t, k.prio[t]),
            !.queue[t] = q]

Dequeue(k, t) ==
  IF k.queue[t] = NoQueue THEN k
  ELSE [k EXCEPT !.list[k.queue[t]] = Unlink(@, t),
                 !.queue[t] = NoQueue]

\* mt_peeklast and mt_getlast, on a queue that is not empty.
PeekLast(k, q) == Last(k.list[q])

GetLast(k, q) ==
  [k EXCEPT !.list[q] = Front(@),
            !.queue[PeekLast(k, q)] = NoQueue]

EnqueueTime(k, t, n) ==
  [k EXCEPT !.time_q = OrderedInsert(@, k.left, t, n),
            !.left[t] = n]

DequeueTime(k, t) ==
  IF t \in ToSet(k.time_q) THEN [k EXCEPT !.time_q = Unlink(@, t), !.left[t] = 0] ELSE k

-----------------------------------------------------------------------------
(* kernel.c *)

Block(k, t, s) == [DequeueTime(Dequeue(k, t), t) EXCEPT !.state[t] = s]

\* Faulty variants: an earlier success is kept, and a task that was in a
\* timed wait stays in the time queue.
MakeReadyKeepsStatus(k, t, ok) ==
  IF k.state[t] = "Ready" THEN k
  ELSE [Enqueue(DequeueTime(Dequeue(k, t), t), t, ReadyQ)
          EXCEPT !.success[t] = @ \/ ok, !.state[t] = "Ready"]

MakeReadyStaysTimed(k, t, ok) ==
  IF k.state[t] = "Ready" THEN k
  ELSE [Enqueue(Dequeue(k, t), t, ReadyQ) EXCEPT !.success[t] = ok, !.state[t] = "Ready"]

MakeReady(k, t, ok) ==
  IF k.state[t] = "Ready" THEN k
  ELSE [Enqueue(DequeueTime(Dequeue(k, t), t), t, ReadyQ)
          EXCEPT !.success[t] = ok, !.state[t] = "Ready"]

\* Faulty variants: no cooperative mode, and no time slices.
KeepsCPUNeverAtomic(k) ==
  /\ k.state[k.curr] = "Current"
  /\ \/ k.list[ReadyQ] = <<>>
     \/ k.prio[PeekLast(k, ReadyQ)] < k.prio[k.curr]
     \/ k.prio[PeekLast(k, ReadyQ)] = k.prio[k.curr] /\ k.run > 0

KeepsCPUForGood(k) ==
  /\ k.state[k.curr] = "Current"
  /\ \/ k.atomic[k.curr] > 0
     \/ k.list[ReadyQ] = <<>>
     \/ k.prio[PeekLast(k, ReadyQ)] <= k.prio[k.curr]

\* Whether mt_select_task leaves the CPU to the current task.
KeepsCPU(k) ==
  /\ k.state[k.curr] = "Current"
  /\ \/ k.atomic[k.curr] > 0
     \/ k.list[ReadyQ] = <<>>
     \/ k.prio[PeekLast(k, ReadyQ)] < k.prio[k.curr]
     \/ k.prio[PeekLast(k, ReadyQ)] = k.prio[k.curr] /\ k.run > 0

\* Faulty variant: the TS bit is left as it is.
TakeNextKeepsTS(k) ==
  LET next == PeekLast(k, ReadyQ)
  IN  [GetLast(k, ReadyQ) EXCEPT
         !.curr = next,
         !.state[next] = "Current",
         !.run = IF next = k.curr THEN @ ELSE QUANTUM]

\* The rest of mt_select_task, once the current task is out of the CPU.
TakeNext(k) ==
  LET next == PeekLast(k, ReadyQ)
  IN  [GetLast(k, ReadyQ) EXCEPT
         !.curr = next,
         !.state[next] = "Current",
         !.ts = IF next = k.curr THEN @ ELSE next # k.fpu,
         !.run = IF next = k.curr THEN @ ELSE QUANTUM]

Select(k) ==
  IF KeepsCPU(k) THEN k
  ELSE TakeNext(IF k.state[k.curr] = "Current" THEN MakeReady(k, k.curr, FALSE) ELSE k)

\* free_terminated: free_task on every task of terminated_q.
FreeTerminated(k) ==
  LET gone == ToSet(k.list[TerminatedQ])
  IN  [k EXCEPT
         !.list[TerminatedQ] = <<>>,
         !.queue = [t \in Task |-> IF t \in gone THEN NoQueue ELSE @[t]],
         !.state = [t \in Task |-> IF t \in gone THEN "Freed" ELSE @[t]]]
=============================================================================
