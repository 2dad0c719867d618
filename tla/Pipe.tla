-------------------------------- MODULE Pipe --------------------------------
(***************************************************************************)
(* A pipe (pipe.c): a circular buffer under a monitor (monitor.c), with a  *)
(* condition for its readers and one for its writers.  Each task of        *)
(* Readers calls GetPipeTimed, and each one of Writers PutPipeTimed, over  *)
(* and over, with any number of bytes its Sizes allow and any wait.        *)
(*                                                                         *)
(* The two calls are the same program with the roles of bytes and room     *)
(* exchanged, and are written once.  The steps of a call can be            *)
(* interleaved with those of others wherever the scheduler may switch.     *)
(***************************************************************************)
EXTENDS SyncState

CONSTANTS
  Readers, Writers,
  Sizes,              \* the numbers of bytes each task asks for
  Size,               \* the size of the buffer
  Byte,
  mon, cond_get, cond_put,
  NoTask

ASSUME PipeAssumption ==
  /\ Readers \cap Writers = {} /\ Task = Readers \cup Writers
  /\ Sizes \in [Task -> SUBSET (Nat \ {0})]
  /\ Size \in Nat \ {0}
  /\ Sem = {mon} /\ Cond = {cond_get, cond_put} /\ cond_get # cond_put
  /\ NoTask \notin Task /\ Byte # {}

VARIABLES
  w,        \* the semaphore of the monitor and the queues (SyncState)
  owner,    \* monitor->owner
  buf, head, tail, avail,
  pc,       \* where each task is
  call,     \* its arguments and locals
  handed    \* history: the bytes the last copy handed over, and to whom

vars == <<w, owner, buf, head, tail, avail, pc, call, handed>>
buffer == <<buf, head, tail, avail>>

Index == 0 .. Size - 1
Nothing == [task |-> NoTask, items |-> <<>>]
NoCall == [data |-> <<>>, msecs |-> 0, success |-> FALSE, nbytes |-> 0]

\* CreatePipe
Init ==
  /\ w = [value |-> [s \in Sem |-> 1], list |-> [q \in Sem \cup Cond |-> <<>>],
          timed |-> {}, success |-> [t \in Task |-> FALSE]]
  /\ owner = NoTask
  /\ buf = [i \in Index |-> CHOOSE b \in Byte : TRUE]     \* Malloc zeroes it
  /\ head = 0 /\ tail = 0 /\ avail = 0
  /\ pc = [t \in Task |-> "idle"]
  /\ call = [t \in Task |-> NoCall]
  /\ handed = Nothing

At(t, place) == pc[t] = place /\ Runs(w, t)
GoTo(t, place) == pc' = [pc EXCEPT ![t] = place]

-----------------------------------------------------------------------------
(* What the two calls differ in.                                           *)

Available(t) == IF t \in Readers THEN avail ELSE Size - avail
MustWait(t) == Available(t) = 0
Untouched(t) == IF t \in Readers THEN avail = Size ELSE avail = 0
Own(t) == IF t \in Readers THEN cond_get ELSE cond_put
Other(t) == IF t \in Readers THEN cond_put ELSE cond_get

-----------------------------------------------------------------------------
(* EnterMonitor: WaitSem, and its way back.  The data of a reader says     *)
(* only how many bytes it asks for.                                        *)

EnterMonitor(t, data, n) ==
  /\ At(t, "idle")
  /\ w' = WaitSem(w, t, mon, FOREVER)
  /\ call' = [call EXCEPT ![t] = [NoCall EXCEPT !.data = data, !.msecs = n]]
  /\ GoTo(t, "enter")
  /\ UNCHANGED <<owner, buffer, handed>>

Entered(t) ==
  /\ At(t, "enter")
  /\ owner' = t
  /\ w' = Returned(w, t)
  /\ GoTo(t, "test")
  /\ UNCHANGED <<buffer, call, handed>>

LeaveMonitor(t) ==
  /\ At(t, "leave")
  /\ owner' = NoTask
  /\ w' = SignalSem(w, mon)
  /\ call' = [call EXCEPT ![t] = NoCall]
  /\ GoTo(t, "idle")
  /\ UNCHANGED <<buffer, handed>>

-----------------------------------------------------------------------------
(* WaitConditionTimed leaves the monitor and waits in cooperative mode:    *)
(* no other task runs in between.                                          *)

\* Faulty variant: the task leaves the monitor and only then gets to wait.
WaitConditionLate(t) ==
  \/ /\ At(t, "test") /\ MustWait(t)
     /\ owner' = NoTask
     /\ w' = SignalSem(w, mon)
     /\ GoTo(t, "wait")
     /\ UNCHANGED <<buffer, call, handed>>
  \/ /\ At(t, "wait")
     /\ w' = WaitQueue(w, t, Own(t), call[t].msecs)
     /\ GoTo(t, "woken")
     /\ UNCHANGED <<owner, buffer, call, handed>>

WaitCondition(t) ==
  /\ At(t, "test") /\ MustWait(t)
  /\ owner' = NoTask
  /\ w' = WaitQueue(SignalSem(w, mon), t, Own(t), call[t].msecs)
  /\ GoTo(t, "woken")
  /\ UNCHANGED <<buffer, call, handed>>

Woken(t) ==
  /\ At(t, "woken")
  /\ call' = [call EXCEPT ![t].success = w.success[t]]
  /\ w' = WaitSem(w, t, mon, FOREVER)
  /\ GoTo(t, "reenter")
  /\ UNCHANGED <<owner, buffer, handed>>

\* The loop of GetPipeTimed tests again after a success.
Reentered(t) ==
  /\ At(t, "reenter")
  /\ owner' = t
  /\ w' = Returned(w, t)
  /\ GoTo(t, IF call[t].success THEN "test" ELSE "leave")
  /\ UNCHANGED <<buffer, call, handed>>

-----------------------------------------------------------------------------
(* The buffer.                                                             *)

Forward(i, n) == (i + n) % Size
Offset(i) == (i - tail) % Size
Stored(n) == [i \in 1 .. n |-> buf[Forward(head, i - 1)]]

\* Faulty variant: the room is not looked at.
CopyAll(t) ==
  LET n == Len(call[t].data)
  IN  /\ At(t, "test") /\ ~ MustWait(t)
      /\ IF t \in Readers
         THEN /\ handed' = [task |-> t, items |-> Stored(n)]
              /\ head' = Forward(head, n)
              /\ UNCHANGED <<buf, tail>>
         ELSE /\ handed' = Nothing
              /\ buf' = [i \in Index |-> IF Offset(i) < n THEN call[t].data[Offset(i) + 1] ELSE buf[i]]
              /\ tail' = Forward(tail, n)
              /\ UNCHANGED head
      /\ call' = [call EXCEPT ![t].nbytes = n]
      /\ GoTo(t, "signal")
      /\ UNCHANGED <<w, owner, avail>>

\* The loop that copies what it can.
Copy(t) ==
  LET n == Min({Len(call[t].data), Available(t)})
  IN  /\ At(t, "test") /\ ~ MustWait(t)
      /\ IF t \in Readers
         THEN /\ handed' = [task |-> t, items |-> Stored(n)]
              /\ head' = Forward(head, n)
              /\ UNCHANGED <<buf, tail>>
         ELSE /\ handed' = Nothing
              /\ buf' = [i \in Index |-> IF Offset(i) < n THEN call[t].data[Offset(i) + 1] ELSE buf[i]]
              /\ tail' = Forward(tail, n)
              /\ UNCHANGED head
      /\ call' = [call EXCEPT ![t].nbytes = n]
      /\ GoTo(t, "signal")
      /\ UNCHANGED <<w, owner, avail>>

\* SignalCondition: only if nobody of the other side could have been there
\* since it began to wait.
SignalCondition(t) ==
  /\ At(t, "signal")
  /\ w' = IF Untouched(t) THEN SignalQueue(w, Other(t)) ELSE w
  /\ GoTo(t, "update")
  /\ UNCHANGED <<owner, buffer, call, handed>>

Update(t) ==
  /\ At(t, "update")
  /\ avail' = IF t \in Readers THEN avail - call[t].nbytes ELSE avail + call[t].nbytes
  /\ GoTo(t, "leave")
  /\ UNCHANGED <<w, owner, buf, head, tail, call, handed>>

TimesOutOf(t) ==
  /\ TimesOut(w, t)
  /\ w' = TimeOut(w, t)
  /\ UNCHANGED <<owner, buffer, pc, call, handed>>

-----------------------------------------------------------------------------
Data(t) ==
  UNION {IF t \in Readers THEN {[i \in 1 .. n |-> CHOOSE b \in Byte : TRUE]}
         ELSE [1 .. n -> Byte] : n \in Sizes[t]}

Call(t) == \E data \in Data(t), n \in Waits : EnterMonitor(t, data, n)

GoesOn(t) ==
  \/ Entered(t) \/ WaitCondition(t) \/ Woken(t) \/ Reentered(t)
  \/ Copy(t) \/ SignalCondition(t) \/ Update(t) \/ LeaveMonitor(t)

Next == \E t \in Task : Call(t) \/ GoesOn(t) \/ TimesOutOf(t)

Spec == Init /\ [][Next]_vars

\* A task in the middle of a call goes on: those of the same priority share
\* the CPU (RoundRobin of Kernel), and waits with a timeout end.
FairSpec == Spec /\ \A t \in Task : WF_vars(GoesOn(t)) /\ WF_vars(TimesOutOf(t))

-----------------------------------------------------------------------------
(* Properties *)

Places == {"idle", "enter", "test", "woken", "reenter", "signal", "update", "leave"}
Inside == {"test", "signal", "update", "leave"}

TypeOK ==
  /\ w \in [value : [Sem -> 0 .. 1], list : [Sem \cup Cond -> Seq(Task)],
            timed : SUBSET Task, success : [Task -> BOOLEAN]]
  /\ owner \in Task \cup {NoTask}
  /\ buf \in [Index -> Byte]
  /\ head \in Index /\ tail \in Index /\ avail \in 0 .. Size
  /\ pc \in [Task -> Places]
  /\ call \in [Task -> [data : Seq(Byte), msecs : Waits, success : BOOLEAN, nbytes : 0 .. Size]]
  /\ handed \in [task : Task \cup {NoTask}, items : Seq(Byte)]

(* One task at a time is between entering the monitor and leaving it, also *)
(* around the waits for a condition, and it is the owner, so that none of  *)
(* the Panic of monitor.c can happen.                                      *)
MutualExclusion ==
  /\ \A t \in Task : pc[t] \in Inside => owner = t
  /\ \A t \in Task :
       pc[t] \in Inside \/ (pc[t] \in {"enter", "reenter"} /\ Runs(w, t)) => w.value[mon] = 0

(* Nobody sleeps on a pipe that has what it waits for (pipe.c:45, 100):    *)
(* when no task is in the monitor or on its way to it, those that wait     *)
(* cannot go on.                                                           *)
NoLostWakeup ==
  (\A t \in Task : pc[t] = "idle" \/ (pc[t] = "woken" /\ ~ Runs(w, t))) =>
    \A t \in Task : pc[t] = "woken" => MustWait(t)

(* When it holds: SignalCondition wakes one task, and only if nobody of    *)
(* the other side could have been there since it began to wait, so that a  *)
(* task that leaves something behind leaves the others of its side asleep. *)
Side(t) == IF t \in Readers THEN Readers ELSE Writers
TakesAll == \A t \in Task : Side(t) = {t} \/ \A n \in Sizes[t] : n >= Size

(* A task that asks for the monitor gets it: it is handed over in order.   *)
EntersMonitor == \A t \in Task : pc[t] \in {"enter", "reenter"} ~> pc[t] \in Inside

(* The pipe implements the channel.  Bytes leave it and enter it when they *)
(* are copied; avail is brought up to date afterwards.                     *)
Transit == {t \in Task : pc[t] \in {"signal", "update"}}
Held ==
  LET moved(T) == IF Transit \cap T = {} THEN 0 ELSE call[CHOOSE t \in Transit \cap T : TRUE].nbytes
  IN  avail + moved(Writers) - moved(Readers)

Promise == INSTANCE Channel WITH
  Item <- Byte, Capacity <- Size, contents <- Stored(Held)

ImplementsChannel == Promise!Spec
=============================================================================
