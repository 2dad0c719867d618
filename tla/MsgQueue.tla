------------------------------ MODULE MsgQueue ------------------------------
(***************************************************************************)
(* A message queue (msgqueue.c): a circular buffer of msg_max messages,    *)
(* one semaphore that counts messages and one that counts free places,     *)
(* and, if it was asked for, a mutex (mutex.c) for those that get messages *)
(* and one for those that put them.                                        *)
(*                                                                         *)
(* Getting and putting are the same program over different semaphores and  *)
(* are written once.  A device may put messages too, from its interrupt    *)
(* handler, as kbdint does; a handler does not wait (PutMsgQueueCond), and *)
(* no task runs before it ends.                                            *)
(***************************************************************************)
EXTENDS SyncState, FiniteSets

CONSTANTS
  Getters, Putters,      \* the tasks that may use the queue
  Device,
  msg_max,
  Msg,
  sem_get, sem_put, mutex_get, mutex_put,
  NoTask

ASSUME MsgQueueAssumption ==
  /\ Getters \cap Putters = {} /\ Task = Getters \cup Putters /\ IsFiniteSet(Task)
  /\ Device \notin Task /\ NoTask \notin Task
  /\ msg_max \in Nat \ {0} /\ Msg # {}
  /\ Sem = {sem_get, sem_put, mutex_get, mutex_put} /\ Cardinality(Sem) = 4
  /\ Cond = {}

VARIABLES
  mutexes,   \* those the queue was created with
  users,     \* who uses this queue
  w,         \* the semaphores and their queues (SyncState)
  owner,     \* mutex->owner
  buf, head, tail,
  pc,        \* where each task is
  call,      \* its arguments and the message it holds
  handed     \* history: the message the last get or put handed over, and to whom

vars == <<mutexes, users, w, owner, buf, head, tail, pc, call, handed>>
created == <<mutexes, users>>
buffer == <<buf, head, tail>>

Index == 0 .. msg_max - 1
Next1(i) == (i + 1) % msg_max
AnyMsg == CHOOSE m \in Msg : TRUE
NoCall == [msecs |-> 0, msg |-> AnyMsg]
Nothing == [task |-> NoTask, items |-> <<>>]

(* CreateMsgQueue.  A mutex is what allows for more than one task on its   *)
(* side of the queue (comment of msgqueue.c:34-36); a handler cannot take  *)
(* one, because it runs in the name of the task it interrupts.  Nobody     *)
(* need use the other side: those that wait may then wait for ever.        *)
Disciplined ==
  /\ mutex_get \in mutexes \/ Cardinality(users \cap Getters) <= 1
  /\ IF mutex_put \in mutexes THEN Device \notin users
     ELSE Cardinality(users \cap (Putters \cup {Device})) <= 1

Init ==
  /\ mutexes \in SUBSET {mutex_get, mutex_put}
  /\ users \in SUBSET (Task \cup {Device})
  /\ Disciplined
  /\ w = [value |-> [s \in Sem |-> CASE s = sem_get -> 0 [] s = sem_put -> msg_max [] OTHER -> 1],
          list |-> [s \in Sem |-> <<>>], timed |-> {}, success |-> [t \in Task |-> FALSE]]
  /\ owner = [m \in {mutex_get, mutex_put} |-> NoTask]
  /\ buf = [i \in Index |-> AnyMsg]     \* Malloc zeroes it
  /\ head = 0 /\ tail = 0
  /\ pc = [t \in Task |-> "idle"]
  /\ call = [t \in Task |-> NoCall]
  /\ handed = Nothing

At(t, place) == pc[t] = place /\ Runs(w, t)
GoTo(t, place) == pc' = [pc EXCEPT ![t] = place]

\* What getting and putting differ in.
Mutex(t) == IF t \in Getters THEN mutex_get ELSE mutex_put
Takes(t) == IF t \in Getters THEN sem_get ELSE sem_put
Gives(t) == IF t \in Getters THEN sem_put ELSE sem_get

-----------------------------------------------------------------------------
(* GetMsgQueueTimed and PutMsgQueueTimed, with EnterMutexTimed.            *)

\* Faulty variant: the mutex is not taken.
CallStraight(t, n, m) ==
  /\ At(t, "idle") /\ t \in users
  /\ call' = [call EXCEPT ![t] = [msecs |-> n, msg |-> m]]
  /\ GoTo(t, "ask")
  /\ UNCHANGED <<created, w, owner, buffer, handed>>

Call(t, n, m) ==
  /\ At(t, "idle") /\ t \in users
  /\ call' = [call EXCEPT ![t] = [msecs |-> n, msg |-> m]]
  /\ IF Mutex(t) \in mutexes
     THEN w' = WaitSem(w, t, Mutex(t), n) /\ GoTo(t, "enter")
     ELSE w' = w /\ GoTo(t, "ask")
  /\ UNCHANGED <<created, owner, buffer, handed>>

Entered(t) ==
  /\ At(t, "enter")
  /\ IF w.success[t]
     THEN owner' = [owner EXCEPT ![Mutex(t)] = t] /\ GoTo(t, "ask")
          /\ UNCHANGED call
     ELSE owner' = owner /\ GoTo(t, "idle") /\ call' = [call EXCEPT ![t] = NoCall]
  /\ w' = Returned(w, t)
  /\ UNCHANGED <<created, buffer, handed>>

LeaveMutex(t) ==
  /\ At(t, "leave")
  /\ IF Mutex(t) \in mutexes
     THEN owner' = [owner EXCEPT ![Mutex(t)] = NoTask] /\ w' = SignalSem(w, Mutex(t))
     ELSE UNCHANGED <<owner, w>>
  /\ GoTo(t, "idle")
  /\ UNCHANGED <<created, buffer, call, handed>>

-----------------------------------------------------------------------------
(* get_msg and put_msg.                                                    *)

Ask(t) ==
  /\ At(t, "ask")
  /\ w' = WaitSem(w, t, Takes(t), call[t].msecs)
  /\ GoTo(t, "granted?")
  /\ UNCHANGED <<created, owner, buffer, call, handed>>

\* Faulty variant: after a timeout the mutex is not left.
RefusedLeaks(t) ==
  /\ At(t, "granted?") /\ ~ w.success[t]
  /\ GoTo(t, "idle")
  /\ UNCHANGED <<created, w, owner, buffer, call, handed>>

Refused(t) ==
  /\ At(t, "granted?") /\ ~ w.success[t]
  /\ call' = [call EXCEPT ![t] = NoCall]
  /\ GoTo(t, "leave")
  /\ UNCHANGED <<created, w, owner, buffer, handed>>

Copy(t) ==
  /\ At(t, "granted?") /\ w.success[t]
  /\ IF t \in Getters
     THEN call' = [call EXCEPT ![t].msg = buf[head]] /\ UNCHANGED <<buf, handed>>
     ELSE buf' = [buf EXCEPT ![tail] = call[t].msg] /\ handed' = Nothing
          /\ call' = [call EXCEPT ![t] = NoCall]
  /\ w' = Returned(w, t)
  /\ GoTo(t, "copied")
  /\ UNCHANGED <<created, owner, head, tail>>

Advance(t) ==
  /\ At(t, "copied")
  /\ IF t \in Getters
     THEN head' = Next1(head) /\ UNCHANGED tail
          /\ handed' = [task |-> t, items |-> <<call[t].msg>>]
     ELSE tail' = Next1(tail) /\ UNCHANGED <<head, handed>>
  /\ call' = [call EXCEPT ![t] = NoCall]
  /\ GoTo(t, "give")
  /\ UNCHANGED <<created, w, owner, buf>>

Give(t) ==
  /\ At(t, "give")
  /\ w' = SignalSem(w, Gives(t))
  /\ GoTo(t, "leave")
  /\ UNCHANGED <<created, owner, buffer, call, handed>>

\* kbdint: the message is lost if there is no place for it.
DeviceInt(m) ==
  /\ Device \in users
  /\ w.value[sem_put] > 0
  /\ w' = SignalSem([w EXCEPT !.value[sem_put] = @ - 1], sem_get)
  /\ buf' = [buf EXCEPT ![tail] = m]
  /\ tail' = Next1(tail)
  /\ handed' = Nothing
  /\ UNCHANGED <<created, owner, head, pc, call>>

TimesOutOf(t) ==
  /\ TimesOut(w, t)
  /\ w' = TimeOut(w, t)
  /\ UNCHANGED <<created, owner, buffer, pc, call, handed>>

-----------------------------------------------------------------------------
Calls(t) ==
  \E n \in Waits, m \in IF t \in Getters THEN {AnyMsg} ELSE Msg : Call(t, n, m)

GoesOn(t) ==
  \/ Entered(t) \/ Ask(t) \/ Refused(t) \/ Copy(t) \/ Advance(t) \/ Give(t) \/ LeaveMutex(t)

Next ==
  \/ \E t \in Task : Calls(t) \/ GoesOn(t) \/ TimesOutOf(t)
  \/ \E m \in Msg : DeviceInt(m)

Spec == Init /\ [][Next]_vars

\* A task in the middle of a call goes on, because those of the same
\* priority share the CPU (RoundRobin of Kernel), and waits with a timeout
\* end.  Nobody has to call.
FairSpec == Spec /\ \A t \in Task : WF_vars(GoesOn(t)) /\ WF_vars(TimesOutOf(t))

-----------------------------------------------------------------------------
(* Properties *)

TypeOK ==
  /\ mutexes \subseteq {mutex_get, mutex_put} /\ users \subseteq Task \cup {Device}
  /\ w \in [value : [Sem -> 0 .. msg_max], list : [Sem -> Seq(Task)],
            timed : SUBSET Task, success : [Task -> BOOLEAN]]
  /\ owner \in [{mutex_get, mutex_put} -> Task \cup {NoTask}]
  /\ buf \in [Index -> Msg] /\ head \in Index /\ tail \in Index
  /\ pc \in [Task -> {"idle", "enter", "ask", "granted?", "copied", "give", "leave"}]
  /\ call \in [Task -> [msecs : Waits, msg : Msg]]
  /\ handed \in [task : Task \cup {NoTask}, items : Seq(Msg)]

(* A task that a semaphore has granted its wait and that has not given to  *)
(* the other one yet.                                                      *)
Granted(t) == At(t, "granted?") /\ w.success[t]
Working(t) == Granted(t) \/ pc[t] \in {"copied", "give"}

(* Every place of the buffer is free, holds a message, or is being worked  *)
(* on by one task, also when waits time out (msgqueue.c:6-12, 19-25); and  *)
(* a count is not above zero while a task waits for it.                    *)
PlacesConserved ==
  /\ w.value[sem_get] + w.value[sem_put] + Cardinality({t \in Task : Working(t)}) = msg_max
  /\ \A s \in Sem : w.value[s] > 0 => w.list[s] = <<>>

(* A mutex belongs to the one task of its side that is past it, and to     *)
(* nobody when it is free (mutex.c:61-66, 86-90).                          *)
MutexAgrees ==
  \A t \in Task : Mutex(t) \in mutexes =>
    /\ pc[t] \in {"ask", "granted?", "copied", "give", "leave"} <=> owner[Mutex(t)] = t
    /\ owner[Mutex(t)] = t => w.value[Mutex(t)] = 0

(* The queue implements the channel.  A message is inside from the moment  *)
(* it is copied in until head moves past it.                               *)
Inside ==
  w.value[sem_get] + Cardinality({t \in Getters : Granted(t) \/ pc[t] = "copied"})
                   + Cardinality({t \in Putters : pc[t] \in {"copied", "give"}})

Contents == [i \in 1 .. Inside |-> buf[(head + i - 1) % msg_max]]

Promise == INSTANCE Channel WITH Item <- Msg, Capacity <- msg_max, contents <- Contents

ImplementsChannel == Promise!Spec

(* A task that waits to get a message gets one, or gives up, if there is   *)
(* one; and so does one that waits for a place.                            *)
Served ==
  \A t \in Task :
    pc[t] \in {"enter", "granted?"} /\ (IF t \in Getters THEN Inside > 0 ELSE Inside < msg_max)
      ~> pc[t] \notin {"enter", "granted?"} \/ (IF t \in Getters THEN Inside = 0 ELSE Inside = msg_max)
=============================================================================
