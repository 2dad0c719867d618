---------------------------- MODULE Streams_proof ---------------------------
(***************************************************************************)
(* The proofs about the two streams that programs read.                    *)
(*                                                                         *)
(* The first is the pipe, for any number of readers and writers, any       *)
(* buffer and any amounts: it keeps its monitor and its buffer, one task   *)
(* at a time is in the monitor, and the bytes come out as they went in.    *)
(*                                                                         *)
(* The second is the keyboard, for every keymap that gives the modifier    *)
(* and lock keys values of their own, every size of the two queues and any *)
(* number of lost codes: the flags follow the keys, and as long as no code *)
(* is lost the driver is the machine of module Typewriter.  These proofs   *)
(* follow what the driver will have done once it has translated the codes  *)
(* that are queued, or all those the keyboard has to send; translating a   *)
(* queue is a fold, whose laws (the last code last, the first first, the   *)
(* text added at its end) hold because no code can be the first where they *)
(* fail.                                                                   *)
(***************************************************************************)
EXTENDS Pipe, Keyboard, SyncState_proof, FiniteSetTheorems

-----------------------------------------------------------------------------
(* The pipe. *)

Asking == {"enter", "reenter"}
TasksAt(p, places) == {t \in Task : p[t] \in places}

(* Where a task may wait, given its place: with a timeout only for its     *)
(* condition, so that a task that asked for the monitor has it when it     *)
(* runs.                                                                   *)
Seated(v, p, o, t) ==
  /\ p[t] \in Asking => t \notin v.timed /\ (where(v)[t] = {} => v.success[t])
  /\ p[t] = "woken" => where(v)[t] = {} \/ where(v)[t] = {Own(t)}
  /\ p[t] \notin Asking \cup {"woken"} => where(v)[t] = {}
  /\ p[t] \in Inside => o = t

(* The monitor is kept: v, p and o are w, pc and owner.                    *)
Kept(v, p, o) ==
  /\ Linked(v) /\ p \in [Task -> Places] /\ o \in Task \cup {NoTask}
  /\ Locked(v, mon, TasksAt(p, Inside), TasksAt(p, Asking))
  /\ \A t \in Task : Seated(v, p, o, t)

-----------------------------------------------------------------------------
(***************************************************************************)
(* The names of the queues differ.                                         *)
(***************************************************************************)
LEMMA Names ==
  /\ mon \in Sem /\ mon \in Queue /\ FOREVER \in Waits /\ FOREVER # 0
  /\ \A t \in Task : /\ Own(t) \in Queue /\ Own(t) # mon /\ Other(t) \in Queue /\ Other(t) # mon
<1>1. /\ mon \in Sem /\ cond_get \in Cond /\ cond_put \in Cond /\ cond_get # mon /\ cond_put # mon
  BY PipeAssumption, SyncStateAssumption
<1>2. FOREVER # 0 /\ FOREVER \in Waits
  BY SyncStateAssumption DEF Waits
<1>3. \A t \in Task : Own(t) \in {cond_get, cond_put} /\ Other(t) \in {cond_get, cond_put}
  BY DEF Own, Other
<1> QED BY <1>1, <1>2, <1>3 DEF Queue

(***************************************************************************)
(* The tasks at some places, when one of them moves.                       *)
(***************************************************************************)
LEMMA Moves ==
  ASSUME NEW p \in [Task -> Places], NEW t \in Task, NEW c \in Places, NEW places
  PROVE  LET p2 == [p EXCEPT ![t] = c]
         IN  /\ p2 \in [Task -> Places] /\ p2[t] = c
             /\ \A u \in Task : u # t => p2[u] = p[u]
             /\ c \in places => TasksAt(p2, places) = TasksAt(p, places) \cup {t}
             /\ c \notin places => TasksAt(p2, places) = TasksAt(p, places) \ {t}
BY DEF TasksAt

(***************************************************************************)
(* A task asks for the monitor, without a timeout.                         *)
(***************************************************************************)
LEMMA Asks ==
  ASSUME NEW v, NEW p, NEW o, Kept(v, p, o), NEW t \in Task, where(v)[t] = {},
         p[t] \in {"idle", "woken"}, NEW c \in Asking
  PROVE  Kept(WaitSem(v, t, mon, FOREVER), [p EXCEPT ![t] = c], o)
<1> DEFINE e == WaitSem(v, t, mon, FOREVER)
           p2 == [p EXCEPT ![t] = c]
<1>1. /\ Linked(v) /\ p \in [Task -> Places] /\ c \in Places /\ p2 \in [Task -> Places] /\ p2[t] = c
      /\ \A u \in Task : u # t => p2[u] = p[u]
      /\ TasksAt(p2, Inside) = TasksAt(p, Inside) /\ TasksAt(p2, Asking) = TasksAt(p, Asking) \cup {t}
      /\ t \notin TasksAt(p, Inside) \cup TasksAt(p, Asking)
  BY DEF Kept, Asking, Places, Inside, TasksAt
<1>2. \/ Passes(v, e, t, mon)
      \/ v.value[mon] = 0 /\ Joins(v, e, t, mon) /\ e.timed = v.timed
  BY <1>1, Names, WaitSemEffect
<1> HIDE DEF e, p2
<1>3. Locked(e, mon, TasksAt(p2, Inside), TasksAt(p2, Asking))
  BY <1>1, <1>2, Names, LockAsked, SMTT(30) DEF Kept
<1>4. v.success \in [Task -> BOOLEAN]
  BY <1>1, RecordsFields DEF Linked
<1>5. /\ Linked(e) /\ e.timed = v.timed
      /\ \A u \in Task : u # t => where(e)[u] = where(v)[u] /\ e.success[u] = v.success[u]
      /\ where(e)[t] = {} => e.success[t]
  BY <1>2, <1>4 DEF Passes, Joins, Stays, where
<1>6. t \notin v.timed
  BY <1>1 DEF Linked
<1>7. ASSUME NEW u \in Task PROVE Seated(e, p2, o, u)
  <2>1. CASE u = t
    BY <1>1, <1>5, <1>6, <2>1 DEF Seated, Asking, Inside
  <2>2. CASE u # t
    BY <1>1, <1>5, <2>2 DEF Seated, Kept
  <2> QED BY <2>1, <2>2
<1> QED BY <1>1, <1>3, <1>5, <1>7 DEF Kept, e, p2

(***************************************************************************)
(* A task that asked for the monitor and runs is the one that owns it.     *)
(***************************************************************************)
LEMMA Gets ==
  ASSUME NEW v, NEW p, NEW o, Kept(v, p, o), NEW t \in Task, where(v)[t] = {},
         p[t] \in Asking, NEW c \in Inside
  PROVE  Kept(Returned(v, t), [p EXCEPT ![t] = c], t)
<1> DEFINE e == Returned(v, t)
           p2 == [p EXCEPT ![t] = c]
<1>1. /\ Linked(v) /\ p \in [Task -> Places] /\ c \in Places /\ p2 \in [Task -> Places] /\ p2[t] = c
      /\ \A u \in Task : u # t => p2[u] = p[u]
      /\ TasksAt(p2, Inside) = TasksAt(p, Inside) \cup {t}
      /\ TasksAt(p2, Asking) = TasksAt(p, Asking) \ {t}
      /\ t \in TasksAt(p, Asking)
  BY DEF Kept, Asking, Places, Inside, TasksAt
<1>2. Stays(v, e) /\ e.value = v.value /\ e.success = [v.success EXCEPT ![t] = FALSE]
  BY <1>1, ReturnedEffect
<1> HIDE DEF e, p2
<1>3. v.success[t]
  BY DEF Kept, Seated
<1>4. Locked(e, mon, TasksAt(p2, Inside), TasksAt(p2, Asking))
  BY <1>1, <1>2, <1>3, Names, LockAnswered DEF Kept
<1>5. v.success \in [Task -> BOOLEAN]
  BY <1>1, RecordsFields DEF Linked
<1>6. /\ Linked(e) /\ e.timed = v.timed /\ where(e) = where(v)
      /\ \A u \in Task : u # t => e.success[u] = v.success[u]
  BY <1>2, <1>5 DEF Stays
<1>7. \A u \in Task : p[u] \notin Inside
  BY <1>1, <1>3 DEF Kept, Locked, Past, TasksAt
<1>8. ASSUME NEW u \in Task PROVE Seated(e, p2, t, u)
  <2>1. CASE u = t
    BY <1>1, <1>6, <2>1 DEF Seated, Asking, Inside
  <2>2. CASE u # t
    BY <1>1, <1>6, <1>7, <2>2 DEF Seated, Kept
  <2> QED BY <2>1, <2>2
<1> QED BY <1>1, <1>4, <1>6, <1>8 DEF Kept, e, p2

(***************************************************************************)
(* The task inside leaves the monitor, to be idle or to wait.              *)
(***************************************************************************)
LEMMA Leaves ==
  ASSUME NEW v, NEW p, NEW o, Kept(v, p, o), NEW t \in Task,
         p[t] \in Inside, NEW c \in {"idle", "woken"}
  PROVE  /\ Kept(SignalSem(v, mon), [p EXCEPT ![t] = c], NoTask)
         /\ where(SignalSem(v, mon))[t] = {}
<1> DEFINE e == SignalSem(v, mon)
           p2 == [p EXCEPT ![t] = c]
<1>1. /\ Linked(v) /\ p \in [Task -> Places] /\ c \in Places /\ p2 \in [Task -> Places] /\ p2[t] = c
      /\ \A u \in Task : u # t => p2[u] = p[u]
      /\ TasksAt(p2, Inside) = TasksAt(p, Inside) \ {t} /\ TasksAt(p2, Asking) = TasksAt(p, Asking)
      /\ t \in TasksAt(p, Inside) /\ p[t] \notin Asking \cup {"woken"} /\ c \notin Asking
  BY DEF Kept, Asking, Places, Inside, TasksAt
<1>2. Raises(v, e, mon) \/ \E u \in Task : Wakes(v, e, u, mon, TRUE)
  BY <1>1, Names, SignalSemEffect
<1> HIDE DEF e, p2
<1>3. Locked(e, mon, TasksAt(p2, Inside), TasksAt(p2, Asking))
  <2> DEFINE inside == TasksAt(p, Inside)
             asked == TasksAt(p, Asking)
  <2>1. t \in inside /\ Locked(v, mon, inside, asked)
    BY <1>1 DEF Kept
  <2> HIDE DEF inside, asked
  <2>2. Locked(e, mon, inside \ {t}, asked)
    BY <1>1, <1>2, <2>1, Names, LockReleased
  <2> QED BY <1>1, <2>2 DEF inside, asked
<1>4. v.success \in [Task -> BOOLEAN] /\ where(v)[t] = {}
  BY <1>1, RecordsFields DEF Linked, Kept, Seated
<1>5. /\ Linked(e) /\ e.timed \subseteq v.timed
      /\ \A u \in Task : \/ where(e)[u] = where(v)[u] /\ e.success[u] = v.success[u]
                         \/ where(v)[u] = {mon} /\ where(e)[u] = {} /\ e.success[u]
  BY <1>2, <1>4 DEF Raises, Wakes, Stays, where
<1>6. where(e)[t] = {}
  BY <1>4, <1>5
<1>7. \A u \in Task : u # t => p[u] \notin Inside
  BY <1>1 DEF Kept, Locked, Past, TasksAt
<1>8. ASSUME NEW u \in Task PROVE Seated(e, p2, NoTask, u)
  <2>1. CASE u = t
    BY <1>1, <1>6, <2>1 DEF Seated, Inside
  <2>2. CASE u # t
    BY <1>1, <1>5, <1>7, <2>2, Names DEF Seated, Kept
  <2> QED BY <2>1, <2>2
<1> QED BY <1>1, <1>3, <1>5, <1>6, <1>8 DEF Kept, e, p2

(***************************************************************************)
(* A task waits for its condition, or does not even wait.                  *)
(***************************************************************************)
LEMMA WaitsForCondition ==
  ASSUME NEW v, NEW p, NEW o, Kept(v, p, o), NEW t \in Task, p[t] = "woken", where(v)[t] = {},
         NEW n \in Waits
  PROVE  Kept(WaitQueue(v, t, Own(t), n), p, o)
<1> DEFINE e == WaitQueue(v, t, Own(t), n)
<1>1. Linked(v) /\ v.success \in [Task -> BOOLEAN] /\ v.value \in [Sem -> Nat]
  BY RecordsFields DEF Kept, Linked
<1>2. \/ Joins(v, e, t, Own(t))
      \/ Stays(v, e) /\ e.value = v.value /\ e.success = [v.success EXCEPT ![t] = FALSE]
  BY <1>1, Names, WaitQueueEffect
<1> HIDE DEF e
<1>3. /\ Linked(e) /\ e.value = v.value
      /\ \A u \in Task : u # t => /\ where(e)[u] = where(v)[u] /\ e.success[u] = v.success[u]
                                  /\ u \in e.timed => u \in v.timed
      /\ where(e)[t] = {} \/ where(e)[t] = {Own(t)}
  BY <1>1, <1>2 DEF Joins, Stays, where
<1>4. t \notin TasksAt(p, Asking) /\ where(e)[t] # {mon}
  BY <1>3, Names DEF TasksAt, Asking
<1>5. Locked(e, mon, TasksAt(p, Inside), TasksAt(p, Asking))
  <2>1. \A u \in Task : \/ where(e)[u] = where(v)[u] /\ e.success[u] = v.success[u]
                        \/ u \notin TasksAt(p, Asking) /\ where(e)[u] # {mon}
    BY <1>3, <1>4
  <2>2. e.value[mon] = v.value[mon] /\ Locked(v, mon, TasksAt(p, Inside), TasksAt(p, Asking))
    BY <1>3 DEF Kept
  <2> QED BY <2>1, <2>2, Names, LockKept
<1>6. ASSUME NEW u \in Task PROVE Seated(e, p, o, u)
  <2>1. CASE u = t
    BY <1>3, <2>1 DEF Seated, Inside, Asking
  <2>2. CASE u # t
    BY <1>3, <2>2 DEF Seated, Kept
  <2> QED BY <2>1, <2>2
<1> QED BY <1>3, <1>5, <1>6 DEF Kept, e

(***************************************************************************)
(* A wait for a condition ends.                                            *)
(***************************************************************************)
LEMMA EndsWait ==
  ASSUME NEW v, NEW p, NEW o, Kept(v, p, o), NEW u \in Task, p[u] = "woken",
         NEW q, NEW ok, NEW e, Wakes(v, e, u, q, ok)
  PROVE  Kept(e, p, o)
<1>1. Linked(v) /\ v.success \in [Task -> BOOLEAN]
  BY RecordsFields DEF Kept, Linked
<1>2. /\ Linked(e) /\ e.value = v.value /\ e.timed \subseteq v.timed /\ where(e)[u] = {}
      /\ \A x \in Task : x # u => where(e)[x] = where(v)[x] /\ e.success[x] = v.success[x]
  BY <1>1 DEF Wakes, where
<1>3. Locked(e, mon, TasksAt(p, Inside), TasksAt(p, Asking))
  <2>1. \A x \in Task : \/ where(e)[x] = where(v)[x] /\ e.success[x] = v.success[x]
                        \/ x \notin TasksAt(p, Asking) /\ where(e)[x] # {mon}
    BY <1>2 DEF TasksAt, Asking
  <2>2. e.value[mon] = v.value[mon] /\ Locked(v, mon, TasksAt(p, Inside), TasksAt(p, Asking))
    BY <1>2 DEF Kept
  <2> QED BY <2>1, <2>2, Names, LockKept
<1>4. ASSUME NEW x \in Task PROVE Seated(e, p, o, x)
  <2>1. CASE x = u
    BY <1>2, <2>1 DEF Seated, Inside, Asking
  <2>2. CASE x # u
    BY <1>2, <2>2 DEF Seated, Kept
  <2> QED BY <2>1, <2>2
<1> QED BY <1>2, <1>3, <1>4 DEF Kept

(***************************************************************************)
(* The task inside goes from a place to another one.                       *)
(***************************************************************************)
LEMMA GoesOnInside ==
  ASSUME NEW v, NEW p, NEW o, Kept(v, p, o), NEW t \in Task, p[t] \in Inside, NEW c \in Inside
  PROVE  Kept(v, [p EXCEPT ![t] = c], o)
<1> DEFINE p2 == [p EXCEPT ![t] = c]
<1>1. /\ p2 \in [Task -> Places] /\ p2[t] = c /\ \A u \in Task : u # t => p2[u] = p[u]
      /\ TasksAt(p2, Inside) = TasksAt(p, Inside) /\ TasksAt(p2, Asking) = TasksAt(p, Asking)
  BY DEF Kept, Asking, Places, Inside, TasksAt
<1> HIDE DEF p2
<1>2. ASSUME NEW u \in Task PROVE Seated(v, p2, o, u)
  <2>1. CASE u = t
    BY <1>1, <2>1 DEF Seated, Kept, Inside, Asking
  <2>2. CASE u # t
    BY <1>1, <2>2 DEF Seated, Kept
  <2> QED BY <2>1, <2>2
<1> QED BY <1>1, <1>2 DEF Kept, p2
(***************************************************************************)
(* Nobody else is inside when one task is.                                 *)
(***************************************************************************)
LEMMA Alone ==
  ASSUME NEW v, NEW p, NEW o, Kept(v, p, o), NEW t \in Task, p[t] \in Inside
  PROVE  \A u \in Task : u # t => p[u] \notin Inside
BY DEF Kept, Locked, Past, TasksAt

-----------------------------------------------------------------------------
(* The buffer.  Moving are the places between copying and bringing avail   *)
(* up to date.                                                             *)
Moving == {"signal", "update"}

CallRecords == [data : Seq(Byte), msecs : Waits, success : BOOLEAN, nbytes : 0 .. Size]

PipeTyped ==
  /\ IsBuffer(buf, Size, Byte) /\ head \in Index /\ tail \in Index /\ avail \in 0 .. Size
  /\ call \in [Task -> CallRecords]
  /\ handed \in [task : Task \cup {NoTask}, items : Seq(Byte)]

(* The task that moves bytes has as many as were there, and tail is behind *)
(* the bytes that are inside.                                              *)
Amounts ==
  /\ \A t \in Task : pc[t] # "idle" => Len(call[t].data) > 0
  /\ \A t \in Task : pc[t] \in Moving => call[t].nbytes \in 1 .. Available(t)
  /\ tail = Forward(head, Held)

IInv == Kept(w, pc, owner) /\ PipeTyped /\ Amounts

(* Held, of any data.                                                      *)
HeldOf(p, c, a) ==
  LET moved(T) == IF TasksAt(p, Moving) \cap T = {} THEN 0
                  ELSE c[CHOOSE t \in TasksAt(p, Moving) \cap T : TRUE].nbytes
  IN  a + moved(Writers) - moved(Readers)

(***************************************************************************)
(* Held now and after a step.                                              *)
(***************************************************************************)
LEMMA HeldEquals == Held = HeldOf(pc, call, avail) /\ Held' = HeldOf(pc', call', avail')
BY DEF Held, HeldOf, Transit, TasksAt, Moving

(***************************************************************************)
(* What is inside when nobody moves bytes.                                 *)
(***************************************************************************)
LEMMA HeldNone ==
  ASSUME NEW p, NEW c, NEW a \in Nat, TasksAt(p, Moving) = {}
  PROVE  HeldOf(p, c, a) = a
BY DEF HeldOf

(***************************************************************************)
(* What is inside when one task moves bytes.                               *)
(***************************************************************************)
LEMMA HeldOne ==
  ASSUME NEW p, NEW c, NEW a \in Nat, NEW t \in Task, TasksAt(p, Moving) = {t}, c[t].nbytes \in Nat
  PROVE  HeldOf(p, c, a) = IF t \in Readers THEN a - c[t].nbytes ELSE a + c[t].nbytes
<1> DEFINE m == TasksAt(p, Moving)
<1>1. m = {t}
  OBVIOUS
<1> HIDE DEF m
<1>2. CASE t \in Readers
  <2>1. t \notin Writers /\ m \cap Writers = {} /\ m \cap Readers = {t}
    BY <1>1, <1>2, PipeAssumption
  <2>2. (CHOOSE u \in m \cap Readers : TRUE) = t
    BY <2>1
  <2> QED BY <1>2, <2>1, <2>2 DEF HeldOf, m
<1>3. CASE t \notin Readers
  <2>1. t \in Writers /\ m \cap Readers = {} /\ m \cap Writers = {t}
    BY <1>1, <1>3, PipeAssumption
  <2>2. (CHOOSE u \in m \cap Writers : TRUE) = t
    BY <2>1
  <2> QED BY <1>3, <2>1, <2>2 DEF HeldOf, m
<1> QED BY <1>2, <1>3

(***************************************************************************)
(* What is inside stays the same when nobody begins or ends to move bytes. *)
(***************************************************************************)
LEMMA HeldSame ==
  ASSUME NEW p, NEW c, NEW q, NEW d, NEW a, TasksAt(q, Moving) = TasksAt(p, Moving),
         \A t \in TasksAt(p, Moving) : d[t].nbytes = c[t].nbytes
  PROVE  HeldOf(q, d, a) = HeldOf(p, c, a)
<1> DEFINE m == TasksAt(p, Moving)
<1>1. \A T : m \cap T # {} => (CHOOSE t \in m \cap T : TRUE) \in m
  OBVIOUS
<1>2. \A T : m \cap T # {} =>
        d[CHOOSE t \in m \cap T : TRUE].nbytes = c[CHOOSE t \in m \cap T : TRUE].nbytes
  BY <1>1
<1> HIDE DEF m
<1>3. TasksAt(q, Moving) = m
  BY DEF m
<1>4. HeldOf(p, c, a) = HeldOf(q, d, a)
  BY <1>2, <1>3 DEF HeldOf, m
<1> QED BY <1>4

(***************************************************************************)
(* The bytes inside are a window of the buffer.                            *)
(***************************************************************************)
LEMMA StoredWindow ==
  ASSUME IInv
  PROVE  \A n \in Nat : Stored(n) = Window(buf, Size, head, n)
<1>1. Size \in Nat \ {0} /\ head \in Nat
  BY PipeAssumption DEF IInv, PipeTyped, Index
<1>2. \A i \in Nat : head + (i - 1) = head + i - 1
  BY <1>1
<1>3. \A i \in Nat : Forward(head, i - 1) = Slot(Size, head, i)
  BY <1>2 DEF Forward, Slot
<1> QED BY <1>3 DEF Stored, Window

(***************************************************************************)
(* The same after a step.                                                  *)
(***************************************************************************)
LEMMA StoredWindowNext ==
  ASSUME NEW h \in Index, head' = h
  PROVE  \A n \in Nat : Stored(n)' = Window(buf', Size, h, n)
<1>1. Size \in Nat \ {0} /\ h \in Nat
  BY PipeAssumption DEF Index
<1>2. \A i \in Nat : h + (i - 1) = h + i - 1
  BY <1>1
<1>3. \A i \in Nat : Forward(h, i - 1) = Slot(Size, h, i)
  BY <1>2 DEF Forward, Slot
<1> QED BY <1>3 DEF Stored, Window

(***************************************************************************)
(* The smaller of two numbers.                                             *)
(***************************************************************************)
LEMMA MinOfTwo ==
  ASSUME NEW a \in Nat, NEW b \in Nat
  PROVE  Min({a, b}) = IF a <= b THEN a ELSE b
BY DEF Min

(***************************************************************************)
(* A step that leaves the buffer alone.                                    *)
(***************************************************************************)
LEMMA BufferKept ==
  ASSUME IInv, NEW t \in Task, Kept(w', pc', owner'), UNCHANGED <<buffer, handed>>,
         call' \in [Task -> CallRecords],
         \A u \in Task : u # t => pc'[u] = pc[u] /\ call'[u] = call[u],
         pc[t] \in Moving <=> pc'[t] \in Moving,
         pc'[t] \in Moving => call'[t].nbytes = call[t].nbytes,
         pc'[t] # "idle" => Len(call'[t].data) > 0
  PROVE  IInv' /\ Stored(Held)' = Stored(Held)
<1>1. buf' = buf /\ head' = head /\ tail' = tail /\ avail' = avail /\ handed' = handed
  BY DEF buffer
<1>2. TasksAt(pc', Moving) = TasksAt(pc, Moving)
  BY DEF TasksAt
<1>3. \A u \in TasksAt(pc, Moving) : call'[u].nbytes = call[u].nbytes
  BY DEF TasksAt
<1>4. Held' = Held
  BY <1>1, <1>2, <1>3, HeldEquals, HeldSame
<1>5. PipeTyped'
  BY <1>1 DEF IInv, PipeTyped
<1>6. Amounts'
  <2>1. \A u \in Task : pc'[u] # "idle" => Len(call'[u].data) > 0
    BY DEF IInv, Amounts
  <2>2. \A u \in Task : pc'[u] \in Moving => call'[u].nbytes \in 1 .. Available(u)'
    BY <1>1 DEF IInv, Amounts, Available
  <2>3. tail' = Forward(head', Held')
    BY <1>1, <1>4 DEF IInv, Amounts
  <2> QED BY <2>1, <2>2, <2>3 DEF Amounts
<1>7. Stored(Held)' = Stored(Held)
  BY <1>1, <1>4 DEF Stored
<1> QED BY <1>5, <1>6, <1>7 DEF IInv
-----------------------------------------------------------------------------
(***************************************************************************)
(* A task runs if it waits nowhere.                                        *)
(***************************************************************************)
LEMMA AtNowhere ==
  ASSUME NEW t \in Task, NEW c, At(t, c)
  PROVE  pc[t] = c /\ where(w)[t] = {}
BY RunsNowhere DEF At

(***************************************************************************)
(* The arguments of a call are sequences of bytes.                         *)
(***************************************************************************)
LEMMA DataProperties ==
  ASSUME NEW t \in Task, NEW data \in Data(t)
  PROVE  data \in Seq(Byte) /\ Len(data) > 0
<1>1. PICK n \in Sizes[t] :
        data \in IF t \in Readers THEN {[i \in 1 .. n |-> CHOOSE b \in Byte : TRUE]}
                 ELSE [1 .. n -> Byte]
  BY DEF Data
<1>2. n \in Nat /\ n > 0
  BY PipeAssumption
<1>3. (CHOOSE b \in Byte : TRUE) \in Byte
  BY PipeAssumption
<1>4. data \in [1 .. n -> Byte]
  BY <1>1, <1>3
<1>5. data \in Seq(Byte)
  BY <1>2, <1>4, SeqDef
<1> QED BY <1>2, <1>4, <1>5, LenProperties

(***************************************************************************)
(* What a call changes of its locals.                                      *)
(***************************************************************************)
LEMMA CallFields ==
  ASSUME NEW r \in CallRecords
  PROVE  /\ r.data \in Seq(Byte) /\ r.msecs \in Waits /\ r.success \in BOOLEAN /\ r.nbytes \in 0 .. Size
         /\ \A x \in BOOLEAN : /\ [r EXCEPT !.success = x] \in CallRecords
                               /\ [r EXCEPT !.success = x].data = r.data
                               /\ [r EXCEPT !.success = x].nbytes = r.nbytes
         /\ \A x \in 0 .. Size : /\ [r EXCEPT !.nbytes = x] \in CallRecords
                                 /\ [r EXCEPT !.nbytes = x].data = r.data
                                 /\ [r EXCEPT !.nbytes = x].nbytes = x
BY DEF CallRecords

(***************************************************************************)
(* No call.                                                                *)
(***************************************************************************)
LEMMA NoCallRecord ==
  ASSUME NEW data \in Seq(Byte), NEW n \in Waits
  PROVE  /\ NoCall \in CallRecords /\ [NoCall EXCEPT !.data = data, !.msecs = n] \in CallRecords
         /\ [NoCall EXCEPT !.data = data, !.msecs = n].data = data
<1> DEFINE e == <<>>
           z == 0
           f == FALSE
<1>1. e \in Seq(Byte) /\ z \in 0 .. Size /\ z \in Waits /\ f \in BOOLEAN
  BY PipeAssumption DEF Waits
<1>2. NoCall = [data |-> e, msecs |-> z, success |-> f, nbytes |-> z]
  BY DEF NoCall
<1> HIDE DEF e, z, f
<1>3. NoCall \in CallRecords
  BY <1>1, <1>2 DEF CallRecords
<1>4. ASSUME NEW r \in CallRecords
      PROVE  /\ [r EXCEPT !.data = data, !.msecs = n] \in CallRecords
             /\ [r EXCEPT !.data = data, !.msecs = n].data = data
  BY DEF CallRecords
<1> QED BY <1>3, <1>4

(* What every step but that of Copy does.                                  *)
Stutters == IInv' /\ Stored(Held)' = Stored(Held) /\ handed' = handed

(***************************************************************************)
(* EnterMonitor.                                                           *)
(***************************************************************************)
LEMMA EnterMonitorKeeps ==
  ASSUME IInv, NEW t \in Task, NEW data \in Data(t), NEW n \in Waits, EnterMonitor(t, data, n)
  PROVE  Stutters
<1>1. pc[t] = "idle" /\ where(w)[t] = {}
  BY AtNowhere DEF EnterMonitor
<1>2. w' = WaitSem(w, t, mon, FOREVER) /\ pc' = [pc EXCEPT ![t] = "enter"]
  BY DEF EnterMonitor, GoTo
<1>3. Kept(w', pc', owner')
  <2>1. Kept(w, pc, owner) /\ owner' = owner
    BY DEF IInv, EnterMonitor
  <2> QED BY <1>1, <1>2, <2>1, Asks DEF Asking
<1> DEFINE r == [NoCall EXCEPT !.data = data, !.msecs = n]
<1>4. r \in CallRecords /\ Len(r.data) > 0
  BY DataProperties, NoCallRecord
<1>5. call' = [call EXCEPT ![t] = r]
  BY DEF EnterMonitor
<1> HIDE DEF r
<1>6. call \in [Task -> CallRecords] /\ pc \in [Task -> Places]
  BY DEF IInv, PipeTyped, Kept
<1>7. /\ call' \in [Task -> CallRecords] /\ call'[t] = r /\ pc'[t] = "enter"
      /\ \A u \in Task : u # t => pc'[u] = pc[u] /\ call'[u] = call[u]
  BY <1>2, <1>4, <1>5, <1>6
<1>8. UNCHANGED <<buffer, handed>>
  BY DEF EnterMonitor
<1> QED BY <1>1, <1>3, <1>4, <1>7, <1>8, BufferKept DEF Moving, Stutters

(***************************************************************************)
(* A call that changes nothing of its locals.                              *)
(***************************************************************************)
LEMMA Passage ==
  ASSUME IInv, NEW t \in Task, Kept(w', pc', owner'), UNCHANGED <<buffer, call, handed>>,
         pc[t] # "idle", NEW c \in Places, pc' = [pc EXCEPT ![t] = c], pc[t] \in Moving <=> c \in Moving
  PROVE  Stutters
<1>1. call \in [Task -> CallRecords] /\ pc \in [Task -> Places] /\ call' = call
  BY DEF IInv, PipeTyped, Kept
<1>2. /\ call' \in [Task -> CallRecords] /\ pc'[t] = c
      /\ \A u \in Task : u # t => pc'[u] = pc[u] /\ call'[u] = call[u]
  BY <1>1
<1>3. Len(call'[t].data) > 0
  BY <1>1 DEF IInv, Amounts
<1> QED BY <1>1, <1>2, <1>3, BufferKept DEF Stutters

(***************************************************************************)
(* The way back of EnterMonitor.                                           *)
(***************************************************************************)
LEMMA EnteredKeeps ==
  ASSUME IInv, NEW t \in Task, Entered(t)
  PROVE  Stutters
<1>1. pc[t] = "enter" /\ where(w)[t] = {}
  BY AtNowhere DEF Entered
<1>2. w' = Returned(w, t) /\ pc' = [pc EXCEPT ![t] = "test"] /\ owner' = t /\ UNCHANGED <<buffer, call, handed>>
  BY DEF Entered, GoTo
<1>3. Kept(w', pc', owner')
  BY <1>1, <1>2, Gets DEF IInv, Asking, Inside
<1> QED BY <1>1, <1>2, <1>3, Passage DEF Moving, Places

(***************************************************************************)
(* The way back of WaitConditionTimed.                                     *)
(***************************************************************************)
LEMMA ReenteredKeeps ==
  ASSUME IInv, NEW t \in Task, Reentered(t)
  PROVE  Stutters
<1>1. pc[t] = "reenter" /\ where(w)[t] = {}
  BY AtNowhere DEF Reentered
<1> DEFINE c == IF call[t].success THEN "test" ELSE "leave"
<1>2. w' = Returned(w, t) /\ pc' = [pc EXCEPT ![t] = c] /\ owner' = t /\ UNCHANGED <<buffer, call, handed>>
  BY DEF Reentered, GoTo
<1>3. c \in Inside /\ c \in Places /\ c \notin Moving
  BY DEF Inside, Places, Moving
<1> HIDE DEF c
<1>4. Kept(w', pc', owner')
  BY <1>1, <1>2, <1>3, Gets DEF IInv, Asking
<1> QED BY <1>1, <1>2, <1>3, <1>4, Passage DEF Moving

(***************************************************************************)
(* WaitConditionTimed.                                                     *)
(***************************************************************************)
LEMMA WaitConditionKeeps ==
  ASSUME IInv, NEW t \in Task, WaitCondition(t)
  PROVE  Stutters
<1>1. pc[t] = "test"
  BY AtNowhere DEF WaitCondition
<1> DEFINE v == SignalSem(w, mon)
           n == call[t].msecs
           p == [pc EXCEPT ![t] = "woken"]
<1>2. w' = WaitQueue(v, t, Own(t), n) /\ pc' = p /\ owner' = NoTask /\ UNCHANGED <<buffer, call, handed>>
  BY DEF WaitCondition, GoTo
<1>3. Kept(v, p, NoTask) /\ where(v)[t] = {}
  BY <1>1, Leaves DEF IInv, Inside
<1>4. n \in Waits /\ p[t] = "woken"
  BY CallFields DEF IInv, PipeTyped, Kept
<1> HIDE DEF v, n, p
<1>5. Kept(w', pc', owner')
  BY <1>2, <1>3, <1>4, WaitsForCondition
<1> QED BY <1>1, <1>2, <1>5, Passage DEF Moving, Places, p

(***************************************************************************)
(* The end of the wait: the task asks for the monitor again.               *)
(***************************************************************************)
LEMMA WokenKeeps ==
  ASSUME IInv, NEW t \in Task, Woken(t)
  PROVE  Stutters
<1>1. pc[t] = "woken" /\ where(w)[t] = {}
  BY AtNowhere DEF Woken
<1>2. w' = WaitSem(w, t, mon, FOREVER) /\ pc' = [pc EXCEPT ![t] = "reenter"]
  BY DEF Woken, GoTo
<1>3. Kept(w', pc', owner')
  <2>1. Kept(w, pc, owner) /\ owner' = owner
    BY DEF IInv, Woken
  <2> QED BY <1>1, <1>2, <2>1, Asks DEF Asking
<1>4. call \in [Task -> CallRecords] /\ pc \in [Task -> Places] /\ w.success[t] \in BOOLEAN
  BY RecordsFields DEF IInv, PipeTyped, Kept, Linked
<1> DEFINE x == w.success[t]
           r == [call[t] EXCEPT !.success = x]
<1>5. call' = [call EXCEPT ![t] = r]
  BY <1>4 DEF Woken
<1>6. r \in CallRecords /\ r.data = call[t].data
  <2> HIDE DEF x
  <2>1. x \in BOOLEAN
    BY <1>4 DEF x
  <2> QED BY <1>4, <2>1, CallFields
<1> HIDE DEF r
<1>7. /\ call' \in [Task -> CallRecords] /\ call'[t] = r /\ pc'[t] = "reenter"
      /\ \A u \in Task : u # t => pc'[u] = pc[u] /\ call'[u] = call[u]
  BY <1>2, <1>4, <1>5, <1>6
<1>8. UNCHANGED <<buffer, handed>>
  BY DEF Woken
<1>9. Len(r.data) > 0
  BY <1>1, <1>6 DEF IInv, Amounts
<1> QED BY <1>1, <1>3, <1>7, <1>8, <1>9, BufferKept DEF Moving, Stutters

(***************************************************************************)
(* LeaveMonitor.                                                           *)
(***************************************************************************)
LEMMA LeaveMonitorKeeps ==
  ASSUME IInv, NEW t \in Task, LeaveMonitor(t)
  PROVE  Stutters
<1>1. pc[t] = "leave"
  BY AtNowhere DEF LeaveMonitor
<1>2. w' = SignalSem(w, mon) /\ pc' = [pc EXCEPT ![t] = "idle"] /\ owner' = NoTask
  BY DEF LeaveMonitor, GoTo
<1>3. Kept(w', pc', owner')
  BY <1>1, <1>2, Leaves DEF IInv, Inside
<1>4. call \in [Task -> CallRecords] /\ pc \in [Task -> Places] /\ call' = [call EXCEPT ![t] = NoCall]
  BY DEF IInv, PipeTyped, Kept, LeaveMonitor
<1>5. NoCall \in CallRecords
  <2>1. <<>> \in Seq(Byte) /\ 0 \in Waits
    BY DEF Waits
  <2> QED BY <2>1, NoCallRecord
<1>6. /\ call' \in [Task -> CallRecords] /\ pc'[t] = "idle"
      /\ \A u \in Task : u # t => pc'[u] = pc[u] /\ call'[u] = call[u]
  BY <1>2, <1>4, <1>5
<1>7. UNCHANGED <<buffer, handed>>
  BY DEF LeaveMonitor
<1> QED BY <1>1, <1>3, <1>6, <1>7, BufferKept DEF Moving, Stutters

(***************************************************************************)
(* SignalCondition.                                                        *)
(***************************************************************************)
LEMMA SignalConditionKeeps ==
  ASSUME IInv, NEW t \in Task, SignalCondition(t)
  PROVE  Stutters
<1>1. pc[t] = "signal"
  BY AtNowhere DEF SignalCondition
<1>2. pc' = [pc EXCEPT ![t] = "update"] /\ UNCHANGED <<owner, buffer, call, handed>>
  BY DEF SignalCondition, GoTo
<1>3. Kept(w, pc', owner)
  BY <1>1, <1>2, GoesOnInside DEF IInv, Inside
<1>4. CASE w' = w
  <2>1. Kept(w', pc', owner')
    BY <1>2, <1>3, <1>4
  <2> QED BY <1>1, <1>2, <2>1, Passage DEF Moving, Places
<1>5. CASE w' = SignalQueue(w, Other(t))
  <2>1. \/ w' = w
        \/ \E u \in Task : Wakes(w, w', u, Other(t), TRUE)
    BY <1>5, Names, SignalQueueEffect DEF IInv, Kept
  <2>2. CASE \E u \in Task : Wakes(w, w', u, Other(t), TRUE)
    <3>1. PICK u \in Task : Wakes(w, w', u, Other(t), TRUE)
      BY <2>2
    <3>2. where(w)[u] = {Other(t)} /\ Other(t) # mon
      BY <3>1, Names DEF Wakes
    <3>3. pc'[u] = "woken"
      BY <1>3, <3>2 DEF Kept, Seated, Locked, TasksAt, Asking
    <3>4. Kept(w', pc', owner')
      BY <1>2, <1>3, <3>1, <3>3, EndsWait
    <3> QED BY <1>1, <1>2, <3>4, Passage DEF Moving, Places
  <2> QED BY <1>4, <2>1, <2>2
<1> QED BY <1>4, <1>5 DEF SignalCondition

(***************************************************************************)
(* The clock ends a wait.                                                  *)
(***************************************************************************)
LEMMA TimesOutOfKeeps ==
  ASSUME IInv, NEW t \in Task, TimesOutOf(t)
  PROVE  Stutters
<1>1. UNCHANGED <<owner, buffer, pc, call, handed>> /\ TimesOut(w, t) /\ w' = TimeOut(w, t)
  BY DEF TimesOutOf
<1>2. PICK q \in Queue : Wakes(w, w', t, q, FALSE)
  BY <1>1, TimeOutEffect DEF IInv, Kept
<1>3. t \in w.timed /\ where(w)[t] # {}
  BY <1>1, <1>2 DEF TimesOut, Wakes
<1>4. pc[t] = "woken"
  BY <1>3 DEF IInv, Kept, Seated
<1>5. Kept(w', pc', owner')
  BY <1>1, <1>2, <1>4, EndsWait DEF IInv
<1>6. /\ call' \in [Task -> CallRecords] /\ Len(call'[t].data) > 0
      /\ \A u \in Task : pc'[u] = pc[u] /\ call'[u] = call[u]
  BY <1>1, <1>4 DEF IInv, PipeTyped, Amounts
<1>7. UNCHANGED <<buffer, handed>>
  BY <1>1
<1> QED BY <1>1, <1>5, <1>6, <1>7, BufferKept DEF Stutters
(***************************************************************************)
(* avail is brought up to date, and what is inside does not change.        *)
(***************************************************************************)
LEMMA UpdateKeeps ==
  ASSUME IInv, NEW t \in Task, Update(t)
  PROVE  Stutters
<1>1. pc[t] = "update"
  BY AtNowhere DEF Update
<1>2. /\ pc' = [pc EXCEPT ![t] = "leave"] /\ UNCHANGED <<w, owner, buf, head, tail, call, handed>>
      /\ avail' = IF t \in Readers THEN avail - call[t].nbytes ELSE avail + call[t].nbytes
  BY DEF Update, GoTo
<1>3. Kept(w', pc', owner')
  BY <1>1, <1>2, GoesOnInside DEF IInv, Inside
<1>4. Size \in Nat /\ avail \in 0 .. Size /\ pc \in [Task -> Places] /\ call \in [Task -> CallRecords]
  BY PipeAssumption DEF IInv, PipeTyped, Kept
<1>5. \A u \in Task : u # t => pc[u] \notin Inside
  BY <1>1, Alone DEF IInv, Inside
<1>6. TasksAt(pc, Moving) = {t} /\ TasksAt(pc', Moving) = {}
  BY <1>1, <1>2, <1>4, <1>5 DEF TasksAt, Moving, Inside
<1>7. call[t].nbytes \in 1 .. Available(t)
  BY <1>1 DEF IInv, Amounts, Moving
<1>8. call[t].nbytes \in Nat /\ avail' \in 0 .. Size
  BY <1>2, <1>4, <1>7 DEF Available
<1>9. Held' = avail'
  BY <1>6, <1>8, HeldEquals, HeldNone
<1>10. Held = avail'
  BY <1>2, <1>4, <1>6, <1>8, HeldEquals, HeldOne
<1>11. Stored(Held)' = Stored(Held)
  BY <1>2, <1>9, <1>10 DEF Stored
<1>12. PipeTyped'
  BY <1>2, <1>8 DEF IInv, PipeTyped
<1>13. Amounts'
  <2>1. \A u \in Task : pc'[u] # "idle" => Len(call'[u].data) > 0
    BY <1>1, <1>2, <1>4 DEF IInv, Amounts
  <2>2. \A u \in Task : pc'[u] \notin Moving
    BY <1>6 DEF TasksAt
  <2>3. tail' = Forward(head', Held')
    BY <1>2, <1>9, <1>10 DEF IInv, Amounts
  <2> QED BY <2>1, <2>2, <2>3 DEF Amounts
<1> QED BY <1>2, <1>3, <1>11, <1>12, <1>13 DEF IInv, Stutters

-----------------------------------------------------------------------------
(***************************************************************************)
(* What Copy finds: the task is alone, and moves at least one byte.        *)
(***************************************************************************)
LEMMA CopyFinds ==
  ASSUME IInv, NEW t \in Task, Copy(t)
  PROVE  LET n == Min({Len(call[t].data), Available(t)})
         IN  /\ Kept(w', pc', owner') /\ n \in 1 .. Available(t) /\ n <= Len(call[t].data)
             /\ Held = avail /\ tail = Forward(head, avail)
             /\ n \in 0 .. Size /\ avail' = avail /\ call' = [call EXCEPT ![t].nbytes = n]
             /\ call' \in [Task -> CallRecords] /\ call'[t].nbytes = n /\ TasksAt(pc', Moving) = {t}
             /\ \A u \in Task : /\ pc'[u] # "idle" => Len(call'[u].data) > 0
                                /\ pc'[u] \in Moving => u = t
<1> DEFINE n == Min({Len(call[t].data), Available(t)})
<1>1. pc[t] = "test" /\ Available(t) # 0
  BY AtNowhere DEF Copy, MustWait
<1>2. /\ pc' = [pc EXCEPT ![t] = "signal"] /\ UNCHANGED <<w, owner, avail>>
      /\ call' = [call EXCEPT ![t].nbytes = n]
  BY DEF Copy, GoTo
<1>3. Kept(w', pc', owner')
  BY <1>1, <1>2, GoesOnInside DEF IInv, Inside
<1>4. Size \in Nat /\ avail \in 0 .. Size /\ pc \in [Task -> Places] /\ call \in [Task -> CallRecords]
  BY PipeAssumption DEF IInv, PipeTyped, Kept
<1>5. \A u \in Task : u # t => pc[u] \notin Inside
  BY <1>1, Alone DEF IInv, Inside
<1>6. TasksAt(pc, Moving) = {} /\ TasksAt(pc', Moving) = {t}
  BY <1>1, <1>2, <1>4, <1>5 DEF TasksAt, Moving, Inside
<1>7. Available(t) \in 1 .. Size
  BY <1>1, <1>4 DEF Available
<1>8. Len(call[t].data) \in Nat /\ Len(call[t].data) > 0
  <2>1. call[t].data \in Seq(Byte)
    BY <1>4, CallFields
  <2> QED BY <1>1, <2>1, LenProperties DEF IInv, Amounts
<1>9. n \in 1 .. Available(t) /\ n <= Len(call[t].data) /\ n \in 0 .. Size
  <2> DEFINE a == Len(call[t].data)
             b == Available(t)
  <2>1. a \in Nat /\ a > 0 /\ b \in 1 .. Size /\ b \in Nat
    BY <1>4, <1>7, <1>8
  <2> HIDE DEF a, b
  <2>2. Min({a, b}) = IF a <= b THEN a ELSE b
    BY <2>1, MinOfTwo
  <2>3. Min({a, b}) \in 1 .. b /\ Min({a, b}) <= a /\ Min({a, b}) \in 0 .. Size
    BY <1>4, <2>1, <2>2
  <2> QED BY <2>3 DEF a, b
<1>10. Held = avail
  BY <1>4, <1>6, HeldEquals, HeldNone
<1>11. tail = Forward(head, avail)
  BY <1>10 DEF IInv, Amounts
<1> HIDE DEF n
<1> DEFINE r == [call[t] EXCEPT !.nbytes = n]
<1>12. r \in CallRecords /\ r.data = call[t].data /\ r.nbytes = n
  BY <1>4, <1>9, CallFields
<1>13. call' = [call EXCEPT ![t] = r]
  BY <1>2, <1>4
<1> HIDE DEF r
<1>14. call' \in [Task -> CallRecords] /\ call'[t] = r /\ \A u \in Task : u # t => call'[u] = call[u]
  BY <1>4, <1>12, <1>13
<1>15. \A u \in Task : pc'[u] # "idle" => Len(call'[u].data) > 0
  BY <1>2, <1>4, <1>8, <1>12, <1>14 DEF IInv, Amounts
<1>16. \A u \in Task : pc'[u] \in Moving => u = t
  BY <1>6 DEF TasksAt
<1> QED BY <1>2, <1>3, <1>6, <1>9, <1>10, <1>11, <1>12, <1>14, <1>15, <1>16 DEF n

(***************************************************************************)
(* A reader takes the first bytes out.                                     *)
(***************************************************************************)
LEMMA CopyReader ==
  ASSUME IInv, NEW t \in Readers, Copy(t)
  PROVE  IInv' /\ Promise!Get(t)
<1>0. t \in Task
  BY PipeAssumption
<1> DEFINE n == Min({Len(call[t].data), Available(t)})
<1>1. /\ Kept(w', pc', owner') /\ n \in 1 .. avail /\ Held = avail /\ tail = Forward(head, avail)
      /\ avail' = avail /\ call' \in [Task -> CallRecords] /\ call'[t].nbytes = n
      /\ TasksAt(pc', Moving) = {t}
      /\ \A u \in Task : /\ pc'[u] # "idle" => Len(call'[u].data) > 0
                         /\ pc'[u] \in Moving => u = t
  BY <1>0, CopyFinds DEF Available
<1>2. /\ handed' = [task |-> t, items |-> Stored(n)] /\ head' = Forward(head, n)
      /\ buf' = buf /\ tail' = tail
  BY DEF Copy
<1> HIDE DEF n
<1>3. /\ Size \in Nat \ {0} /\ avail \in 1 .. Size /\ head \in 0 .. Size - 1
      /\ IsBuffer(buf, Size, Byte)
  BY <1>1, PipeAssumption DEF IInv, PipeTyped, Index
<1>4. Held' = avail - n
  <2> DEFINE p == pc'
             q == call'
             a == avail'
  <2>1. a = avail /\ a \in Nat /\ TasksAt(p, Moving) = {t} /\ q[t].nbytes = n /\ n \in Nat
    BY <1>1, <1>3
  <2>2. Held' = HeldOf(p, q, a)
    BY HeldEquals
  <2> HIDE DEF p, q, a
  <2> QED BY <1>0, <2>1, <2>2, HeldOne
<1>5. head' \in 0 .. Size - 1 /\ head' = IF head + n < Size THEN head + n ELSE head + n - Size
  <2>1. n \in 0 .. Size
    BY <1>1, <1>3
  <2> QED BY <1>2, <1>3, <2>1, Round DEF Forward
<1>6. tail' = Forward(head', Held')
  <2>1. avail \in 0 .. Size /\ avail - n \in 0 .. Size
    BY <1>1, <1>3
  <2>2. Forward(head, avail) = IF head + avail < Size THEN head + avail ELSE head + avail - Size
    BY <1>3, <2>1, Round DEF Forward
  <2> DEFINE h == head'
             m == avail - n
  <2>3. h \in 0 .. Size - 1 /\ m \in 0 .. Size /\ Held' = m
    BY <1>4, <1>5, <2>1
  <2> HIDE DEF h, m
  <2>4. Forward(h, m) = IF h + m < Size THEN h + m ELSE h + m - Size
    BY <1>3, <2>3, Round DEF Forward
  <2>5. Forward(h, m) = Forward(head, avail)
    BY <1>1, <1>3, <1>5, <2>1, <2>2, <2>4 DEF h, m
  <2> QED BY <1>1, <1>2, <2>3, <2>5 DEF h
<1> DEFINE c == Window(buf, Size, head, avail)
<1>7. /\ Stored(Held) = c /\ Stored(n) = Window(buf, Size, head, n)
      /\ c \in Seq(Byte) /\ Len(c) = avail
  <2>1. avail \in 0 .. Size /\ avail \in Nat /\ n \in Nat
    BY <1>1, <1>3
  <2> QED BY <1>1, <1>3, <2>1, StoredWindow, WindowProperties
<1>8. IInv'
  <2>1. Stored(n) \in Seq(Byte)
    <3>1. n \in 0 .. Size
      BY <1>1, <1>3
    <3> QED BY <1>3, <1>7, <3>1, WindowProperties
  <2>2. PipeTyped'
    BY <1>0, <1>1, <1>2, <1>5, <2>1 DEF IInv, PipeTyped, Index
  <2>3. n \in 1 .. Available(t)'
    BY <1>1 DEF Available
  <2>4. Amounts'
    BY <1>1, <1>6, <2>3 DEF Amounts
  <2> QED BY <1>1, <2>2, <2>4 DEF IInv
<1>9. Stored(Held)' = Window(buf, Size, head', avail - n)
  <2>1. PICK h \in Index : h = head'
    BY <1>5 DEF Index
  <2>4. PICK m \in Nat : m = avail - n
    BY <1>1, <1>3
  <2>2. Stored(m)' = Window(buf', Size, h, m)
    BY <2>1, StoredWindowNext
  <2>3. Stored(Held)' = Stored(m)'
    BY <1>4, <2>4 DEF Stored
  <2> QED BY <1>2, <2>1, <2>2, <2>3, <2>4
<1>10. /\ SubSeq(c, 1, n) = Window(buf, Size, head, n)
       /\ SubSeq(c, n + 1, avail) = Window(buf, Size, head', avail - n)
  <2> DEFINE b == buf
             h == head
             k == avail
             i == n
  <2>1. IsBuffer(b, Size, Byte) /\ h \in 0 .. Size - 1 /\ k \in 1 .. Size /\ i \in 1 .. k
    BY <1>1, <1>3
  <2> DEFINE g == head'
  <2>3. head' = g
    OBVIOUS
  <2>4. TakesOut(b, Size, Byte, h, k, i, g)
    BY <1>2, <1>3, <2>1 DEF Forward, TakesOut
  <2> HIDE DEF b, h, k, i, g
  <2>2. /\ SubSeq(Window(b, Size, h, k), 1, i) = Window(b, Size, h, i)
        /\ SubSeq(Window(b, Size, h, k), i + 1, k) = Window(b, Size, g, k - i)
    BY <2>4, WindowTaken
  <2> QED BY <2>2, <2>3 DEF b, h, k, i
<1>11. /\ n \in 1 .. Len(Stored(Held))
       /\ handed' = [task |-> t, items |-> SubSeq(Stored(Held), 1, n)]
       /\ Stored(Held)' = SubSeq(Stored(Held), n + 1, Len(Stored(Held)))
  BY <1>1, <1>2, <1>7, <1>9, <1>10
<1> QED BY <1>8, <1>11 DEF Promise!Get

(***************************************************************************)
(* A writer puts its bytes behind those that are inside.                   *)
(***************************************************************************)
LEMMA CopyWriter ==
  ASSUME IInv, NEW t \in Task \ Readers, Copy(t)
  PROVE  IInv' /\ Promise!Put
<1> DEFINE n == Min({Len(call[t].data), Available(t)})
<1>1. /\ Kept(w', pc', owner') /\ n \in 1 .. Size - avail /\ Held = avail /\ tail = Forward(head, avail)
      /\ n <= Len(call[t].data)
      /\ avail' = avail /\ call' \in [Task -> CallRecords] /\ call'[t].nbytes = n
      /\ TasksAt(pc', Moving) = {t}
      /\ \A u \in Task : /\ pc'[u] # "idle" => Len(call'[u].data) > 0
                         /\ pc'[u] \in Moving => u = t
  BY CopyFinds DEF Available
<1>2. /\ handed' = Nothing /\ tail' = Forward(tail, n) /\ head' = head
      /\ buf' = [i \in Index |-> IF Offset(i) < n THEN call[t].data[Offset(i) + 1] ELSE buf[i]]
  BY DEF Copy
<1> HIDE DEF n
<1>3. /\ Size \in Nat \ {0} /\ avail \in 0 .. Size /\ head \in 0 .. Size - 1 /\ tail \in 0 .. Size - 1
      /\ IsBuffer(buf, Size, Byte) /\ call[t].data \in Seq(Byte)
  BY PipeAssumption, CallFields DEF IInv, PipeTyped, Index
<1>4. Held' = avail + n /\ avail + n \in 0 .. Size /\ n \in 0 .. Size
  <2> DEFINE p == pc'
             q == call'
             a == avail'
  <2>1. a = avail /\ a \in Nat /\ TasksAt(p, Moving) = {t} /\ q[t].nbytes = n /\ n \in Nat
    BY <1>1, <1>3
  <2>2. Held' = HeldOf(p, q, a)
    BY HeldEquals
  <2>3. avail + n \in 0 .. Size /\ n \in 0 .. Size
    BY <1>1, <1>3
  <2> HIDE DEF p, q, a
  <2> QED BY <2>1, <2>2, <2>3, HeldOne
<1>5. tail' \in 0 .. Size - 1 /\ tail' = Forward(head', Held')
  <2>1. Forward(head, avail) = IF head + avail < Size THEN head + avail ELSE head + avail - Size
    BY <1>3, Round DEF Forward
  <2>2. /\ Forward(tail, n) \in 0 .. Size - 1
        /\ Forward(tail, n) = IF tail + n < Size THEN tail + n ELSE tail + n - Size
    BY <1>3, <1>4, Round DEF Forward
  <2> DEFINE m == avail + n
  <2>3. m \in 0 .. Size
    BY <1>4
  <2> HIDE DEF m
  <2>4. Forward(head, m) = IF head + m < Size THEN head + m ELSE head + m - Size
    BY <1>3, <2>3, Round DEF Forward
  <2>5. Forward(head, m) = Forward(tail, n)
    BY <1>1, <1>3, <1>4, <2>1, <2>2, <2>4 DEF m
  <2> QED BY <1>2, <1>4, <2>2, <2>5 DEF m
<1> DEFINE d == [i \in 1 .. n |-> call[t].data[i]]
<1>6. d \in [1 .. n -> Byte]
  <2>1. \A i \in 1 .. Len(call[t].data) : call[t].data[i] \in Byte
    BY <1>3, ElementOfSeq
  <2>2. Len(call[t].data) \in Nat
    BY <1>3, LenProperties
  <2> QED BY <1>1, <2>1, <2>2
<1>7. Written(buf, buf', Size, Byte, tail, n, d) /\ IsBuffer(buf', Size, Byte)
  <2>1. ASSUME NEW i \in 0 .. Size - 1
        PROVE  /\ buf'[i] = IF (i - tail) % Size < n THEN d[((i - tail) % Size) + 1] ELSE buf[i]
               /\ buf'[i] \in Byte
    <3> DEFINE z == (i - tail) % Size
    <3>1. z \in 0 .. Size - 1
      BY <1>3, Distance
    <3>2. buf'[i] = IF z < n THEN call[t].data[z + 1] ELSE buf[i]
      BY <1>2 DEF Offset, Index
    <3>3. buf[i] \in Byte
      BY <1>3 DEF IsBuffer
    <3> HIDE DEF z
    <3>4. z < n => z + 1 \in 1 .. n
      BY <1>1, <1>3, <3>1
    <3>5. z < n => d[z + 1] = call[t].data[z + 1] /\ d[z + 1] \in Byte
      BY <1>6, <3>4
    <3>6. buf'[i] = (IF z < n THEN d[z + 1] ELSE buf[i]) /\ buf'[i] \in Byte
      BY <3>2, <3>3, <3>5
    <3> QED BY <3>6 DEF z
  <2> HIDE DEF d
  <2>2. Written(buf, buf', Size, Byte, tail, n, d)
    BY <1>6, <2>1 DEF Written
  <2>3. buf' \in [0 .. Size - 1 -> Byte]
    BY <1>2, <2>1 DEF Index
  <2> QED BY <1>3, <2>2, <2>3 DEF IsBuffer
<1> HIDE DEF d
<1>8. IInv'
  <2>1. PipeTyped'
    <3>1. Nothing \in [task : Task \cup {NoTask}, items : Seq(Byte)]
      BY DEF Nothing
    <3> QED BY <1>1, <1>2, <1>5, <1>7, <3>1 DEF IInv, PipeTyped, Index
  <2>2. n \in 1 .. Available(t)'
    BY <1>1 DEF Available
  <2>3. Amounts'
    BY <1>1, <1>5, <2>2 DEF Amounts
  <2> QED BY <1>1, <2>1, <2>3 DEF IInv
<1> DEFINE c == Window(buf, Size, head, avail)
<1>9. Stored(Held) = c /\ Len(c) = avail
  <2>1. avail \in Nat
    BY <1>3
  <2>2. Stored(Held) = c
    BY <1>1, <2>1, StoredWindow
  <2> HIDE DEF c
  <2>3. HasIn(buf, Size, Byte, head, avail)
    BY <1>3 DEF HasIn
  <2>4. Len(Window(buf, Size, head, avail)) = avail
    BY <2>3, WindowLength
  <2> QED BY <2>2, <2>4 DEF c
<1>10. Stored(Held)' = Window(buf', Size, head, avail + n)
  <2>1. PICK h \in Index : h = head
    BY <1>3 DEF Index
  <2>4. PICK m \in Nat : m = avail + n
    BY <1>1, <1>3
  <2>5. head' = h
    BY <1>2, <2>1
  <2>2. Stored(m)' = Window(buf', Size, h, m)
    BY <2>5, StoredWindowNext
  <2>3. Stored(Held)' = Stored(m)'
    BY <1>4, <2>4 DEF Stored
  <2> QED BY <2>1, <2>2, <2>3, <2>4
<1>11. Window(buf', Size, head, avail + n) = c \o d
  <2>1. Written(buf, buf', Size, Byte, (head + avail) % Size, n, d)
    BY <1>1, <1>7 DEF Forward
  <2> DEFINE b == buf'
             x == (head + avail) % Size
  <2>2. IsBuffer(b, Size, Byte) /\ Written(buf, b, Size, Byte, x, n, d)
    BY <1>7, <2>1
  <2> HIDE DEF b
  <2>3. HasIn(buf, Size, Byte, head, avail) /\ n \in 1 .. Size - avail
    BY <1>1, <1>3 DEF HasIn
  <2>4. Puts(buf, b, Size, Byte, head, avail, n, d)
    BY <2>2, <2>3 DEF Puts, x
  <2>5. Window(b, Size, head, avail + n) = Window(buf, Size, head, avail) \o d
    BY <2>4, WindowPut
  <2> QED BY <2>5 DEF b
<1>12. /\ n \in 1 .. Size - Len(Stored(Held)) /\ d \in [1 .. n -> Byte]
       /\ Stored(Held)' = Stored(Held) \o d
  BY <1>1, <1>6, <1>9, <1>10, <1>11
<1>13. handed' = Promise!Nothing
  BY <1>2 DEF Nothing, Promise!Nothing
<1> QED BY <1>8, <1>12, <1>13 DEF Promise!Put

-----------------------------------------------------------------------------
(***************************************************************************)
(* CreatePipe.                                                             *)
(***************************************************************************)
LEMMA InitKeeps ==
  ASSUME Init
  PROVE  IInv /\ Promise!Init
<1>1. /\ Size \in Nat \ {0} /\ 0 \in Index /\ 0 \in 0 .. Size /\ (CHOOSE b \in Byte : TRUE) \in Byte
  BY PipeAssumption DEF Index
<1> DEFINE v == [s \in Sem |-> 1]
           l == [q \in Sem \cup Cond |-> <<>>]
           b == [t \in Task |-> FALSE]
<1>2. w = [value |-> v, list |-> l, timed |-> {}, success |-> b]
  BY DEF Init
<1>3. /\ v \in [Sem -> Nat] /\ l \in [Queue -> Seq(Task)] /\ b \in [Task -> BOOLEAN]
      /\ v[mon] = 1 /\ \A q \in Queue : l[q] = <<>>
  BY Names DEF Queue
<1> HIDE DEF v, l, b
<1>4. w \in Records /\ w.list = l /\ w.value = v /\ w.timed = {}
  BY <1>2, <1>3 DEF Records
<1>5. \A t \in Task : where(w)[t] = {}
  BY <1>3, <1>4 DEF where, WaitingIn, ToSet
<1>6. Linked(w)
  <2>1. \A q \in Queue : NoRepetition(w.list[q])
    BY <1>3, <1>4 DEF NoRepetition
  <2> QED BY <1>4, <1>5, <2>1 DEF Linked
<1>7. pc \in [Task -> Places] /\ \A t \in Task : pc[t] = "idle"
  BY DEF Init, Places
<1>8. TasksAt(pc, Inside) = {} /\ TasksAt(pc, Asking) = {} /\ TasksAt(pc, Moving) = {}
  BY <1>7 DEF TasksAt, Inside, Asking, Moving
<1>9. Locked(w, mon, {}, {})
  <2>1. Past(w, mon, {}, {}) = {}
    BY DEF Past
  <2>2. w.value[mon] = 1 /\ 1 <= 1
    BY <1>3, <1>4
  <2> QED BY <1>5, <2>1, <2>2 DEF Locked
<1>10. Kept(w, pc, owner)
  <2>1. \A t \in Task : Seated(w, pc, owner, t)
    BY <1>5, <1>7 DEF Seated, Asking, Inside
  <2> QED BY <1>6, <1>7, <1>8, <1>9, <2>1 DEF Kept, Init
<1>11. Held = 0
  BY <1>8, HeldEquals, HeldNone DEF Init
<1>12. PipeTyped
  <2>1. IsBuffer(buf, Size, Byte)
    BY <1>1 DEF Init, IsBuffer, Index
  <2>2. call \in [Task -> CallRecords]
    <3>1. <<>> \in Seq(Byte) /\ 0 \in Waits
      BY DEF Waits
    <3>2. NoCall \in CallRecords
      BY <3>1, NoCallRecord
    <3> QED BY <3>2 DEF Init
  <2>3. handed \in [task : Task \cup {NoTask}, items : Seq(Byte)]
    BY DEF Init, Nothing
  <2> QED BY <1>1, <2>1, <2>2, <2>3 DEF PipeTyped, Init
<1>13. Amounts
  <2>1. Forward(0, 0) = 0
    <3>1. 0 \in 0 .. Size - 1 /\ 0 \in 0 .. Size
      BY <1>1
    <3> QED BY <1>1, <3>1, Round DEF Forward
  <2> QED BY <1>7, <1>11, <2>1 DEF Amounts, Init, Moving
<1>14. Stored(Held) = <<>>
  <2>1. Stored(Held) = [i \in 1 .. 0 |-> buf[Forward(head, i - 1)]]
    BY <1>11 DEF Stored
  <2>2. 1 .. 0 = {}
    OBVIOUS
  <2> QED BY <2>1, <2>2
<1> QED BY <1>10, <1>12, <1>13, <1>14 DEF IInv, Promise!Init, Promise!Nothing, Init, Nothing

(***************************************************************************)
(* Every step keeps the invariant, and is a step of the channel or leaves  *)
(* what is inside as it is.                                                *)
(***************************************************************************)
LEMMA NextKeeps ==
  ASSUME IInv, [Next]_vars
  PROVE  IInv' /\ [Promise!Next]_<<Stored(Held), handed>>
<1>1. CASE UNCHANGED vars
  <2>1. /\ w' = w /\ owner' = owner /\ buf' = buf /\ head' = head /\ tail' = tail /\ avail' = avail
        /\ pc' = pc /\ call' = call /\ handed' = handed
    BY <1>1 DEF vars
  <2>2. Kept(w', pc', owner')
    BY <2>1 DEF IInv
  <2>3. Held' = Held
    BY <2>1, HeldEquals
  <2>4. PipeTyped' /\ Amounts'
    BY <2>1, <2>3 DEF IInv, PipeTyped, Amounts, Available
  <2>5. Stored(Held)' = Stored(Held)
    BY <2>1, <2>3 DEF Stored
  <2> QED BY <2>1, <2>2, <2>4, <2>5 DEF IInv
<1>2. ASSUME NEW t \in Task, Call(t) \/ GoesOn(t) \/ TimesOutOf(t)
      PROVE  Stutters \/ (IInv' /\ (Promise!Put \/ \E u \in Task : Promise!Get(u)))
  <2>1. CASE Call(t)
    BY <2>1, EnterMonitorKeeps DEF Call
  <2>2. CASE Entered(t)
    BY <2>2, EnteredKeeps
  <2>3. CASE WaitCondition(t)
    BY <2>3, WaitConditionKeeps
  <2>4. CASE Woken(t)
    BY <2>4, WokenKeeps
  <2>5. CASE Reentered(t)
    BY <2>5, ReenteredKeeps
  <2>6. CASE Copy(t)
    <3>1. CASE t \in Readers
      BY <2>6, <3>1, CopyReader
    <3>2. CASE t \notin Readers
      BY <2>6, <3>2, CopyWriter
    <3> QED BY <3>1, <3>2
  <2>7. CASE SignalCondition(t)
    BY <2>7, SignalConditionKeeps
  <2>8. CASE Update(t)
    BY <2>8, UpdateKeeps
  <2>9. CASE LeaveMonitor(t)
    BY <2>9, LeaveMonitorKeeps
  <2>10. CASE TimesOutOf(t)
    BY <2>10, TimesOutOfKeeps
  <2> QED BY <1>2, <2>1, <2>2, <2>3, <2>4, <2>5, <2>6, <2>7, <2>8, <2>9, <2>10 DEF GoesOn
<1>3. CASE Next
  <2>1. PICK t \in Task : Call(t) \/ GoesOn(t) \/ TimesOutOf(t)
    BY <1>3 DEF Next
  <2> QED BY <1>2, <2>1 DEF Stutters, Promise!Next
<1> QED BY <1>1, <1>3

(***************************************************************************)
(* The inductive invariant holds: pipe.c over monitor.c, as tasks call it. *)
(***************************************************************************)
THEOREM IInvHolds == Spec => []IInv
<1>1. Init => IInv
  BY InitKeeps
<1>2. IInv /\ [Next]_vars => IInv'
  BY NextKeeps
<1> QED BY <1>1, <1>2, PTL DEF Spec

(***************************************************************************)
(* The variables have their types; the count of the monitor is 0 or 1.     *)
(***************************************************************************)
THEOREM TypeCorrect == Spec => []TypeOK
<1>1. IInv => TypeOK
  <2> SUFFICES ASSUME IInv PROVE TypeOK
    OBVIOUS
  <2>1. /\ w \in Records /\ w.value \in [Sem -> Nat] /\ w.list \in [Queue -> Seq(Task)]
        /\ w.timed \subseteq Task /\ w.success \in [Task -> BOOLEAN] /\ w.value[mon] <= 1
    BY RecordsFields DEF IInv, Kept, Linked, Locked
  <2>2. w.value \in [Sem -> 0 .. 1]
    BY <2>1, PipeAssumption
  <2>3. w \in [value : [Sem -> 0 .. 1], list : [Sem \cup Cond -> Seq(Task)],
               timed : SUBSET Task, success : [Task -> BOOLEAN]]
    BY <2>1, <2>2 DEF Records, Queue
  <2>4. buf \in [Index -> Byte]
    BY DEF IInv, PipeTyped, IsBuffer, Index
  <2> QED BY <2>3, <2>4 DEF TypeOK, IInv, PipeTyped, Kept, CallRecords
<1> QED BY <1>1, IInvHolds, PTL

(***************************************************************************)
(* One task at a time is in the monitor (monitor.c), also around the waits *)
(* for a condition, and it is the owner.                                   *)
(***************************************************************************)
THEOREM MutualExclusionHolds == Spec => []MutualExclusion
<1>1. IInv => MutualExclusion
  <2> SUFFICES ASSUME IInv PROVE MutualExclusion
    OBVIOUS
  <2>1. \A t \in Task : pc[t] \in Inside => owner = t
    BY DEF IInv, Kept, Seated
  <2>2. ASSUME NEW t \in Task, pc[t] \in Inside \/ (pc[t] \in {"enter", "reenter"} /\ Runs(w, t))
        PROVE  w.value[mon] = 0
    <3>1. t \in Past(w, mon, TasksAt(pc, Inside), TasksAt(pc, Asking))
      BY <2>2, RunsNowhere DEF Past, TasksAt, Asking, IInv, Kept, Seated
    <3>2. w.value[mon] \in Nat /\ w.value[mon] <= 1
      BY Names, RecordsFields DEF IInv, Kept, Linked, Locked
    <3>3. w.value[mon] # 1
      BY <3>1 DEF IInv, Kept, Locked
    <3> QED BY <3>2, <3>3
  <2> QED BY <2>1, <2>2 DEF MutualExclusion
<1> QED BY <1>1, IInvHolds, PTL

(***************************************************************************)
(* The pipe implements the channel: the bytes come out once, in the order  *)
(* they went in, and never more than Size of them are inside.              *)
(***************************************************************************)
THEOREM PipeImplementsChannel == Spec => ImplementsChannel
<1>1. Init => Promise!Init
  BY InitKeeps
<1>2. IInv /\ [Next]_vars => [Promise!Next]_<<Stored(Held), handed>>
  BY NextKeeps
<1> QED BY <1>1, <1>2, IInvHolds, PTL DEF Spec, ImplementsChannel, Promise!Spec
-----------------------------------------------------------------------------
(* Lost wakeups.                                                           *)

(* Available, of any data.                                                 *)
Room(t, a) == IF t \in Readers THEN a ELSE Size - a

(* A task that will look into the pipe, or has and takes what is there.    *)
Coming(v, p, c, t) ==
  \/ p[t] \in {"enter", "test", "signal", "update"}
  \/ p[t] = "woken" /\ where(v)[t] = {} /\ v.success[t]
  \/ p[t] = "reenter" /\ c[t].success

(* A task that sleeps while there is something for it, or is about to be.  *)
Owed(v, p, a, t) ==
  /\ p[t] = "woken" /\ where(v)[t] # {}
  /\ Room(t, a) # 0 \/ \E u \in Task \ Side(t) : p[u] = "update"

(* When one sleeps so, one of its side is coming: v, p, c and a are w, pc, *)
(* call and avail.                                                         *)
Due(v, p, c, a) ==
  \A t \in Task : Owed(v, p, a, t) => \E u \in Side(t) : Coming(v, p, c, u)

(* A task that asks for enough takes all there is.                         *)
Whole(p, c, a) ==
  \A t \in Task :
    /\ p[t] # "idle" => Len(c[t].data) \in Sizes[t]
    /\ p[t] \in Moving /\ Len(c[t].data) >= Size => c[t].nbytes = Room(t, a)

Awaited == Due(w, pc, call, avail) /\ Whole(pc, call, avail)

(***************************************************************************)
(* The tasks of a side have the same condition and the same room; those of *)
(* the other side have the condition that they signal.                     *)
(***************************************************************************)
LEMMA Sides ==
  ASSUME NEW t \in Task, NEW u \in Task
  PROVE  /\ Side(t) \subseteq Task /\ t \in Side(t) /\ (u \in Side(t) <=> t \in Side(u))
         /\ Room(t, avail) = Available(t)
         /\ u \in Side(t) => Side(u) = Side(t) /\ Own(u) = Own(t) /\ \A a : Room(u, a) = Room(t, a)
         /\ u \notin Side(t) => Own(u) = Other(t)
         /\ Own(u) = Own(t) => u \in Side(t)
BY PipeAssumption DEF Side, Room, Available, Own, Other

(***************************************************************************)
(* A step of one task that does not go to sleep and does not move bytes,   *)
(* and is still coming if it was, leaves the sleepers as they were.        *)
(***************************************************************************)
LEMMA DueKept ==
  ASSUME NEW t \in Task, Due(w, pc, call, avail),
         \A u \in Task : u # t =>
           /\ pc'[u] = pc[u] /\ call'[u] = call[u]
           /\ pc[u] = "woken" => where(w')[u] = where(w)[u] /\ w'.success[u] = w.success[u],
         pc'[t] = "woken" => where(w')[t] = {},
         Coming(w, pc, call, t) => Coming(w', pc', call', t),
         pc'[t] = "update" => pc[t] = "update"
  PROVE  Due(w', pc', call', avail)
<1> SUFFICES ASSUME NEW x \in Task, Owed(w', pc', avail, x)
             PROVE  \E u \in Side(x) : Coming(w', pc', call', u)
  BY DEF Due
<1>1. x # t
  BY DEF Owed
<1>2. \A u \in Task : pc'[u] = "update" => pc[u] = "update"
  OBVIOUS
<1>3. Owed(w, pc, avail, x)
  BY <1>1, <1>2 DEF Owed
<1>4. PICK u \in Side(x) : Coming(w, pc, call, u)
  BY <1>3 DEF Due
<1>5. u \in Task
  BY Sides
<1>6. u # t => Coming(w', pc', call', u)
  BY <1>4, <1>5 DEF Coming
<1> QED BY <1>4, <1>6

(***************************************************************************)
(* A step of one task that does not bring avail up to date, and begins or  *)
(* ends its call, or not, as it should.                                    *)
(***************************************************************************)
LEMMA WholeKept ==
  ASSUME NEW t \in Task, Whole(pc, call, avail),
         \A u \in Task : u # t => pc'[u] = pc[u] /\ call'[u] = call[u],
         pc'[t] # "idle" => Len(call'[t].data) \in Sizes[t],
         pc'[t] \in Moving /\ Len(call'[t].data) >= Size => call'[t].nbytes = Room(t, avail)
  PROVE  Whole(pc', call', avail)
BY DEF Whole

(***************************************************************************)
(* What a call asks for.                                                   *)
(***************************************************************************)
LEMMA DataLength ==
  ASSUME NEW t \in Task, NEW data \in Data(t)
  PROVE  Len(data) \in Sizes[t]
<1>1. PICK n \in Sizes[t] :
        data \in IF t \in Readers THEN {[i \in 1 .. n |-> CHOOSE b \in Byte : TRUE]}
                 ELSE [1 .. n -> Byte]
  BY DEF Data
<1>2. n \in Nat /\ n > 0 /\ (CHOOSE b \in Byte : TRUE) \in Byte
  BY PipeAssumption
<1>3. data \in [1 .. n -> Byte]
  BY <1>1, <1>2
<1>4. data \in Seq(Byte)
  BY <1>2, <1>3, SeqDef
<1>5. Len(data) = n
  BY <1>2, <1>3, <1>4, LenProperties
<1> QED BY <1>5

(***************************************************************************)
(* What is known of the data before a step.                                *)
(***************************************************************************)
LEMMA AwaitedFacts ==
  ASSUME IInv, Awaited
  PROVE  /\ Linked(w) /\ w.success \in [Task -> BOOLEAN] /\ w.value \in [Sem -> Nat]
         /\ pc \in [Task -> Places] /\ call \in [Task -> CallRecords]
         /\ Size \in Nat \ {0} /\ avail \in 0 .. Size
         /\ Due(w, pc, call, avail) /\ Whole(pc, call, avail)
         /\ \A t \in Task : /\ pc[t] = "woken" => where(w)[t] = {} \/ where(w)[t] = {Own(t)}
                            /\ pc[t] \in Inside => where(w)[t] = {}
                            /\ Len(call[t].data) \in Nat
<1>1. /\ Linked(w) /\ w.success \in [Task -> BOOLEAN] /\ w.value \in [Sem -> Nat]
      /\ pc \in [Task -> Places] /\ call \in [Task -> CallRecords]
      /\ Size \in Nat \ {0} /\ avail \in 0 .. Size
      /\ Due(w, pc, call, avail) /\ Whole(pc, call, avail)
  BY PipeAssumption, RecordsFields DEF IInv, Kept, Linked, PipeTyped, Awaited
<1>2. ASSUME NEW t \in Task
      PROVE  /\ pc[t] = "woken" => where(w)[t] = {} \/ where(w)[t] = {Own(t)}
             /\ pc[t] \in Inside => where(w)[t] = {}
  BY DEF IInv, Kept, Seated, Inside, Asking
<1>3. \A t \in Task : Len(call[t].data) \in Nat
  <2> TAKE t \in Task
  <2>1. call[t].data \in Seq(Byte)
    BY <1>1, CallFields
  <2> QED BY <2>1, LenProperties
<1> QED BY <1>1, <1>2, <1>3

(***************************************************************************)
(* A task that asks for the monitor, or gets its answer, leaves the others *)
(* as they are.                                                            *)
(***************************************************************************)
LEMMA AskingDisturbs ==
  ASSUME NEW v, Linked(v), NEW t \in Task, NEW e,
         \/ where(v)[t] = {} /\ e = WaitSem(v, t, mon, FOREVER)
         \/ e = Returned(v, t)
  PROVE  \A u \in Task : u # t => where(e)[u] = where(v)[u] /\ e.success[u] = v.success[u]
<1>1. v.success \in [Task -> BOOLEAN]
  BY RecordsFields DEF Linked
<1>2. \/ Passes(v, e, t, mon) \/ Joins(v, e, t, mon)
      \/ Stays(v, e) /\ e.success = [v.success EXCEPT ![t] = FALSE]
  BY Names, WaitSemEffect, ReturnedEffect
<1> QED BY <1>1, <1>2 DEF Passes, Joins, Stays, where

(***************************************************************************)
(* A task that leaves the monitor wakes none that waits for a condition.   *)
(***************************************************************************)
LEMMA LeavingDisturbs ==
  ASSUME NEW v, Linked(v), NEW u \in Task, where(v)[u] # {mon}
  PROVE  where(SignalSem(v, mon))[u] = where(v)[u] /\ SignalSem(v, mon).success[u] = v.success[u]
<1> DEFINE e == SignalSem(v, mon)
<1>1. v.success \in [Task -> BOOLEAN]
  BY RecordsFields DEF Linked
<1>2. Raises(v, e, mon) \/ \E x \in Task : Wakes(v, e, x, mon, TRUE)
  BY Names, SignalSemEffect
<1> HIDE DEF e
<1> QED BY <1>1, <1>2 DEF Raises, Wakes, Stays, where, e

(***************************************************************************)
(* EnterMonitor.                                                           *)
(***************************************************************************)
LEMMA EnterMonitorAwaited ==
  ASSUME IInv, Awaited, NEW t \in Task, NEW data \in Data(t), NEW n \in Waits,
         EnterMonitor(t, data, n)
  PROVE  Awaited'
<1>1. pc[t] = "idle" /\ where(w)[t] = {}
  BY AtNowhere DEF EnterMonitor
<1> DEFINE r == [NoCall EXCEPT !.data = data, !.msecs = n]
<1>2. /\ w' = WaitSem(w, t, mon, FOREVER) /\ pc' = [pc EXCEPT ![t] = "enter"]
      /\ call' = [call EXCEPT ![t] = r] /\ avail' = avail
  BY DEF EnterMonitor, GoTo, buffer
<1>3. Len(r.data) \in Sizes[t]
  <2>1. data \in Seq(Byte) /\ Len(data) \in Sizes[t]
    BY DataProperties, DataLength
  <2>2. r.data = data
    BY <2>1, NoCallRecord
  <2> QED BY <2>1, <2>2
<1> HIDE DEF r
<1>4. /\ pc'[t] = "enter" /\ call'[t] = r
      /\ \A u \in Task : u # t => pc'[u] = pc[u] /\ call'[u] = call[u]
  BY <1>2, AwaitedFacts
<1>5. \A u \in Task : u # t => where(w')[u] = where(w)[u] /\ w'.success[u] = w.success[u]
  BY <1>1, <1>2, AwaitedFacts, AskingDisturbs
<1>6. Coming(w', pc', call', t)
  BY <1>4 DEF Coming
<1>7. Due(w', pc', call', avail)
  BY <1>4, <1>5, <1>6, AwaitedFacts, DueKept
<1>8. Whole(pc', call', avail)
  BY <1>3, <1>4, AwaitedFacts, WholeKept DEF Moving
<1> QED BY <1>2, <1>7, <1>8 DEF Awaited

(***************************************************************************)
(* The ways back of EnterMonitor and of WaitConditionTimed.                *)
(***************************************************************************)
LEMMA AnsweredAwaited ==
  ASSUME IInv, Awaited, NEW t \in Task, Entered(t) \/ Reentered(t)
  PROVE  Awaited'
<1> DEFINE k == IF pc[t] = "enter" \/ call[t].success THEN "test" ELSE "leave"
<1>1. /\ pc[t] \in {"enter", "reenter"} /\ w' = Returned(w, t) /\ pc' = [pc EXCEPT ![t] = k]
      /\ call' = call /\ avail' = avail
  <2>1. CASE Entered(t)
    BY <2>1, AtNowhere DEF Entered, GoTo, buffer
  <2>2. CASE Reentered(t)
    <3>1. pc[t] = "reenter"
      BY <2>2, AtNowhere DEF Reentered
    <3>2. k = IF call[t].success THEN "test" ELSE "leave"
      BY <3>1
    <3> HIDE DEF k
    <3>3. pc' = [pc EXCEPT ![t] = k]
      BY <2>2, <3>2 DEF Reentered, GoTo
    <3> QED BY <2>2, <3>1, <3>3 DEF Reentered, buffer
  <2> QED BY <2>1, <2>2
<1>2. pc'[t] = k /\ \A u \in Task : u # t => pc'[u] = pc[u] /\ call'[u] = call[u]
  BY <1>1, AwaitedFacts
<1>3. \A u \in Task : u # t => where(w')[u] = where(w)[u] /\ w'.success[u] = w.success[u]
  BY <1>1, AwaitedFacts, AskingDisturbs
<1>4. Coming(w, pc, call, t) => Coming(w', pc', call', t)
  BY <1>1, <1>2 DEF Coming
<1>5. pc'[t] \notin {"woken", "update", "signal", "idle"} /\ pc[t] # "idle"
  BY <1>1, <1>2
<1>6. Due(w', pc', call', avail)
  BY <1>2, <1>3, <1>4, <1>5, AwaitedFacts, DueKept
<1>7. Len(call'[t].data) \in Sizes[t]
  BY <1>1, <1>5, AwaitedFacts DEF Whole
<1>8. Whole(pc', call', avail)
  BY <1>2, <1>5, <1>7, AwaitedFacts, WholeKept DEF Moving
<1> QED BY <1>1, <1>6, <1>8 DEF Awaited

(***************************************************************************)
(* WaitConditionTimed: a task goes to sleep because there is nothing for   *)
(* its side, and nobody else is inside.                                    *)
(***************************************************************************)
LEMMA WaitConditionAwaited ==
  ASSUME IInv, Awaited, NEW t \in Task, WaitCondition(t)
  PROVE  Awaited'
<1>1. pc[t] = "test" /\ Available(t) = 0
  BY AtNowhere DEF WaitCondition, MustWait
<1> DEFINE v == SignalSem(w, mon)
           n == call[t].msecs
           p == [pc EXCEPT ![t] = "woken"]
<1>2. /\ w' = WaitQueue(v, t, Own(t), n) /\ pc' = p /\ call' = call /\ avail' = avail
  BY DEF WaitCondition, GoTo, buffer
<1>3. Kept(v, p, NoTask) /\ where(v)[t] = {}
  BY <1>1, Leaves DEF IInv, Inside
<1>4. n \in Waits /\ Linked(v) /\ v.success \in [Task -> BOOLEAN]
  BY <1>3, AwaitedFacts, CallFields, RecordsFields DEF Kept, Linked
<1>5. \A u \in Task : u # t /\ pc[u] = "woken" =>
        where(v)[u] = where(w)[u] /\ v.success[u] = w.success[u]
  BY AwaitedFacts, Names, LeavingDisturbs
<1> HIDE DEF v, n
<1>6. \A u \in Task : u # t => where(w')[u] = where(v)[u] /\ w'.success[u] = v.success[u]
  <2>1. \/ Joins(v, w', t, Own(t))
        \/ Stays(v, w') /\ w'.success = [v.success EXCEPT ![t] = FALSE]
    BY <1>2, <1>3, <1>4, Names, WaitQueueEffect
  <2> QED BY <1>4, <2>1 DEF Joins, Stays, where
<1>7. pc'[t] = "woken" /\ \A u \in Task : u # t => pc'[u] = pc[u] /\ call'[u] = call[u]
  BY <1>2, AwaitedFacts
<1>8. \A u \in Task : pc'[u] # "update"
  BY <1>1, <1>7, Alone DEF IInv, Inside
<1>9. Due(w', pc', call', avail)
  <2> SUFFICES ASSUME NEW x \in Task, Owed(w', pc', avail, x)
               PROVE  \E u \in Side(x) : Coming(w', pc', call', u)
    BY DEF Due
  <2>1. Room(x, avail) # 0
    BY <1>8, Sides DEF Owed
  <2>2. x \notin Side(t)
    BY <1>1, <2>1, Sides
  <2>3. x # t /\ t \notin Side(x)
    BY <2>2, Sides
  <2>4. Owed(w, pc, avail, x)
    BY <1>5, <1>6, <1>7, <2>1, <2>3 DEF Owed
  <2>5. PICK u \in Side(x) : Coming(w, pc, call, u)
    BY <2>4, AwaitedFacts DEF Due
  <2>6. u \in Task /\ u # t
    BY <2>3, <2>5, Sides
  <2>7. Coming(w', pc', call', u)
    BY <1>5, <1>6, <1>7, <2>5, <2>6 DEF Coming
  <2> QED BY <2>5, <2>7
<1>10. Len(call'[t].data) \in Sizes[t]
  BY <1>1, <1>2, AwaitedFacts DEF Whole
<1>11. Whole(pc', call', avail)
  BY <1>7, <1>10, AwaitedFacts, WholeKept DEF Moving
<1> QED BY <1>2, <1>9, <1>11 DEF Awaited

(***************************************************************************)
(* The end of the wait: a task that was signalled tests again.             *)
(***************************************************************************)
LEMMA WokenAwaited ==
  ASSUME IInv, Awaited, NEW t \in Task, Woken(t)
  PROVE  Awaited'
<1>1. pc[t] = "woken" /\ where(w)[t] = {}
  BY AtNowhere DEF Woken
<1> DEFINE x == w.success[t]
           r == [call[t] EXCEPT !.success = x]
<1>2. /\ w' = WaitSem(w, t, mon, FOREVER) /\ pc' = [pc EXCEPT ![t] = "reenter"]
      /\ call' = [call EXCEPT ![t] = r] /\ avail' = avail
  BY AwaitedFacts DEF Woken, GoTo, buffer
<1>3. x \in BOOLEAN /\ call[t] \in CallRecords
  BY AwaitedFacts
<1>4. r.data = call[t].data /\ r.success = x
  BY <1>3 DEF CallRecords
<1> HIDE DEF r
<1>5. /\ pc'[t] = "reenter" /\ call'[t] = r
      /\ \A u \in Task : u # t => pc'[u] = pc[u] /\ call'[u] = call[u]
  BY <1>2, AwaitedFacts
<1>6. \A u \in Task : u # t => where(w')[u] = where(w)[u] /\ w'.success[u] = w.success[u]
  BY <1>1, <1>2, AwaitedFacts, AskingDisturbs
<1>7. Coming(w, pc, call, t) => Coming(w', pc', call', t)
  BY <1>1, <1>4, <1>5 DEF Coming
<1>8. Due(w', pc', call', avail)
  BY <1>5, <1>6, <1>7, AwaitedFacts, DueKept
<1>9. Len(call'[t].data) \in Sizes[t]
  BY <1>1, <1>4, <1>5, AwaitedFacts DEF Whole
<1>10. Whole(pc', call', avail)
  BY <1>5, <1>9, AwaitedFacts, WholeKept DEF Moving
<1> QED BY <1>2, <1>8, <1>10 DEF Awaited

(***************************************************************************)
(* LeaveMonitor.                                                           *)
(***************************************************************************)
LEMMA LeaveMonitorAwaited ==
  ASSUME IInv, Awaited, NEW t \in Task, LeaveMonitor(t)
  PROVE  Awaited'
<1>1. pc[t] = "leave"
  BY AtNowhere DEF LeaveMonitor
<1>2. /\ w' = SignalSem(w, mon) /\ pc' = [pc EXCEPT ![t] = "idle"]
      /\ call' = [call EXCEPT ![t] = NoCall] /\ avail' = avail
  BY DEF LeaveMonitor, GoTo, buffer
<1>3. /\ pc'[t] = "idle" /\ \A u \in Task : u # t => pc'[u] = pc[u] /\ call'[u] = call[u]
  BY <1>2, AwaitedFacts
<1>4. \A u \in Task : pc[u] = "woken" => where(w')[u] = where(w)[u] /\ w'.success[u] = w.success[u]
  BY <1>2, AwaitedFacts, Names, LeavingDisturbs
<1>5. ~ Coming(w, pc, call, t)
  BY <1>1 DEF Coming
<1>6. Due(w', pc', call', avail)
  BY <1>3, <1>4, <1>5, AwaitedFacts, DueKept
<1>7. Whole(pc', call', avail)
  BY <1>3, AwaitedFacts, WholeKept DEF Moving
<1> QED BY <1>2, <1>6, <1>7 DEF Awaited

(***************************************************************************)
(* The clock ends a wait: the task only stops to sleep.                    *)
(***************************************************************************)
LEMMA TimesOutOfAwaited ==
  ASSUME IInv, Awaited, NEW t \in Task, TimesOutOf(t)
  PROVE  Awaited'
<1>1. pc' = pc /\ call' = call /\ avail' = avail /\ TimesOut(w, t) /\ w' = TimeOut(w, t)
  BY DEF TimesOutOf, buffer
<1>2. PICK q \in Queue : Wakes(w, w', t, q, FALSE)
  BY <1>1, AwaitedFacts, TimeOutEffect
<1>3. /\ where(w)[t] # {} /\ where(w')[t] = {}
      /\ \A u \in Task : u # t => where(w')[u] = where(w)[u] /\ w'.success[u] = w.success[u]
  BY <1>2, AwaitedFacts DEF Wakes, where
<1>4. pc[t] = "woken"
  BY <1>1, <1>3 DEF IInv, Kept, Seated, TimesOut
<1>5. ~ Coming(w, pc, call, t)
  BY <1>3, <1>4 DEF Coming
<1>6. Due(w', pc', call', avail)
  BY <1>1, <1>3, <1>5, AwaitedFacts, DueKept
<1> QED BY <1>1, <1>6 DEF Awaited

(***************************************************************************)
(* The copying: the task is still on its way to bring avail up to date.    *)
(***************************************************************************)
LEMMA CopyAwaited ==
  ASSUME IInv, Awaited, NEW t \in Task, Copy(t)
  PROVE  Awaited'
<1> DEFINE n == Min({Len(call[t].data), Available(t)})
<1>1. pc[t] = "test"
  BY AtNowhere DEF Copy
<1>2. /\ w' = w /\ pc' = [pc EXCEPT ![t] = "signal"] /\ avail' = avail
      /\ call' = [call EXCEPT ![t].nbytes = n]
  BY DEF Copy, GoTo
<1>3. n \in 0 .. Size
  BY CopyFinds
<1>4. Len(call[t].data) >= Size => n = Available(t)
  <2> DEFINE a == Len(call[t].data)
             b == Available(t)
  <2>1. a \in Nat /\ b \in Nat /\ b <= Size /\ Size \in Nat
    BY AwaitedFacts DEF Available
  <2> HIDE DEF a, b
  <2>2. Min({a, b}) = IF a <= b THEN a ELSE b
    BY <2>1, MinOfTwo
  <2>3. a >= Size => Min({a, b}) = b
    BY <2>1, <2>2
  <2> QED BY <2>3 DEF a, b
<1> HIDE DEF n
<1> DEFINE r == [call[t] EXCEPT !.nbytes = n]
<1>5. r.data = call[t].data /\ r.nbytes = n
  BY <1>3, AwaitedFacts, CallFields
<1>6. call' = [call EXCEPT ![t] = r]
  BY <1>2, AwaitedFacts
<1> HIDE DEF r
<1>7. /\ pc'[t] = "signal" /\ call'[t] = r
      /\ \A u \in Task : u # t => pc'[u] = pc[u] /\ call'[u] = call[u]
  BY <1>2, <1>6, AwaitedFacts
<1>8. Coming(w', pc', call', t)
  BY <1>7 DEF Coming
<1>9. Due(w', pc', call', avail)
  BY <1>2, <1>7, <1>8, AwaitedFacts, DueKept
<1>10. Len(call'[t].data) \in Sizes[t]
  BY <1>1, <1>5, <1>7, AwaitedFacts DEF Whole
<1>11. Len(call'[t].data) >= Size => call'[t].nbytes = Room(t, avail)
  BY <1>4, <1>5, <1>7, Sides
<1>12. Whole(pc', call', avail)
  BY <1>7, <1>10, <1>11, AwaitedFacts, WholeKept
<1> QED BY <1>2, <1>9, <1>12 DEF Awaited

(***************************************************************************)
(* Those that wait for the condition of the other side are tasks of it.    *)
(***************************************************************************)
LEMMA SleepsForOther ==
  ASSUME IInv, NEW t \in Task, NEW u \in Task, where(w)[u] = {Other(t)}
  PROVE  pc[u] = "woken" /\ Own(u) = Other(t)
<1>1. Other(t) # mon
  BY Names
<1>2. pc[u] \notin Asking
  BY <1>1 DEF IInv, Kept, Locked, TasksAt
<1>3. pc[u] = "woken"
  BY <1>2 DEF IInv, Kept, Seated
<1> QED BY <1>3 DEF IInv, Kept, Seated

(***************************************************************************)
(* SignalCondition: the first byte, or the first room, wakes a task of the *)
(* other side if one sleeps.                                               *)
(***************************************************************************)
LEMMA SignalConditionAwaited ==
  ASSUME IInv, Awaited, NEW t \in Task, SignalCondition(t)
  PROVE  Awaited'
<1>1. pc[t] = "signal"
  BY AtNowhere DEF SignalCondition
<1>2. /\ pc' = [pc EXCEPT ![t] = "update"] /\ call' = call /\ avail' = avail
      /\ w' = IF Untouched(t) THEN SignalQueue(w, Other(t)) ELSE w
  BY DEF SignalCondition, GoTo, buffer
<1>3. /\ pc'[t] = "update" /\ \A u \in Task : u # t => pc'[u] = pc[u] /\ call'[u] = call[u]
  BY <1>2, AwaitedFacts
<1>4. \/ Untouched(t) /\ \E x \in Task : Wakes(w, w', x, Other(t), TRUE)
      \/ w' = w /\ (Untouched(t) => \A x \in Task : where(w)[x] # {Other(t)})
  BY <1>2, AwaitedFacts, Names, SignalQueueEffect
<1>5. Due(w', pc', call', avail)
  <2> SUFFICES ASSUME NEW x \in Task, Owed(w', pc', avail, x)
               PROVE  \E u \in Side(x) : Coming(w', pc', call', u)
    BY DEF Due
  <2>1. Coming(w', pc', call', t)
    BY <1>3 DEF Coming
  <2>2. CASE x \in Side(t)
    BY <2>1, <2>2, Sides
  <2>3. CASE x \notin Side(t)
    <3>1. x # t /\ pc[x] = "woken" /\ where(w')[x] # {} /\ Own(x) = Other(t)
      BY <1>3, <2>3, Sides DEF Owed
    <3>2. CASE \E u \in Task : Wakes(w, w', u, Other(t), TRUE)
      <4>1. PICK u \in Task : Wakes(w, w', u, Other(t), TRUE)
        BY <3>2
      <4>2. where(w)[u] = {Other(t)} /\ where(w')[u] = {} /\ w'.success[u]
        BY <4>1, AwaitedFacts DEF Wakes, where
      <4>3. pc[u] = "woken" /\ Own(u) = Other(t)
        BY <4>2, SleepsForOther
      <4>4. u # t /\ u \in Side(x)
        BY <1>1, <3>1, <4>3, Sides
      <4>5. Coming(w', pc', call', u)
        BY <1>3, <4>2, <4>3, <4>4 DEF Coming
      <4> QED BY <4>4, <4>5
    <3>3. CASE w' = w /\ (Untouched(t) => \A u \in Task : where(w)[u] # {Other(t)})
      <4>1. where(w)[x] = {Own(x)}
        BY <3>1, <3>3, AwaitedFacts
      <4>2. ~ Untouched(t)
        BY <3>1, <3>3, <4>1
      <4>3. Room(x, avail) # 0
        BY <2>3, <4>2, AwaitedFacts, PipeAssumption DEF Untouched, Room, Side
      <4>4. Owed(w, pc, avail, x)
        BY <3>1, <3>3, <4>3 DEF Owed
      <4>5. PICK u \in Side(x) : Coming(w, pc, call, u)
        BY <4>4, AwaitedFacts DEF Due
      <4>6. u \in Task /\ u # t
        BY <2>3, <4>5, Sides
      <4>7. Coming(w', pc', call', u)
        BY <1>3, <3>3, <4>5, <4>6 DEF Coming
      <4> QED BY <4>5, <4>7
    <3> QED BY <1>4, <3>2, <3>3
  <2> QED BY <2>2, <2>3
<1>6. Len(call'[t].data) \in Sizes[t]
  BY <1>1, <1>2, AwaitedFacts DEF Whole
<1>7. Len(call'[t].data) >= Size => call'[t].nbytes = Room(t, avail)
  BY <1>1, <1>2, AwaitedFacts DEF Whole, Moving
<1>8. Whole(pc', call', avail)
  BY <1>3, <1>6, <1>7, AwaitedFacts, WholeKept
<1> QED BY <1>2, <1>5, <1>8 DEF Awaited

(***************************************************************************)
(* avail is brought up to date: a task that is not alone on its side took  *)
(* all there was, and one of the other side is coming if any sleeps.       *)
(***************************************************************************)
LEMMA UpdateAwaited ==
  ASSUME TakesAll, IInv, Awaited, NEW t \in Task, Update(t)
  PROVE  Awaited'
<1>1. pc[t] = "update" /\ \A u \in Task : u # t => pc[u] \notin Inside
  BY AtNowhere, Alone DEF Update, IInv, Inside
<1>2. /\ w' = w /\ pc' = [pc EXCEPT ![t] = "leave"] /\ call' = call
      /\ avail' = IF t \in Readers THEN avail - call[t].nbytes ELSE avail + call[t].nbytes
  BY DEF Update, GoTo
<1>3. /\ pc'[t] = "leave" /\ \A u \in Task : u # t => pc'[u] = pc[u] /\ call'[u] = call[u]
  BY <1>2, AwaitedFacts
<1>4. \A u \in Task : pc'[u] \notin Moving
  BY <1>1, <1>3 DEF Inside, Moving
<1>5. Due(w', pc', call', avail')
  <2> SUFFICES ASSUME NEW x \in Task, Owed(w', pc', avail', x)
               PROVE  \E u \in Side(x) : Coming(w', pc', call', u)
    BY DEF Due
  <2>1. x # t /\ pc[x] = "woken" /\ where(w)[x] # {} /\ Room(x, avail') # 0
    BY <1>2, <1>3, <1>4, Sides DEF Owed, Moving
  <2>2. x \notin Side(t)
    <3> SUFFICES ASSUME x \in Side(t) PROVE FALSE
      OBVIOUS
    <3>1. \A n \in Sizes[t] : n >= Size
      BY <2>1 DEF TakesAll
    <3>2. call[t].nbytes = Room(t, avail)
      BY <1>1, <3>1, AwaitedFacts DEF Whole, Moving
    <3>3. Room(t, avail') = 0
      BY <1>2, <3>2, AwaitedFacts DEF Room
    <3>4. Room(x, avail') = Room(t, avail')
      BY Sides
    <3> QED BY <2>1, <3>3, <3>4
  <2>3. t \in Task \ Side(x)
    BY <2>2, Sides
  <2>4. Owed(w, pc, avail, x)
    BY <1>1, <2>1, <2>3 DEF Owed
  <2>5. PICK u \in Side(x) : Coming(w, pc, call, u)
    BY <2>4, AwaitedFacts DEF Due
  <2>6. u \in Task /\ u # t
    BY <2>3, <2>5, Sides
  <2>7. Coming(w', pc', call', u)
    BY <1>2, <1>3, <2>5, <2>6 DEF Coming
  <2> QED BY <2>5, <2>7
<1>6. Whole(pc', call', avail')
  <2>1. \A u \in Task : pc'[u] # "idle" => pc[u] # "idle"
    BY <1>1, <1>3
  <2> QED BY <1>2, <1>4, <2>1, AwaitedFacts DEF Whole
<1> QED BY <1>5, <1>6 DEF Awaited

(***************************************************************************)
(* Every step keeps it, and it holds when the pipe is created.             *)
(***************************************************************************)
LEMMA NextAwaited ==
  ASSUME TakesAll, IInv, Awaited, [Next]_vars
  PROVE  Awaited'
<1>1. CASE UNCHANGED vars
  BY <1>1 DEF vars, Awaited
<1>2. ASSUME NEW t \in Task, Call(t) \/ GoesOn(t) \/ TimesOutOf(t)
      PROVE  Awaited'
  <2>1. CASE Call(t)
    BY <2>1, EnterMonitorAwaited DEF Call
  <2>2. CASE Entered(t) \/ Reentered(t)
    BY <2>2, AnsweredAwaited
  <2>3. CASE WaitCondition(t)
    BY <2>3, WaitConditionAwaited
  <2>4. CASE Woken(t)
    BY <2>4, WokenAwaited
  <2>5. CASE Copy(t)
    BY <2>5, CopyAwaited
  <2>6. CASE SignalCondition(t)
    BY <2>6, SignalConditionAwaited
  <2>7. CASE Update(t)
    BY <2>7, UpdateAwaited
  <2>8. CASE LeaveMonitor(t)
    BY <2>8, LeaveMonitorAwaited
  <2>9. CASE TimesOutOf(t)
    BY <2>9, TimesOutOfAwaited
  <2> QED BY <1>2, <2>1, <2>2, <2>3, <2>4, <2>5, <2>6, <2>7, <2>8, <2>9 DEF GoesOn
<1> QED BY <1>1, <1>2 DEF Next

(***************************************************************************)
(* Nobody sleeps on a pipe that has what it waits for (pipe.c:45, 100),    *)
(* when each task is alone on its side or asks for all the buffer can      *)
(* hold.  Without that it is not so: a reader that leaves bytes behind     *)
(* leaves the other readers asleep.                                        *)
(***************************************************************************)
THEOREM NoLostWakeupHolds ==
  ASSUME TakesAll
  PROVE  Spec => []NoLostWakeup
<1>1. Init => Awaited
  <2> SUFFICES ASSUME Init PROVE Awaited
    OBVIOUS
  <2>1. \A t \in Task : pc[t] = "idle"
    BY DEF Init
  <2> QED BY <2>1 DEF Awaited, Due, Owed, Whole, Moving
<1>2. IInv /\ Awaited /\ [Next]_vars => Awaited'
  BY NextAwaited
<1>3. IInv /\ Awaited => NoLostWakeup
  <2> SUFFICES ASSUME IInv, Awaited,
                      \A t \in Task : pc[t] = "idle" \/ (pc[t] = "woken" /\ ~ Runs(w, t)),
                      NEW t \in Task, pc[t] = "woken"
               PROVE  MustWait(t)
    BY DEF NoLostWakeup
  <2>1. \A u \in Task : ~ Coming(w, pc, call, u)
    BY RunsNowhere DEF Coming
  <2>2. ~ Owed(w, pc, avail, t)
    <3>1. \A u \in Side(t) : u \in Task
      BY Sides
    <3> QED BY <2>1, <3>1, AwaitedFacts DEF Due
  <2>3. where(w)[t] # {}
    BY RunsNowhere
  <2> QED BY <2>2, <2>3, Sides DEF Owed, MustWait
<1> QED BY <1>1, <1>2, <1>3, IInvHolds, PTL DEF Spec

-----------------------------------------------------------------------------
(* The keyboard: what one code does to the static variables. *)

(***************************************************************************)
(* The column of the keymap is one of its six.                             *)
(***************************************************************************)
LEMMA ColumnOfMap == ASSUME NEW k, NEW u PROVE Column(k, u) \in 0 .. 5
BY DEF Column

(***************************************************************************)
(* The values of modifier and lock keys have no HASCAPS.                   *)
(***************************************************************************)
LEMMA FlagValues ==
  ASSUME NEW v \in FlagValue
  PROVE  v % HASCAPS = v /\ v # EXTKEY /\ v \notin 1 .. 255 /\ v \in Nat
BY DEF FlagValue, LockKey, CTRL, SHIFT, ALT, CALOCK, NLOCK, SLOCK, EXT, HASCAPS, EXTKEY

(***************************************************************************)
(* map_key gives every code of a modifier or lock key its value, whatever  *)
(* is in force and whatever the layout is.                                 *)
(***************************************************************************)
LEMMA MapKeyFlag ==
  ASSUME NEW k \in Flags, NEW x, NEW l \in Layout
  PROVE  map_key(x, scan[k], l) = Value(k)
<1>1. k \in Key /\ scan[k] # SLASH_SCAN /\ Value(k) \in FlagValue
  BY KeyboardAssumption DEF Flags
<1>2. PICK col \in 0 .. 5 : col = Column(x, Upper(x, scan[k], l))
  BY ColumnOfMap
<1>3. keymap[l][scan[k]][col] = Value(k)
  BY <1>1, KeyboardAssumption
<1>4. Value(k) % HASCAPS = Value(k)
  BY <1>1, FlagValues
<1> QED BY <1>1, <1>2, <1>3, <1>4 DEF map_key

(***************************************************************************)
(* No other key gets such a value, nor that of an E0.                      *)
(***************************************************************************)
LEMMA MapKeyTypes ==
  ASSUME NEW k \in Key, k \notin Flags, NEW x, NEW l \in Layout
  PROVE  ~ IsFlag(map_key(x, scan[k], l)) /\ map_key(x, scan[k], l) # EXTKEY
<1>1. PICK col \in 0 .. 5 : col = Column(x, Upper(x, scan[k], l))
  BY ColumnOfMap
<1>2. keymap[l][scan[k]][col] % HASCAPS \notin FlagValue \cup {EXTKEY}
  BY KeyboardAssumption
<1>3. 47 \notin FlagValue \cup {EXTKEY}
  BY DEF FlagValue, LockKey, CTRL, SHIFT, ALT, CALOCK, NLOCK, SLOCK, EXT, EXTKEY
<1> QED BY <1>1, <1>2, <1>3 DEF map_key, IsFlag

(***************************************************************************)
(* An E0 is an EXTKEY in every layout.                                     *)
(***************************************************************************)
LEMMA MapKeyExt ==
  ASSUME NEW x, NEW l \in Layout
  PROVE  map_key(x, E0.scan, l) = EXTKEY /\ ~ IsFlag(EXTKEY)
<1>1. PICK col \in 0 .. 5 : col = Column(x, Upper(x, E0.scan, l))
  BY ColumnOfMap
<1>2. keymap[l][E0.scan][col] = EXTKEY
  BY KeyboardAssumption
<1>3. EXTKEY % HASCAPS = EXTKEY
  BY DEF EXTKEY, HASCAPS
<1>4. E0.scan # SLASH_SCAN
  BY DEF E0, SLASH_SCAN
<1>5. ~ IsFlag(EXTKEY)
  BY DEF IsFlag, FlagValue, LockKey, CTRL, SHIFT, ALT, CALOCK, NLOCK, SLOCK, EXT, EXTKEY
<1> QED BY <1>1, <1>2, <1>3, <1>4, <1>5 DEF map_key

\* The flag that a code of a key sets or clears, after an E0 or not.
FlagTouched(k, escape) == FlagOf(Value(k), scan[k], escape)

\* What the static variables are after a code of a modifier or lock key.
AfterFlag(x, k, make) ==
  [esc |-> FALSE,
   held |-> IF make THEN x.held \cup {FlagTouched(k, x.esc)} ELSE x.held \ {FlagTouched(k, x.esc)},
   locks |-> Toggled(x, Value(k), FlagTouched(k, x.esc), make)]

KeyCode(k, make) == [scan |-> scan[k], make |-> make]

(***************************************************************************)
(* make_break, case by case: none depends on the layout.                   *)
(***************************************************************************)
LEMMA BreakFlag ==
  ASSUME NEW k \in Flags, NEW x, NEW l \in Layout, NEW make \in BOOLEAN
  PROVE  make_break(x, KeyCode(k, make), l) = AfterFlag(x, k, make)
<1>1. map_key(x, scan[k], l) = Value(k) /\ IsFlag(Value(k))
  BY MapKeyFlag, KeyboardAssumption DEF IsFlag
<1> QED BY <1>1 DEF make_break, Flagged, AfterFlag, FlagTouched, KeyCode

(* A code of any other key only ends the wait after an E0.                 *)
LEMMA BreakTypes ==
  ASSUME NEW k \in Key, k \notin Flags, NEW x, NEW l \in Layout, NEW make \in BOOLEAN
  PROVE  make_break(x, KeyCode(k, make), l) = [x EXCEPT !.esc = FALSE]
<1>1. ~ IsFlag(map_key(x, scan[k], l)) /\ (map_key(x, scan[k], l) = EXTKEY) = FALSE
  BY MapKeyTypes
<1> QED BY <1>1 DEF make_break, KeyCode

(* An E0 changes nothing but esc.                                          *)
LEMMA BreakExt ==
  ASSUME NEW x, NEW l \in Layout, NEW make \in BOOLEAN
  PROVE  make_break(x, [scan |-> E0.scan, make |-> make], l) = [x EXCEPT !.esc = TRUE]
<1>1. map_key(x, E0.scan, l) = EXTKEY /\ ~ IsFlag(EXTKEY)
  BY MapKeyExt
<1> QED BY <1>1 DEF make_break

(***************************************************************************)
(* Every code is one of these three.                                       *)
(***************************************************************************)
LEMMA CodeCases ==
  ASSUME NEW c \in Code
  PROVE  /\ c.make \in BOOLEAN
         /\ \/ c = [scan |-> E0.scan, make |-> c.make]
            \/ \E k \in Key : c = KeyCode(k, c.make)
BY DEF Code, E0, KeyCode

(***************************************************************************)
(* The flags of the keys are those of the driver, and only lock keys       *)
(* toggle a lock.                                                          *)
(***************************************************************************)
LEMMA FlagTouchedType ==
  ASSUME NEW k \in Flags, NEW e
  PROVE  /\ FlagTouched(k, e) \in {"ctrl_l", "ctrl_r", "shift_l", "shift_r", "alt_l", "alt_r",
                                   "caps", "num", "scroll"}
         /\ Value(k) \in LockKey <=> FlagTouched(k, e) \in {"caps", "num", "scroll"}
<1>1. Value(k) \in FlagValue
  BY KeyboardAssumption
<1> QED BY <1>1 DEF FlagTouched, FlagOf, FlagValue, LockKey, CTRL, SHIFT, ALT, CALOCK, NLOCK, SLOCK, EXT

(* The static variables stay what they are after a code of a modifier or   *)
(* lock key.                                                               *)
LEMMA AfterFlagType ==
  ASSUME NEW k \in Flags, NEW x \in Kbd, NEW make \in BOOLEAN
  PROVE  AfterFlag(x, k, make) \in Kbd
<1> DEFINE f == FlagTouched(k, x.esc)
<1>1. /\ f \in {"ctrl_l", "ctrl_r", "shift_l", "shift_r", "alt_l", "alt_r", "caps", "num", "scroll"}
      /\ Value(k) \in LockKey => f \in {"caps", "num", "scroll"}
  BY FlagTouchedType
<1>2. x.held \subseteq {"ctrl_l", "ctrl_r", "shift_l", "shift_r", "alt_l", "alt_r", "caps", "num", "scroll"}
      /\ x.locks \subseteq {"caps", "num", "scroll"}
  BY DEF Kbd
<1> HIDE DEF f
<1>3. Toggled(x, Value(k), f, make) \subseteq {"caps", "num", "scroll"}
  BY <1>1, <1>2 DEF Toggled, SymDiff
<1>4. /\ x.held \cup {f} \subseteq {"ctrl_l", "ctrl_r", "shift_l", "shift_r", "alt_l", "alt_r", "caps", "num", "scroll"}
      /\ x.held \ {f} \subseteq {"ctrl_l", "ctrl_r", "shift_l", "shift_r", "alt_l", "alt_r", "caps", "num", "scroll"}
  BY <1>1, <1>2
<1>5. AfterFlag(x, k, make) =
        [esc |-> FALSE, held |-> IF make THEN x.held \cup {f} ELSE x.held \ {f},
         locks |-> Toggled(x, Value(k), f, make)]
  BY DEF AfterFlag, f
<1> QED BY <1>3, <1>4, <1>5 DEF Kbd

(***************************************************************************)
(* A code leaves the static variables what they are, and does the same to  *)
(* them in every layout.                                                   *)
(***************************************************************************)
LEMMA BreakAnyLayout ==
  ASSUME NEW c \in Code, NEW x \in Kbd, NEW l \in Layout, NEW l2 \in Layout
  PROVE  make_break(x, c, l) \in Kbd /\ make_break(x, c, l) = make_break(x, c, l2)
<1>1. c.make \in BOOLEAN
  BY CodeCases
<1>2. CASE c = [scan |-> E0.scan, make |-> c.make]
  <2>1. make_break(x, c, l) = [x EXCEPT !.esc = TRUE] /\ make_break(x, c, l2) = [x EXCEPT !.esc = TRUE]
    BY <1>1, <1>2, BreakExt
  <2> QED BY <2>1 DEF Kbd
<1>3. ASSUME NEW k \in Key, c = KeyCode(k, c.make)
      PROVE  make_break(x, c, l) \in Kbd /\ make_break(x, c, l) = make_break(x, c, l2)
  <2>1. CASE k \in Flags
    BY <1>1, <1>3, <2>1, BreakFlag, AfterFlagType
  <2>2. CASE k \notin Flags
    <3>1. make_break(x, c, l) = [x EXCEPT !.esc = FALSE] /\ make_break(x, c, l2) = [x EXCEPT !.esc = FALSE]
      BY <1>1, <1>3, <2>2, BreakTypes
    <3> QED BY <3>1 DEF Kbd
  <2> QED BY <2>1, <2>2
<1> QED BY <1>2, <1>3, CodeCases

(***************************************************************************)
(* What is typed is a sequence of characters, and none for the codes of a  *)
(* modifier or lock key, for an E0, or for a key that goes up.             *)
(***************************************************************************)
LEMMA PutType == ASSUME NEW ch PROVE Put(ch) \in Seq(Nat)
<1>1. CASE ch \in 1 .. 255
  BY <1>1 DEF Put
<1>2. CASE ch \notin 1 .. 255 /\ ch \in HOME .. INSRT
  <2>1. ch - HOME + 1 \in 1 .. 12
    BY <1>2 DEF HOME, INSRT, EXT
  <2>2. numpad_map[ch - HOME + 1] \in Nat
    BY <2>1 DEF numpad_map
  <2>3. ESC \in Nat /\ 91 \in Nat
    BY DEF ESC
  <2> QED BY <1>2, <2>2, <2>3 DEF Put
<1>3. CASE ch \notin 1 .. 255 /\ ch \notin HOME .. INSRT
  BY <1>3 DEF Put
<1> QED BY <1>1, <1>2, <1>3

(* What a code types is a sequence of characters.                          *)
LEMMA TypedType == ASSUME NEW x, NEW c, NEW l PROVE Typed(x, c, l) \in Seq(Nat)
BY PutType DEF Typed

(* Only a key that goes down and is no modifier or lock key types, and it  *)
(* types what map_key gives.                                               *)
LEMMA TypedNothing ==
  ASSUME NEW k \in Key, NEW x, NEW l \in Layout, NEW make \in BOOLEAN
  PROVE  /\ (k \in Flags \/ ~ make) => Typed(x, KeyCode(k, make), l) = <<>>
         /\ k \notin Flags /\ make => Typed(x, KeyCode(k, make), l) = Put(map_key(x, scan[k], l))
         /\ Typed(x, E0, l) = <<>>
<1>1. CASE k \in Flags
  <2>1. map_key(x, scan[k], l) = Value(k) /\ IsFlag(Value(k))
    BY <1>1, MapKeyFlag, KeyboardAssumption DEF IsFlag
  <2> QED BY <1>1, <2>1, MapKeyExt DEF Typed, KeyCode
<1>2. CASE k \notin Flags
  BY <1>2, MapKeyTypes, MapKeyExt DEF Typed, KeyCode
<1> QED BY <1>1, <1>2

-----------------------------------------------------------------------------
(* The keyboard: what several codes do, one after the other. *)

KbdState == [kbd : Kbd, text : Seq(Nat)]

\* The states the driver goes through in the first m codes of a queue.
Trace(t, m, start, codes, l) ==
  t = [n \in 0 .. m |-> IF n = 0 THEN start ELSE Step(codes[n], l)[t[n - 1]]]

(***************************************************************************)
(* However many codes there are, there is a trace.                         *)
(***************************************************************************)
LEMMA TraceExists ==
  ASSUME NEW start, NEW codes, NEW l, NEW m \in Nat
  PROVE  \E t : Trace(t, m, start, codes, l)
<1> DEFINE Bad == {n \in Nat : ~ \E t : Trace(t, n, start, codes, l)}
<1>1. SUFFICES ASSUME Bad # {} PROVE FALSE
  OBVIOUS
<1>2. PICK n \in Bad : \A j \in Bad : n <= j
  BY <1>1, Least
<1>3. CASE n = 0
  <2>1. Trace([i \in 0 .. 0 |-> start], 0, start, codes, l)
    BY DEF Trace
  <2> QED BY <1>2, <1>3, <2>1
<1>4. CASE n # 0
  <2>1. n \in Nat /\ n - 1 \in Nat /\ ~ (n <= n - 1)
    BY <1>2, <1>4
  <2>2. PICK t : Trace(t, n - 1, start, codes, l)
    BY <1>2, <2>1
  <2> DEFINE u == [i \in 0 .. n |-> IF i = n THEN Step(codes[n], l)[t[n - 1]] ELSE t[i]]
  <2>3. \A i \in 0 .. n : u[i] = IF i = 0 THEN start ELSE Step(codes[i], l)[u[i - 1]]
    <3> TAKE i \in 0 .. n
    <3>1. \A j \in 0 .. n - 1 : u[j] = t[j] /\ t[j] = IF j = 0 THEN start ELSE Step(codes[j], l)[t[j - 1]]
      <4> TAKE j \in 0 .. n - 1
      <4>1. j \in 0 .. n /\ j # n
        BY <2>1
      <4>2. u[j] = t[j]
        BY <4>1
      <4> HIDE DEF u
      <4>3. t = [ii \in 0 .. n - 1 |-> IF ii = 0 THEN start ELSE Step(codes[ii], l)[t[ii - 1]]]
        BY <2>2 DEF Trace
      <4>4. t[j] = IF j = 0 THEN start ELSE Step(codes[j], l)[t[j - 1]]
        BY <4>3
      <4> QED BY <4>2, <4>4
    <3>2. CASE i = n
      <4>1. u[i] = Step(codes[n], l)[t[n - 1]]
        BY <3>2
      <4>2. u[n - 1] = t[n - 1]
        BY <2>1, <3>1
      <4> QED BY <1>4, <3>2, <4>1, <4>2
    <3>3. CASE i # n /\ i = 0
      <4>1. i \in 0 .. n - 1
        BY <2>1, <3>3
      <4> HIDE DEF u
      <4> QED BY <3>1, <3>3, <4>1
    <3>4. CASE i # n /\ i # 0
      <4>1. i \in 0 .. n - 1 /\ i - 1 \in 0 .. n - 1
        BY <2>1, <3>4
      <4> HIDE DEF u
      <4> QED BY <3>1, <3>4, <4>1
    <3> QED BY <3>2, <3>3, <3>4
  <2>4. u = [i \in 0 .. n |-> u[i]]
    OBVIOUS
  <2> HIDE DEF u
  <2>5. Trace(u, n, start, codes, l)
    BY <2>3, <2>4 DEF Trace
  <2> QED BY <1>2, <2>5
<1> QED BY <1>3, <1>4

(***************************************************************************)
(* Translated is the last state of a trace.                                *)
(***************************************************************************)
LEMMA TranslatedTrace ==
  ASSUME NEW start, NEW codes, Len(codes) \in Nat, NEW l
  PROVE  \E t : /\ Trace(t, Len(codes), start, codes, l)
                /\ Translated(start, codes, l) = t[Len(codes)]
<1>1. \E t : Trace(t, Len(codes), start, codes, l)
  BY TraceExists
<1> DEFINE after == CHOOSE t : Trace(t, Len(codes), start, codes, l)
<1>2. Trace(after, Len(codes), start, codes, l)
  BY <1>1
<1>3. Translated(start, codes, l) = after[Len(codes)]
  BY DEF Translated, Trace
<1> QED BY <1>2, <1>3

(***************************************************************************)
(* A step of a trace.                                                      *)
(***************************************************************************)
Steps(t, m, start, codes, l) ==
  t[0] = start /\ \A n \in 1 .. m : t[n] = Step(codes[n], l)[t[n - 1]]

(* A translation, unfolded at one of its codes.                            *)
LEMMA TraceStep ==
  ASSUME NEW start, NEW codes, NEW l, NEW m \in Nat, NEW t, Trace(t, m, start, codes, l)
  PROVE  Steps(t, m, start, codes, l)
<1>1. \A n \in 0 .. m : t[n] = IF n = 0 THEN start ELSE Step(codes[n], l)[t[n - 1]]
  BY DEF Trace
<1> QED BY <1>1 DEF Steps

(* One code leaves the static variables what they are and adds what it     *)
(* types to the text.                                                      *)
LEMMA StepOf ==
  ASSUME NEW s \in KbdState, NEW c \in Code, NEW l \in Layout
  PROVE  /\ Step(c, l)[s] \in KbdState
         /\ Step(c, l)[s].kbd = make_break(s.kbd, c, l)
         /\ Step(c, l)[s].text = s.text \o Typed(s.kbd, c, l)
<1>1. s.kbd \in Kbd /\ s.text \in Seq(Nat)
  BY DEF KbdState
<1>2. make_break(s.kbd, c, l) \in Kbd
  BY <1>1, BreakAnyLayout
<1>3. Typed(s.kbd, c, l) \in Seq(Nat)
  BY TypedType
<1>4. s.text \o Typed(s.kbd, c, l) \in Seq(Nat)
  BY <1>1, <1>3
<1>5. Step(c, l)[s] = [kbd |-> make_break(s.kbd, c, l), text |-> s.text \o Typed(s.kbd, c, l)]
  BY DEF Step, KbdState
<1> QED BY <1>2, <1>4, <1>5 DEF KbdState

(***************************************************************************)
(* What holds of the first state of a trace, and of each state after one   *)
(* of which it holds, holds of all.                                        *)
(***************************************************************************)
LEMMA AllOfTrace ==
  ASSUME NEW m \in Nat, NEW Holds, 0 \in Holds, \A n \in 1 .. m : n - 1 \in Holds => n \in Holds
  PROVE  \A n \in 0 .. m : n \in Holds
<1> DEFINE Bad == {n \in 0 .. m : n \notin Holds}
<1>1. SUFFICES ASSUME Bad # {} PROVE FALSE
  OBVIOUS
<1>2. Bad \subseteq Nat
  OBVIOUS
<1>3. PICK n \in Bad : \A j \in Bad : n <= j
  BY <1>1, <1>2, Least
<1>4. n \in 1 .. m /\ n - 1 \in 0 .. m /\ ~ (n <= n - 1)
  BY <1>3
<1> QED BY <1>3, <1>4

(***************************************************************************)
(* Every state of a trace is one of the driver.                            *)
(***************************************************************************)
LEMMA TraceType ==
  ASSUME NEW start \in KbdState, NEW codes \in Seq(Code), NEW l \in Layout,
         NEW t, Trace(t, Len(codes), start, codes, l)
  PROVE  \A n \in 0 .. Len(codes) : t[n] \in KbdState
<1> DEFINE Holds == {n \in 0 .. Len(codes) : t[n] \in KbdState}
<1>1. Len(codes) \in Nat /\ t[0] = start /\ \A n \in 1 .. Len(codes) : t[n] = Step(codes[n], l)[t[n - 1]]
  <2>1. Len(codes) \in Nat
    OBVIOUS
  <2>2. Steps(t, Len(codes), start, codes, l)
    BY <2>1, TraceStep
  <2> QED BY <2>1, <2>2 DEF Steps
<1>2. 0 \in Holds
  BY <1>1
<1>3. ASSUME NEW n \in 1 .. Len(codes), n - 1 \in Holds PROVE n \in Holds
  <2>1. codes[n] \in Code
    OBVIOUS
  <2>2. Step(codes[n], l)[t[n - 1]] \in KbdState
    BY <1>3, <2>1, StepOf
  <2> QED BY <1>1, <2>2
<1> HIDE DEF Holds
<1>4. \A n \in 0 .. Len(codes) : n \in Holds
  BY <1>1, <1>2, <1>3, AllOfTrace
<1> QED BY <1>4 DEF Holds

(* A queue of codes leaves the static variables what they are.             *)
LEMMA TranslatedType ==
  ASSUME NEW start \in KbdState, NEW codes \in Seq(Code), NEW l \in Layout
  PROVE  Translated(start, codes, l) \in KbdState
<1>1. PICK t : Trace(t, Len(codes), start, codes, l) /\ Translated(start, codes, l) = t[Len(codes)]
  BY TranslatedTrace
<1>2. Len(codes) \in 0 .. Len(codes)
  OBVIOUS
<1> QED BY <1>1, <1>2, TraceType

(***************************************************************************)
(* No code changes nothing; one more code is one more step; and the first  *)
(* code may be translated before the others.                               *)
(***************************************************************************)
LEMMA TranslatedNone ==
  ASSUME NEW start, NEW l
  PROVE  Translated(start, <<>>, l) = start
<1>1. PICK t : Trace(t, Len(<<>>), start, <<>>, l) /\ Translated(start, <<>>, l) = t[Len(<<>>)]
  BY TranslatedTrace
<1>2. Len(<<>>) = 0 /\ 0 \in Nat
  OBVIOUS
<1>3. Steps(t, 0, start, <<>>, l)
  BY <1>1, <1>2, TraceStep
<1> QED BY <1>1, <1>2, <1>3 DEF Steps

(***************************************************************************)
(* Two traces that start alike and whose codes are alike go alike.         *)
(***************************************************************************)
LEMMA TracesAgree ==
  ASSUME NEW m \in Nat, NEW start, NEW l,
         NEW codes, NEW t, NEW tm \in Nat, Trace(t, tm, start, codes, l), m <= tm,
         NEW codes2, NEW u, NEW um \in Nat, Trace(u, um, start, codes2, l), m <= um,
         \A n \in 1 .. m : codes[n] = codes2[n]
  PROVE  t[m] = u[m]
<1> DEFINE Holds == {n \in 0 .. m : t[n] = u[n]}
<1>1. /\ t[0] = start /\ \A n \in 1 .. m : t[n] = Step(codes[n], l)[t[n - 1]]
      /\ u[0] = start /\ \A n \in 1 .. m : u[n] = Step(codes2[n], l)[u[n - 1]]
  <2>1. \A n \in 1 .. m : n \in 1 .. tm /\ n \in 1 .. um
    OBVIOUS
  <2>2. Steps(t, tm, start, codes, l)
    BY TraceStep
  <2>3. Steps(u, um, start, codes2, l)
    BY TraceStep
  <2> QED BY <2>1, <2>2, <2>3 DEF Steps
<1>2. 0 \in Holds
  BY <1>1
<1>3. ASSUME NEW n \in 1 .. m, n - 1 \in Holds PROVE n \in Holds
  BY <1>1, <1>3
<1> HIDE DEF Holds
<1>4. \A n \in 0 .. m : n \in Holds
  BY <1>2, <1>3, AllOfTrace
<1>5. m \in 0 .. m
  OBVIOUS
<1> QED BY <1>4, <1>5 DEF Holds

(* The last code of a queue is translated last.                            *)
LEMMA TranslatedAppend ==
  ASSUME NEW start, NEW codes \in Seq(Code), NEW l, NEW c \in Code
  PROVE  Translated(start, Append(codes, c), l) = Step(c, l)[Translated(start, codes, l)]
<1>1. PICK t : Trace(t, Len(codes), start, codes, l) /\ Translated(start, codes, l) = t[Len(codes)]
  BY TranslatedTrace
<1>2. PICK m : m = Len(codes)
  OBVIOUS
<1>3. PICK more : more = Append(codes, c)
  OBVIOUS
<1>4. /\ m \in Nat /\ Len(more) = m + 1 /\ more[m + 1] = c
      /\ \A n \in 1 .. m : codes[n] = more[n]
  BY <1>2, <1>3
<1>5. PICK u : Trace(u, m + 1, start, more, l) /\ Translated(start, more, l) = u[m + 1]
  <2>1. Len(more) = m + 1 /\ Len(more) \in Nat
    BY <1>4
  <2>2. \E u : Trace(u, Len(more), start, more, l) /\ Translated(start, more, l) = u[Len(more)]
    BY <2>1, TranslatedTrace, Zenon
  <2> QED BY <2>1, <2>2, Zenon
<1>6. t[m] = u[m]
  BY <1>1, <1>2, <1>4, <1>5, TracesAgree
<1>7. u[m + 1] = Step(more[m + 1], l)[u[(m + 1) - 1]]
  <2>1. m + 1 \in Nat /\ m + 1 \in 1 .. m + 1
    BY <1>4
  <2>2. Steps(u, m + 1, start, more, l)
    BY <1>5, <2>1, TraceStep
  <2> QED BY <2>1, <2>2 DEF Steps
<1>8. (m + 1) - 1 = m
  BY <1>4
<1> QED BY <1>1, <1>2, <1>3, <1>4, <1>5, <1>6, <1>7, <1>8

(* The first code of a queue is translated first.                          *)
LEMMA TranslatedTail ==
  ASSUME NEW start, NEW codes \in Seq(Code), codes # <<>>, NEW l
  PROVE  Translated(start, codes, l) = Translated(Step(Head(codes), l)[start], Tail(codes), l)
<1>1. PICK t : Trace(t, Len(codes), start, codes, l) /\ Translated(start, codes, l) = t[Len(codes)]
  BY TranslatedTrace
<1>2. PICK rest : rest = Tail(codes)
  OBVIOUS
<1>3. PICK next : next = Step(Head(codes), l)[start]
  OBVIOUS
<1>4. PICK m : m = Len(rest)
  OBVIOUS
<1>5. /\ m \in Nat /\ Len(codes) = m + 1 /\ codes[1] = Head(codes)
      /\ \A n \in 1 .. m : rest[n] = codes[n + 1]
  BY <1>2, <1>4
<1>6. PICK u : Trace(u, m, next, rest, l) /\ Translated(next, rest, l) = u[m]
  BY <1>4, <1>5, TranslatedTrace
<1>7. /\ t[0] = start /\ \A n \in 1 .. m + 1 : t[n] = Step(codes[n], l)[t[n - 1]]
      /\ u[0] = next /\ \A n \in 1 .. m : u[n] = Step(rest[n], l)[u[n - 1]]
  <2>1. m + 1 \in Nat
    BY <1>5
  <2>2. Steps(t, m + 1, start, codes, l)
    BY <1>1, <1>5, <2>1, TraceStep
  <2>3. Steps(u, m, next, rest, l)
    BY <1>5, <1>6, TraceStep
  <2> QED BY <2>2, <2>3 DEF Steps
<1> DEFINE Holds == {n \in 0 .. m : u[n] = t[n + 1]}
<1>8. 0 \in Holds
  <2>1. t[0 + 1] = Step(codes[0 + 1], l)[t[(0 + 1) - 1]]
    BY <1>5, <1>7
  <2> QED BY <1>3, <1>5, <1>7, <2>1
<1>9. ASSUME NEW n \in 1 .. m, n - 1 \in Holds PROVE n \in Holds
  <2>1. u[n - 1] = t[n] /\ n + 1 \in 1 .. m + 1 /\ (n + 1) - 1 = n
    <3>1. (n - 1) + 1 = n
      BY <1>5
    <3> QED BY <1>5, <1>9, <3>1
  <2>2. t[n + 1] = Step(codes[n + 1], l)[t[(n + 1) - 1]]
    BY <1>7, <2>1
  <2>3. u[n] = Step(rest[n], l)[u[n - 1]] /\ rest[n] = codes[n + 1]
    BY <1>5, <1>7
  <2> QED BY <2>1, <2>2, <2>3
<1> HIDE DEF Holds
<1>10. m \in Holds
  <2>1. \A n \in 0 .. m : n \in Holds
    BY <1>5, <1>8, <1>9, AllOfTrace
  <2>2. m \in 0 .. m
    BY <1>5
  <2> QED BY <2>1, <2>2
<1> QED BY <1>1, <1>2, <1>3, <1>5, <1>6, <1>10 DEF Holds

(***************************************************************************)
(* What the driver holds depends neither on what was typed before nor on   *)
(* the layout.                                                             *)
(***************************************************************************)
LEMMA TranslatedKbd ==
  ASSUME NEW s \in KbdState, NEW s2 \in KbdState, s.kbd = s2.kbd,
         NEW codes \in Seq(Code), NEW l \in Layout, NEW l2 \in Layout
  PROVE  Translated(s, codes, l).kbd = Translated(s2, codes, l2).kbd
<1>1. PICK t : Trace(t, Len(codes), s, codes, l) /\ Translated(s, codes, l) = t[Len(codes)]
  BY TranslatedTrace
<1>2. PICK u : Trace(u, Len(codes), s2, codes, l2) /\ Translated(s2, codes, l2) = u[Len(codes)]
  BY TranslatedTrace
<1>3. PICK m : m = Len(codes) /\ m \in Nat
  OBVIOUS
<1>4. /\ t[0] = s /\ \A n \in 1 .. m : t[n] = Step(codes[n], l)[t[n - 1]]
      /\ u[0] = s2 /\ \A n \in 1 .. m : u[n] = Step(codes[n], l2)[u[n - 1]]
  <2>1. Steps(t, m, s, codes, l)
    BY <1>1, <1>3, TraceStep
  <2>2. Steps(u, m, s2, codes, l2)
    BY <1>2, <1>3, TraceStep
  <2> QED BY <2>1, <2>2 DEF Steps
<1>5. \A n \in 0 .. m : t[n] \in KbdState /\ u[n] \in KbdState
  BY <1>1, <1>2, <1>3, TraceType
<1> DEFINE Holds == {n \in 0 .. m : t[n].kbd = u[n].kbd}
<1>6. 0 \in Holds
  BY <1>3, <1>4
<1>7. ASSUME NEW n \in 1 .. m, n - 1 \in Holds PROVE n \in Holds
  <2>1. n - 1 \in 0 .. m /\ t[n - 1].kbd = u[n - 1].kbd /\ codes[n] \in Code
    BY <1>3, <1>7
  <2>2. t[n].kbd = make_break(t[n - 1].kbd, codes[n], l) /\ u[n].kbd = make_break(u[n - 1].kbd, codes[n], l2)
    <3>1. t[n] = Step(codes[n], l)[t[n - 1]] /\ t[n - 1] \in KbdState
      BY <1>4, <1>5, <2>1
    <3>2. u[n] = Step(codes[n], l2)[u[n - 1]] /\ u[n - 1] \in KbdState
      BY <1>4, <1>5, <2>1
    <3>3. PICK c \in Code : c = codes[n]
      BY <2>1
    <3>4. PICK before \in KbdState : before = t[n - 1]
      BY <3>1
    <3>5. PICK before2 \in KbdState : before2 = u[n - 1]
      BY <3>2
    <3>6. Step(c, l)[before].kbd = make_break(before.kbd, c, l)
      BY StepOf
    <3>7. Step(c, l2)[before2].kbd = make_break(before2.kbd, c, l2)
      BY StepOf
    <3> QED BY <3>1, <3>2, <3>3, <3>4, <3>5, <3>6, <3>7
  <2>3. u[n - 1].kbd \in Kbd
    BY <1>5, <2>1 DEF KbdState
  <2> QED BY <2>1, <2>2, <2>3, BreakAnyLayout
<1> HIDE DEF Holds
<1>8. m \in Holds
  <2>1. \A n \in 0 .. m : n \in Holds
    BY <1>3, <1>6, <1>7, AllOfTrace
  <2>2. m \in 0 .. m
    BY <1>3
  <2> QED BY <2>1, <2>2
<1> QED BY <1>1, <1>2, <1>3, <1>8 DEF Holds

(***************************************************************************)
(* What was typed before comes before what is typed.                       *)
(***************************************************************************)
LEMMA ConcatAssoc ==
  ASSUME NEW a \in Seq(Nat), NEW b \in Seq(Nat), NEW c \in Seq(Nat)
  PROVE  (a \o b) \o c = a \o (b \o c)
OBVIOUS

(* What was typed before is a prefix of what is typed, and changes         *)
(* nothing.                                                                *)
LEMMA TranslatedText ==
  ASSUME NEW k \in Kbd, NEW a \in Seq(Nat), NEW b \in Seq(Nat),
         NEW codes \in Seq(Code), NEW l \in Layout
  PROVE  Translated([kbd |-> k, text |-> a \o b], codes, l).text
           = a \o Translated([kbd |-> k, text |-> b], codes, l).text
<1>1. PICK s : s = [kbd |-> k, text |-> a \o b]
  OBVIOUS
<1>2. PICK s2 : s2 = [kbd |-> k, text |-> b]
  OBVIOUS
<1>3. s \in KbdState /\ s2 \in KbdState
  BY <1>1, <1>2 DEF KbdState
<1>4. PICK t : Trace(t, Len(codes), s, codes, l) /\ Translated(s, codes, l) = t[Len(codes)]
  BY TranslatedTrace
<1>5. PICK u : Trace(u, Len(codes), s2, codes, l) /\ Translated(s2, codes, l) = u[Len(codes)]
  BY TranslatedTrace
<1>6. PICK m : m = Len(codes) /\ m \in Nat
  OBVIOUS
<1>7. /\ t[0] = s /\ \A n \in 1 .. m : t[n] = Step(codes[n], l)[t[n - 1]]
      /\ u[0] = s2 /\ \A n \in 1 .. m : u[n] = Step(codes[n], l)[u[n - 1]]
  <2>1. Steps(t, m, s, codes, l)
    BY <1>4, <1>6, TraceStep
  <2>2. Steps(u, m, s2, codes, l)
    BY <1>5, <1>6, TraceStep
  <2> QED BY <2>1, <2>2 DEF Steps
<1>8. \A n \in 0 .. m : t[n] \in KbdState /\ u[n] \in KbdState
  BY <1>3, <1>4, <1>5, <1>6, TraceType
<1> DEFINE Alike(n) == t[n].kbd = u[n].kbd /\ t[n].text = a \o u[n].text
           Holds == {n \in 0 .. m : Alike(n)}
<1>9. 0 \in Holds
  <2>1. t[0] = [kbd |-> k, text |-> a \o b] /\ u[0] = [kbd |-> k, text |-> b]
    BY <1>1, <1>2, <1>7
  <2>2. Alike(0)
    BY <2>1
  <2>3. 0 \in 0 .. m
    BY <1>6
  <2> HIDE DEF Alike
  <2> QED BY <2>2, <2>3
<1>10. ASSUME NEW n \in 1 .. m, n - 1 \in Holds PROVE n \in Holds
  <2>1. /\ n - 1 \in 0 .. m /\ t[n - 1].kbd = u[n - 1].kbd /\ codes[n] \in Code
        /\ t[n - 1].text = a \o u[n - 1].text
    <3>1. n - 1 \in 0 .. m /\ codes[n] \in Code
      BY <1>6
    <3>2. Alike(n - 1)
      <4> HIDE DEF Alike
      <4> QED BY <1>10
    <3> QED BY <3>1, <3>2
  <2>2. PICK typed : typed = Typed(u[n - 1].kbd, codes[n], l)
    OBVIOUS
  <2>3. /\ t[n].kbd = make_break(t[n - 1].kbd, codes[n], l) /\ u[n].kbd = make_break(u[n - 1].kbd, codes[n], l)
        /\ t[n].text = t[n - 1].text \o typed /\ u[n].text = u[n - 1].text \o typed
    <3>1. t[n] = Step(codes[n], l)[t[n - 1]] /\ t[n - 1] \in KbdState
      BY <1>7, <1>8, <2>1
    <3>2. u[n] = Step(codes[n], l)[u[n - 1]] /\ u[n - 1] \in KbdState
      BY <1>7, <1>8, <2>1
    <3>3. /\ t[n].kbd = make_break(t[n - 1].kbd, codes[n], l)
          /\ t[n].text = t[n - 1].text \o Typed(t[n - 1].kbd, codes[n], l)
      BY <2>1, <3>1, StepOf
    <3>4. /\ u[n].kbd = make_break(u[n - 1].kbd, codes[n], l)
          /\ u[n].text = u[n - 1].text \o Typed(u[n - 1].kbd, codes[n], l)
      BY <2>1, <3>2, StepOf
    <3> QED BY <2>1, <2>2, <3>3, <3>4
  <2>4. u[n - 1].text \in Seq(Nat) /\ typed \in Seq(Nat)
    BY <1>8, <2>1, <2>2, TypedType DEF KbdState
  <2>5. (a \o u[n - 1].text) \o typed = a \o (u[n - 1].text \o typed)
    BY <2>4, ConcatAssoc
  <2>6. Alike(n) /\ n \in 0 .. m
    BY <1>6, <2>1, <2>3, <2>5
  <2> HIDE DEF Alike
  <2> QED BY <2>6
<1> HIDE DEF Holds
<1>11. m \in Holds
  <2>1. \A n \in 0 .. m : n \in Holds
    BY <1>6, <1>9, <1>10, AllOfTrace
  <2>2. m \in 0 .. m
    BY <1>6
  <2> QED BY <2>1, <2>2
<1> QED BY <1>1, <1>2, <1>4, <1>5, <1>6, <1>11 DEF Holds

-----------------------------------------------------------------------------
(* The keyboard: the invariant. *)

(* What is left to send is the code of the key, in the state the key is    *)
(* in, and the E0 before it if the key is extended and it was not sent.    *)
SendingInv ==
  ~ Idle =>
    /\ sending.key \in Key
    /\ \/ sending.codes = <<KeyCode(sending.key, sending.key \in down)>>
       \/ /\ sending.key \in Extended
          /\ sending.codes = <<E0, KeyCode(sending.key, sending.key \in down)>>

\* What the driver will hold when it has translated the codes it has.
Ahead == After(scan_mq).kbd

(* In step, the driver waits for a code after an E0 when the keyboard has  *)
(* one to send, and only then.                                             *)
EscInv ==
  inStep => (Ahead.esc <=> Len(sending.codes) = 1 /\ sending.key \in Extended)

\* As long as nothing is lost, the flags are those of the keys held down.
LosslessInv ==
  lost = 0 =>
    /\ Typing.kbd.esc = FALSE
    /\ Typing.kbd.held = {role[k] : k \in Flags \cap down}

KeyboardIInv == KeyboardTypeOK /\ SendingInv /\ EscInv /\ ModifiersFollow /\ LosslessInv

(***************************************************************************)
(* A code read in step touches the flag of its key; read otherwise, it can *)
(* only touch that of a key with the same scan code.                       *)
(***************************************************************************)
LEMMA TouchedRole ==
  ASSUME NEW k \in Flags, NEW e \in BOOLEAN, e <=> k \in Extended
  PROVE  FlagTouched(k, e) = role[k]
<1>1. e = (k \in Extended)
  OBVIOUS
<1> QED BY <1>1, KeyboardAssumption DEF FlagTouched

(* A code read after an E0 it did not come with, or without its E0,        *)
(* touches the flag of a key with the same scan code.                      *)
LEMMA TouchedTwin ==
  ASSUME NEW j \in Flags, NEW k \in Flags, NEW e \in BOOLEAN, role[j] = FlagTouched(k, e)
  PROVE  scan[j] = scan[k]
<1>1. /\ Value(j) \in FlagValue /\ Value(k) \in FlagValue
      /\ role[j] = FlagOf(Value(j), scan[j], j \in Extended)
      /\ role[k] = FlagOf(Value(k), scan[k], k \in Extended)
  BY KeyboardAssumption
<1>2. Value(j) = Value(k)
  BY <1>1 DEF FlagTouched, FlagOf, FlagValue, LockKey, CTRL, SHIFT, ALT, CALOCK, NLOCK, SLOCK, EXT
<1>3. scan[j] = scan[k] \/ Value(k) = SHIFT
  BY <1>2, KeyboardAssumption
<1>4. CASE Value(k) = SHIFT
  <2>1. role[j] = role[k]
    BY <1>1, <1>4 DEF FlagTouched, FlagOf, CTRL, SHIFT, ALT
  <2> QED BY <2>1, KeyboardAssumption
<1> QED BY <1>3, <1>4

\* From x to y the driver does what a code of a key is for.
Obeys(x, k, make, y) ==
  /\ y.esc = FALSE
  /\ y.held = IF k \notin Flags THEN x.held
              ELSE IF make THEN x.held \cup {role[k]} ELSE x.held \ {role[k]}
  /\ y.locks = IF k \in Flags THEN Toggled(x, Value(k), role[k], make) ELSE x.locks

\* It does nothing to the flags of keys with other scan codes.
Spares(x, k, y) ==
  \A j \in Flags : scan[j] # scan[k] => (role[j] \in y.held <=> role[j] \in x.held)

Awaits(x, y) == y \in Kbd /\ y.esc = TRUE /\ y.held = x.held /\ y.locks = x.locks

(***************************************************************************)
(* The code of a key, after the E0 it should come after or not.            *)
(***************************************************************************)
LEMMA LastCode ==
  ASSUME NEW x \in Kbd, NEW k \in Key, NEW make \in BOOLEAN, NEW l \in Layout,
         NEW y, y = make_break(x, KeyCode(k, make), l)
  PROVE  /\ y.esc = FALSE /\ Spares(x, k, y)
         /\ (x.esc <=> k \in Extended) => Obeys(x, k, make, y)
<1>1. x.esc \in BOOLEAN /\ x = [esc |-> x.esc, held |-> x.held, locks |-> x.locks]
  BY DEF Kbd
<1>2. CASE k \notin Flags
  <2>1. y = [x EXCEPT !.esc = FALSE]
    BY <1>2, BreakTypes
  <2>2. y.esc = FALSE /\ y.held = x.held /\ y.locks = x.locks
    BY <1>1, <2>1
  <2> QED BY <1>2, <2>2 DEF Obeys, Spares
<1>3. CASE k \in Flags
  <2>1. PICK f : f = FlagTouched(k, x.esc)
    OBVIOUS
  <2>2. /\ y.esc = FALSE
        /\ y.held = IF make THEN x.held \cup {f} ELSE x.held \ {f}
        /\ y.locks = Toggled(x, Value(k), f, make)
    <3>1. y = AfterFlag(x, k, make)
      BY <1>3, BreakFlag
    <3> QED BY <2>1, <3>1 DEF AfterFlag
  <2>3. \A j \in Flags : scan[j] # scan[k] => role[j] # f
    BY <1>1, <1>3, <2>1, TouchedTwin
  <2>4. (x.esc <=> k \in Extended) => f = role[k]
    BY <1>1, <1>3, <2>1, TouchedRole
  <2> QED BY <1>3, <2>2, <2>3, <2>4 DEF Obeys, Spares
<1> QED BY <1>2, <1>3

(***************************************************************************)
(* An E0 changes nothing but esc.                                          *)
(***************************************************************************)
LEMMA ExtCode ==
  ASSUME NEW x \in Kbd, NEW l \in Layout, NEW y, y = make_break(x, E0, l)
  PROVE  Awaits(x, y)
<1>1. E0 = [scan |-> E0.scan, make |-> E0.make] /\ E0.make \in BOOLEAN
  BY DEF E0
<1>2. y = [x EXCEPT !.esc = TRUE]
  BY <1>1, BreakExt
<1> QED BY <1>2 DEF Kbd, Awaits

(***************************************************************************)
(* The codes a key sends.                                                  *)
(***************************************************************************)
LEMMA CodeTypes ==
  ASSUME NEW k \in Key, NEW make \in BOOLEAN
  PROVE  KeyCode(k, make) \in Code /\ E0 \in Code
BY DEF KeyCode, Code, E0

(* The queues of codes that a key extends, written out.                    *)
LEMMA ConcatLists ==
  ASSUME NEW S, NEW a \in S, NEW b \in S, NEW q \in Seq(S)
  PROVE  /\ Append(<<a>>, b) = <<a, b>> /\ <<>> \o <<a>> = <<a>> /\ q \o <<>> = q
         /\ q \o <<a>> = Append(q, a) /\ q \o <<a, b>> = Append(Append(q, a), b)
<1>1. Append(<<a>>, b) = <<a, b>>
  <2>1. PICK none : none = <<>>
    OBVIOUS
  <2>2. none \in Seq(S)
    BY <2>1
  <2>3. none \o <<a, b>> = Append(Append(none, a), b)
    BY <2>2
  <2>4. none \o <<a, b>> = <<a, b>>
    BY <2>1, <2>2
  <2>5. Append(none, a) = <<a>>
    BY <2>1
  <2> QED BY <2>3, <2>4, <2>5
<1>2. <<>> \o <<a>> = <<a>>
  OBVIOUS
<1>3. q \o <<>> = q
  OBVIOUS
<1>4. q \o <<a>> = Append(q, a)
  OBVIOUS
<1>5. q \o <<a, b>> = Append(Append(q, a), b)
  OBVIOUS
<1> QED BY <1>1, <1>2, <1>3, <1>4, <1>5

(* The codes of a key: its own, after an E0 if it is extended.             *)
LEMMA CodesOf ==
  ASSUME NEW k \in Key, NEW make \in BOOLEAN
  PROVE  /\ Codes(k, make) = IF k \in Extended THEN <<E0, KeyCode(k, make)>> ELSE <<KeyCode(k, make)>>
         /\ Codes(k, make) \in Seq(Code)
<1>1. Codes(k, make) = IF k \in Extended THEN <<E0, KeyCode(k, make)>> ELSE <<KeyCode(k, make)>>
  <2>1. KeyCode(k, make) \in Code /\ E0 \in Code
    BY CodeTypes
  <2>2. /\ <<E0>> \o <<KeyCode(k, make)>> = <<E0, KeyCode(k, make)>>
        /\ <<>> \o <<KeyCode(k, make)>> = <<KeyCode(k, make)>>
    <3>1. <<>> \in Seq(Code) /\ <<E0>> \in Seq(Code)
      BY <2>1
    <3>2. <<E0>> \o <<KeyCode(k, make)>> = Append(<<E0>>, KeyCode(k, make))
      BY <2>1, <3>1, ConcatLists
    <3> QED BY <2>1, <3>1, <3>2, ConcatLists
  <2> QED BY <2>2 DEF Codes, KeyCode
<1>2. <<E0, KeyCode(k, make)>> \in Seq(Code) /\ <<KeyCode(k, make)>> \in Seq(Code)
  BY CodeTypes
<1> QED BY <1>1, <1>2

(***************************************************************************)
(* What a whole press or release does to a driver in step.                 *)
(***************************************************************************)
TypesKey(x, k, make, l, y) ==
  \E e \in Kbd : /\ e.esc <=> k \in Extended
                /\ e.held = x.kbd.held /\ e.locks = x.kbd.locks
                /\ y.text = x.text \o Typed(e, KeyCode(k, make), l)

(* All the codes of a key, translated from a state that awaits none, obey  *)
(* the key and type what it types.                                         *)
LEMMA WholeKey ==
  ASSUME NEW s \in KbdState, NEW codes \in Seq(Code), NEW l \in Layout,
         NEW k \in Key, NEW make \in BOOLEAN,
         NEW x, x = Translated(s, codes, l), x.kbd.esc = FALSE,
         NEW y, y = Translated(s, codes \o Codes(k, make), l)
  PROVE  Obeys(x.kbd, k, make, y.kbd) /\ TypesKey(x, k, make, l, y)
<1>1. PICK c \in Code : c = KeyCode(k, make)
  BY CodeTypes
<1>2. x \in KbdState /\ x.kbd \in Kbd /\ x.text \in Seq(Nat)
  BY TranslatedType DEF KbdState
<1>3. PICK e \in KbdState : /\ e.kbd.esc <=> k \in Extended
                            /\ e.kbd.held = x.kbd.held /\ e.kbd.locks = x.kbd.locks
                            /\ e.text = x.text
                            /\ y = Step(c, l)[e]
  <2>1. CASE k \notin Extended
    <3>1. codes \o Codes(k, make) = Append(codes, c)
      <4>1. Codes(k, make) = <<c>>
        BY <1>1, <2>1, CodesOf
      <4> QED BY <4>1, ConcatLists
    <3>2. y = Step(c, l)[x]
      BY <3>1, TranslatedAppend
    <3> QED BY <1>2, <2>1, <3>2
  <2>2. CASE k \in Extended
    <3>1. codes \o Codes(k, make) = Append(Append(codes, E0), c) /\ Append(codes, E0) \in Seq(Code)
      <4>1. Codes(k, make) = <<E0, c>> /\ E0 \in Code
        BY <1>1, <2>2, CodesOf, CodeTypes
      <4>2. codes \o <<E0, c>> = Append(Append(codes, E0), c)
        BY <4>1, ConcatLists
      <4> QED BY <4>1, <4>2
    <3>2. E0 \in Code
      BY CodeTypes
    <3>3. PICK e : e = Step(E0, l)[x]
      OBVIOUS
    <3>4. e = Translated(s, Append(codes, E0), l)
      BY <3>2, <3>3, TranslatedAppend
    <3>5. y = Step(c, l)[e]
      BY <3>1, <3>4, TranslatedAppend
    <3>6. e \in KbdState /\ e.kbd = make_break(x.kbd, E0, l) /\ e.text = x.text \o Typed(x.kbd, E0, l)
      BY <1>2, <3>2, <3>3, StepOf
    <3>7. e.kbd.esc = TRUE /\ e.kbd.held = x.kbd.held /\ e.kbd.locks = x.kbd.locks
      <4>1. Awaits(x.kbd, e.kbd)
        BY <1>2, <3>6, ExtCode
      <4> QED BY <4>1 DEF Awaits
    <3>8. e.text = x.text
      <4>1. Typed(x.kbd, E0, l) = <<>>
        BY TypedNothing
      <4> QED BY <1>2, <3>6, <4>1
    <3> QED BY <2>2, <3>5, <3>6, <3>7, <3>8
  <2> QED BY <2>1, <2>2
<1>4. e.kbd \in Kbd
  BY DEF KbdState
<1>5. y.kbd = make_break(e.kbd, c, l) /\ y.text = e.text \o Typed(e.kbd, c, l)
  <2>1. PICK z : z = Step(c, l)[e]
    OBVIOUS
  <2>2. z.kbd = make_break(e.kbd, c, l) /\ z.text = e.text \o Typed(e.kbd, c, l)
    BY <2>1, StepOf
  <2> QED BY <1>3, <2>1, <2>2
<1>6. /\ y.kbd.esc = FALSE
      /\ y.kbd.held = IF k \notin Flags THEN e.kbd.held
                      ELSE IF make THEN e.kbd.held \cup {role[k]} ELSE e.kbd.held \ {role[k]}
      /\ y.kbd.locks = IF k \in Flags THEN Toggled(e.kbd, Value(k), role[k], make) ELSE e.kbd.locks
  <2>1. Obeys(e.kbd, k, make, y.kbd)
    BY <1>1, <1>3, <1>4, <1>5, LastCode
  <2> QED BY <2>1 DEF Obeys
<1>7. Toggled(e.kbd, Value(k), role[k], make) = Toggled(x.kbd, Value(k), role[k], make)
  BY <1>3 DEF Toggled
<1>8. Obeys(x.kbd, k, make, y.kbd)
  BY <1>3, <1>6, <1>7 DEF Obeys
<1>9. TypesKey(x, k, make, l, y)
  BY <1>1, <1>3, <1>4, <1>5 DEF TypesKey
<1> QED BY <1>8, <1>9

-----------------------------------------------------------------------------
(* The keyboard: what the actions do to the codes on their way. *)

Start == [kbd |-> kbd, text |-> key_mq \o out]

(* What the driver will have done with the codes it is given.              *)
LEMMA AfterType ==
  ASSUME KeyboardTypeOK, NEW codes \in Seq(Code)
  PROVE  /\ Start \in KbdState
         /\ After(codes) = Translated(Start, codes, kbd_name)
         /\ After(codes) \in KbdState
         /\ After(codes).kbd \in Kbd /\ After(codes).text \in Seq(Nat)
<1>1. key_mq \o out \in Seq(Nat) /\ kbd \in Kbd /\ kbd_name \in Layout
  BY DEF KeyboardTypeOK
<1>2. Start \in KbdState
  BY <1>1 DEF Start, KbdState
<1>3. After(codes) = Translated(Start, codes, kbd_name)
  BY DEF After, Start
<1>4. After(codes) \in KbdState
  BY <1>1, <1>2, <1>3, TranslatedType
<1> QED BY <1>2, <1>3, <1>4 DEF KbdState

(***************************************************************************)
(* The codes on their way are codes.                                       *)
(***************************************************************************)
LEMMA QueuedType ==
  ASSUME KeyboardTypeOK
  PROVE  scan_mq \in Seq(Code) /\ sending.codes \in Seq(Code) /\ scan_mq \o sending.codes \in Seq(Code)
BY DEF KeyboardTypeOK

(***************************************************************************)
(* The code that is sent next.                                             *)
(***************************************************************************)
LEMMA NextCode ==
  ASSUME SendingInv, ~ Idle
  PROVE  /\ sending.key \in Key
         /\ Head(sending.codes) \in Code
         /\ \/ /\ Len(sending.codes) = 1 /\ Tail(sending.codes) = <<>>
               /\ Head(sending.codes) = KeyCode(sending.key, sending.key \in down)
            \/ /\ Len(sending.codes) = 2 /\ sending.key \in Extended
               /\ Head(sending.codes) = E0
               /\ Tail(sending.codes) = <<KeyCode(sending.key, sending.key \in down)>>
<1>1. PICK key \in Key : key = sending.key
  BY DEF SendingInv
<1>2. PICK c \in Code : c = KeyCode(key, key \in down) /\ E0 \in Code
  <2>1. (key \in down) \in BOOLEAN
    OBVIOUS
  <2>2. KeyCode(key, key \in down) \in Code /\ E0 \in Code
    BY <2>1, CodeTypes
  <2> QED BY <2>2
<1>3. \/ sending.codes = <<c>>
      \/ key \in Extended /\ sending.codes = <<E0, c>>
  BY <1>1, <1>2 DEF SendingInv
<1>4. Len(<<c>>) = 1 /\ Tail(<<c>>) = <<>> /\ Head(<<c>>) = c
  OBVIOUS
<1>5. Len(<<E0, c>>) = 2 /\ Tail(<<E0, c>>) = <<c>> /\ Head(<<E0, c>>) = E0
  BY <1>2
<1> QED BY <1>1, <1>2, <1>3, <1>4, <1>5

(***************************************************************************)
(* Moving an element from the head of a sequence to the end of another,    *)
(* and taking one from a concatenation.                                    *)
(***************************************************************************)
LEMMA MovedHead ==
  ASSUME NEW S, NEW q \in Seq(S), NEW r \in Seq(S), r # <<>>
  PROVE  Append(q, Head(r)) \o Tail(r) = q \o r
OBVIOUS

(* Taking the first of two queues in a row takes it from the first.        *)
LEMMA TailOfConcat ==
  ASSUME NEW S, NEW q \in Seq(S), NEW r \in Seq(S), q # <<>>
  PROVE  q \o r \in Seq(S) /\ q \o r # <<>> /\ Tail(q \o r) = Tail(q) \o r /\ Tail(q) \in Seq(S)
OBVIOUS

(***************************************************************************)
(* What keeps the codes on their way, and what the driver is, keeps what   *)
(* it will be.                                                             *)
(***************************************************************************)
LEMMA AheadKept ==
  ASSUME UNCHANGED <<scan_mq, key_mq, kbd, out, kbd_name>>
  PROVE  Ahead' = Ahead
BY DEF Ahead, After

(***************************************************************************)
(* A code accepted is the last one the driver will translate; all in all   *)
(* there are as many.                                                      *)
(***************************************************************************)
LEMMA AheadAccept ==
  ASSUME KeyboardTypeOK, ~ Idle, Head(sending.codes) \in Code,
         scan_mq' = Append(scan_mq, Head(sending.codes)),
         sending' = [sending EXCEPT !.codes = Tail(@)],
         UNCHANGED <<key_mq, kbd, out, kbd_name>>
  PROVE  /\ Ahead \in Kbd /\ Ahead' = make_break(Ahead, Head(sending.codes), kbd_name)
         /\ Typing' = Typing
<1>1. PICK c \in Code : c = Head(sending.codes)
  OBVIOUS
<1>2. scan_mq \in Seq(Code) /\ kbd_name \in Layout
  BY DEF KeyboardTypeOK
<1>3. After(scan_mq) \in KbdState /\ After(scan_mq) = Translated(Start, scan_mq, kbd_name) /\ Ahead \in Kbd
  BY <1>2, AfterType DEF Ahead
<1>4. After(scan_mq)' = Translated(Start, Append(scan_mq, c), kbd_name)
  BY <1>1 DEF After, Start
<1>5. After(scan_mq)' = Step(c, kbd_name)[After(scan_mq)]
  BY <1>2, <1>3, <1>4, TranslatedAppend
<1>6. PICK x : x = After(scan_mq)
  OBVIOUS
<1>7. Step(c, kbd_name)[x].kbd = make_break(x.kbd, c, kbd_name)
  BY <1>2, <1>3, <1>6, StepOf
<1>8. Ahead' = make_break(Ahead, c, kbd_name)
  BY <1>5, <1>6, <1>7 DEF Ahead
<1>9. Typing' = Typing
  <2>1. sending.codes \in Seq(Code) /\ sending.codes # <<>>
    BY QueuedType DEF Idle
  <2>2. Append(scan_mq, Head(sending.codes)) \o Tail(sending.codes) = scan_mq \o sending.codes
    BY <1>2, <2>1, MovedHead
  <2>3. sending'.codes = Tail(sending.codes)
    BY DEF KeyboardTypeOK
  <2>4. scan_mq' \o sending'.codes = scan_mq \o sending.codes
    BY <2>2, <2>3
  <2> QED BY <2>4 DEF Typing, After
<1> QED BY <1>1, <1>3, <1>8, <1>9

(***************************************************************************)
(* The task that translates a code has nothing ahead of it that it had     *)
(* not before.                                                             *)
(***************************************************************************)
LEMMA TranslateKeeps ==
  ASSUME KeyboardTypeOK, Translate
  PROVE  Ahead' = Ahead /\ Typing' = Typing
<1>1. /\ scan_mq # <<>> /\ out = <<>> /\ scan_mq' = Tail(scan_mq)
      /\ kbd' = make_break(kbd, Head(scan_mq), kbd_name)
      /\ out' = Typed(kbd, Head(scan_mq), kbd_name)
      /\ key_mq' = key_mq /\ kbd_name' = kbd_name /\ sending' = sending
  BY DEF Translate, env
<1>2. /\ scan_mq \in Seq(Code) /\ Head(scan_mq) \in Code /\ kbd_name \in Layout
      /\ sending.codes \in Seq(Code) /\ key_mq \in Seq(Nat)
  BY <1>1 DEF KeyboardTypeOK
<1>3. Start' = Step(Head(scan_mq), kbd_name)[Start]
  <2>1. key_mq \o out = key_mq
    BY <1>1, <1>2
  <2>2. Start.kbd = kbd /\ Start.text = key_mq /\ Start \in [kbd : Kbd, text : Seq(Nat)]
    BY <1>2, <2>1 DEF Start, KeyboardTypeOK
  <2>3. Start' = [kbd |-> make_break(kbd, Head(scan_mq), kbd_name),
                  text |-> key_mq \o Typed(kbd, Head(scan_mq), kbd_name)]
    BY <1>1 DEF Start
  <2> QED BY <2>2, <2>3 DEF Step
<1>4. PICK s : s = Start
  OBVIOUS
<1>5. ASSUME NEW codes \in Seq(Code), codes # <<>>, Head(codes) = Head(scan_mq)
      PROVE  Translated(Start', Tail(codes), kbd_name) = Translated(Start, codes, kbd_name)
  BY <1>3, <1>5, TranslatedTail
<1>6. Ahead' = Ahead
  <2>1. Translated(Start', Tail(scan_mq), kbd_name) = Translated(Start, scan_mq, kbd_name)
    BY <1>1, <1>2, <1>5
  <2>2. After(scan_mq)' = Translated(Start', Tail(scan_mq), kbd_name)
    BY <1>1 DEF After, Start
  <2>3. After(scan_mq) = Translated(Start, scan_mq, kbd_name)
    BY DEF After, Start
  <2> QED BY <2>1, <2>2, <2>3 DEF Ahead
<1>7. Typing' = Typing
  <2>1. PICK codes : codes = scan_mq \o sending.codes
    OBVIOUS
  <2>2. codes \in Seq(Code) /\ codes # <<>> /\ Head(codes) = Head(scan_mq) /\ Tail(codes) = Tail(scan_mq) \o sending.codes
    BY <1>1, <1>2, <2>1
  <2>3. Translated(Start', Tail(codes), kbd_name) = Translated(Start, codes, kbd_name)
    BY <1>5, <2>2
  <2>4. Typing' = Translated(Start', Tail(scan_mq) \o sending.codes, kbd_name)
    BY <1>1 DEF Typing, After, Start
  <2>5. Typing = Translated(Start, scan_mq \o sending.codes, kbd_name)
    BY DEF Typing, After, Start
  <2> QED BY <2>1, <2>2, <2>3, <2>4, <2>5
<1> QED BY <1>6, <1>7

(* A character that input_task puts in key_mq was counted as typed when    *)
(* its code was translated.                                                *)
LEMMA PutCharKeeps ==
  ASSUME KeyboardTypeOK, PutChar
  PROVE  Ahead' = Ahead /\ Typing' = Typing
<1>1. /\ out # <<>> /\ key_mq' = Append(key_mq, Head(out)) /\ out' = Tail(out)
      /\ kbd' = kbd /\ scan_mq' = scan_mq /\ sending' = sending /\ kbd_name' = kbd_name
  BY DEF PutChar, env
<1>2. key_mq \in Seq(Nat) /\ out \in Seq(Nat)
  BY DEF KeyboardTypeOK
<1>3. Append(key_mq, Head(out)) \o Tail(out) = key_mq \o out
  BY <1>1, <1>2
<1>4. key_mq' \o out' = key_mq \o out
  BY <1>1, <1>3
<1> QED BY <1>1, <1>4 DEF Ahead, Typing, After

(***************************************************************************)
(* What codes type does not depend on what was typed before.               *)
(***************************************************************************)
LEMMA TextTyped ==
  ASSUME NEW k \in Kbd, NEW codes \in Seq(Code), NEW l \in Layout
  PROVE  \E more \in Seq(Nat) : \A a \in Seq(Nat) :
           Translated([kbd |-> k, text |-> a], codes, l).text = a \o more
<1>1. PICK none : none = <<>>
  OBVIOUS
<1>2. none \in Seq(Nat)
  BY <1>1
<1>3. PICK more : more = Translated([kbd |-> k, text |-> none], codes, l).text
  OBVIOUS
<1>4. more \in Seq(Nat)
  <2>1. [kbd |-> k, text |-> none] \in KbdState
    BY <1>2 DEF KbdState
  <2>2. Translated([kbd |-> k, text |-> none], codes, l) \in KbdState
    BY <2>1, TranslatedType
  <2> QED BY <1>3, <2>2 DEF KbdState
<1>5. ASSUME NEW a \in Seq(Nat)
      PROVE  Translated([kbd |-> k, text |-> a], codes, l).text = a \o more
  <2>1. a \o none = a
    BY <1>1
  <2>2. Translated([kbd |-> k, text |-> a \o none], codes, l).text
          = a \o Translated([kbd |-> k, text |-> none], codes, l).text
    BY <1>2, TranslatedText, ZenonT(40)
  <2> QED BY <1>3, <2>1, <2>2
<1> QED BY <1>4, <1>5

(***************************************************************************)
(* A program that reads takes the first character of what will have been   *)
(* typed.                                                                  *)
(***************************************************************************)
LEMMA GetchReads ==
  ASSUME KeyboardTypeOK, getch
  PROVE  /\ Ahead' = Ahead /\ Typing'.kbd = Typing.kbd
         /\ Typing.text # <<>> /\ Typing'.text = Tail(Typing.text)
<1>1. /\ key_mq # <<>> /\ key_mq' = Tail(key_mq) /\ out' = out
      /\ kbd' = kbd /\ scan_mq' = scan_mq /\ sending' = sending /\ kbd_name' = kbd_name
  BY DEF getch, env
<1>2. /\ key_mq \in Seq(Nat) /\ out \in Seq(Nat) /\ kbd \in Kbd /\ kbd_name \in Layout
      /\ scan_mq \in Seq(Code) /\ scan_mq \o sending.codes \in Seq(Code)
  BY QueuedType DEF KeyboardTypeOK
<1>3. PICK s : s = Start
  OBVIOUS
<1>4. PICK s2 : s2 = [kbd |-> kbd, text |-> Tail(key_mq) \o out]
  OBVIOUS
<1>5. /\ s \in KbdState /\ s2 \in KbdState /\ s.kbd = kbd /\ s2.kbd = kbd
      /\ Tail(key_mq) \in Seq(Nat) /\ Tail(key_mq) \o out \in Seq(Nat)
  BY <1>1, <1>2, <1>3, <1>4 DEF Start, KbdState
<1>6. ASSUME NEW codes \in Seq(Code)
      PROVE  /\ Translated(s2, codes, kbd_name).kbd = Translated(s, codes, kbd_name).kbd
             /\ Translated(s, codes, kbd_name).text # <<>>
             /\ Translated(s2, codes, kbd_name).text = Tail(Translated(s, codes, kbd_name).text)
  <2>1. Translated(s2, codes, kbd_name).kbd = Translated(s, codes, kbd_name).kbd
    BY <1>2, <1>5, TranslatedKbd
  <2>2. PICK more \in Seq(Nat) :
          \A a \in Seq(Nat) : Translated([kbd |-> kbd, text |-> a], codes, kbd_name).text = a \o more
    BY <1>2, TextTyped
  <2>3. Translated(s, codes, kbd_name).text = (key_mq \o out) \o more
    <3>1. key_mq \o out \in Seq(Nat) /\ s = [kbd |-> kbd, text |-> key_mq \o out]
      BY <1>2, <1>3 DEF Start
    <3> QED BY <2>2, <3>1
  <2>4. Translated(s2, codes, kbd_name).text = (Tail(key_mq) \o out) \o more
    BY <1>4, <1>5, <2>2
  <2>5. (key_mq \o out) \o more # <<>> /\ Tail((key_mq \o out) \o more) = (Tail(key_mq) \o out) \o more
    <3>1. key_mq \o out \in Seq(Nat) /\ key_mq \o out # <<>> /\ Tail(key_mq \o out) = Tail(key_mq) \o out
      BY <1>1, <1>2, TailOfConcat, SMTT(30)
    <3>2. PICK q \in Seq(Nat) : q = key_mq \o out
      BY <3>1
    <3>3. q \o more # <<>> /\ Tail(q \o more) = Tail(q) \o more
      <4>1. q # <<>>
        BY <3>1, <3>2
      <4> QED BY <4>1, TailOfConcat
    <3> QED BY <3>1, <3>2, <3>3
  <2> QED BY <2>1, <2>3, <2>4, <2>5
<1>7. /\ Ahead = Translated(s, scan_mq, kbd_name).kbd
      /\ Typing = Translated(s, scan_mq \o sending.codes, kbd_name)
      /\ Ahead' = Translated(s2, scan_mq, kbd_name).kbd
      /\ Typing' = Translated(s2, scan_mq \o sending.codes, kbd_name)
  BY <1>1, <1>3, <1>4 DEF Ahead, Typing, After, Start
<1> QED BY <1>2, <1>6, <1>7

(***************************************************************************)
(* Another layout changes nothing of what the driver will hold.            *)
(***************************************************************************)
LEMMA SetLayoutKeeps ==
  ASSUME KeyboardTypeOK, NEW l \in Layout, mt_kbd_setlayout(l)
  PROVE  Ahead' = Ahead /\ Typing'.kbd = Typing.kbd
<1>1. /\ kbd_name' = l /\ out' = out /\ kbd' = kbd /\ key_mq' = key_mq
      /\ scan_mq' = scan_mq /\ sending' = sending
  BY DEF mt_kbd_setlayout, env
<1>2. kbd_name \in Layout /\ scan_mq \in Seq(Code) /\ scan_mq \o sending.codes \in Seq(Code)
  BY QueuedType DEF KeyboardTypeOK
<1>3. PICK s : s = Start
  OBVIOUS
<1>4. s \in KbdState
  BY <1>2, <1>3, AfterType
<1>5. \A codes \in Seq(Code) : Translated(s, codes, l).kbd = Translated(s, codes, kbd_name).kbd
  BY <1>2, <1>4, TranslatedKbd
<1>6. /\ Ahead = Translated(s, scan_mq, kbd_name).kbd
      /\ Typing = Translated(s, scan_mq \o sending.codes, kbd_name)
      /\ Ahead' = Translated(s, scan_mq, l).kbd
      /\ Typing' = Translated(s, scan_mq \o sending.codes, l)
  BY <1>1, <1>3 DEF Ahead, Typing, After, Start
<1> QED BY <1>2, <1>5, <1>6

-----------------------------------------------------------------------------
(* The keyboard: the invariant holds. *)

(***************************************************************************)
(* Nothing is sent, queued or held down at first.                          *)
(***************************************************************************)
LEMMA KeyboardInitIInv == KeyboardInit => KeyboardIInv
<1> SUFFICES ASSUME KeyboardInit PROVE KeyboardIInv
  OBVIOUS
<1>1. /\ down = {} /\ last = NoKey /\ sending = [key |-> NoKey, codes |-> <<>>]
      /\ scan_mq = <<>> /\ key_mq = <<>> /\ out = <<>> /\ kbd_name = us_std
      /\ kbd = [esc |-> FALSE, held |-> {}, locks |-> {}]
      /\ lost = 0 /\ inStep = TRUE /\ whole = Flags
  BY DEF KeyboardInit
<1>2. /\ NoKey \notin Key /\ us_std \in Layout /\ MaxLost \in Nat
      /\ ScanSize \in Nat /\ KeySize \in Nat
  BY KeyboardAssumption
<1>3. KeyboardTypeOK
  <2>1. kbd \in Kbd
    BY <1>1 DEF Kbd
  <2> QED BY <1>1, <1>2, <2>1 DEF KeyboardTypeOK
<1>4. Idle /\ SendingInv
  BY <1>1 DEF Idle, SendingInv
<1>5. Ahead = kbd /\ Typing.kbd = kbd
  <2>1. Translated(Start, <<>>, kbd_name) = Start
    BY TranslatedNone
  <2>2. Start.kbd = kbd
    BY DEF Start
  <2>3. scan_mq \o sending.codes = <<>>
    BY <1>1
  <2> QED BY <1>1, <2>1, <2>2, <2>3 DEF Ahead, Typing, After, Start
<1>6. kbd.esc = FALSE /\ kbd.held = {}
  BY <1>1
<1>7. EscInv
  BY <1>1, <1>5, <1>6 DEF EscInv
<1>8. ModifiersFollow
  BY <1>1, <1>5, <1>6 DEF ModifiersFollow, Ahead
<1>9. LosslessInv
  <2>1. {role[k] : k \in Flags \cap down} = {}
    BY <1>1
  <2> QED BY <1>5, <1>6, <2>1 DEF LosslessInv
<1> QED BY <1>3, <1>4, <1>7, <1>8, <1>9 DEF KeyboardIInv

(* A key sends its codes: it is the only one whose state changes.          *)
KeySent(k, make) ==
  /\ Idle /\ sending' = [key |-> k, codes |-> Codes(k, make)]
  /\ make <=> k \in down'
  /\ down' \subseteq Key /\ last' \in down' \cup {NoKey}
  /\ \A j \in Key : j # k => (j \in down' <=> j \in down)
  /\ UNCHANGED <<scan_mq, key_mq, kbd, out, kbd_name>> /\ UNCHANGED history

(* A press sends the codes of the key, down.                               *)
LEMMA PressSends ==
  ASSUME KeyboardTypeOK, NEW k \in Key, Press(k)
  PROVE  KeySent(k, TRUE)
BY DEF KeyboardTypeOK, Press, Sends, KeySent

(* A release sends the codes of the key, up.                               *)
LEMMA ReleaseSends ==
  ASSUME KeyboardTypeOK, NEW k \in Key, Release(k)
  PROVE  KeySent(k, FALSE)
BY DEF KeyboardTypeOK, Release, Sends, KeySent

(* A key that repeats is down, and sends its codes again.                  *)
LEMMA RepeatSends ==
  ASSUME KeyboardTypeOK, Repeat
  PROVE  last \in Key /\ last \in down /\ KeySent(last, TRUE)
BY DEF KeyboardTypeOK, Repeat, Sends, KeySent

(* A key that begins to send its codes leaves the types, and has all of    *)
(* them to send.                                                           *)
LEMMA KeySentType ==
  ASSUME KeyboardTypeOK, NEW k \in Key, NEW make \in BOOLEAN, KeySent(k, make)
  PROVE  KeyboardTypeOK' /\ SendingInv'
<1>1. Codes(k, make) \in Seq(Code)
  BY CodesOf
<1>2. sending' = [key |-> k, codes |-> Codes(k, make)]
  BY DEF KeySent
<1>3. KeyboardTypeOK'
  BY <1>1, <1>2 DEF KeyboardTypeOK, KeySent, history
<1>4. make = (k \in down')
  BY DEF KeySent
<1>5. KeyCode(k, make) = KeyCode(k, k \in down')
  BY <1>4
<1>6. sending'.key = k /\ sending'.codes = Codes(k, make)
  BY <1>2
<1>7. \/ sending'.codes = <<KeyCode(k, k \in down')>>
      \/ k \in Extended /\ sending'.codes = <<E0, KeyCode(k, k \in down')>>
  BY <1>5, <1>6, CodesOf
<1>8. SendingInv'
  BY <1>6, <1>7 DEF SendingInv
<1> QED BY <1>3, <1>8

(***************************************************************************)
(* The codes of a key that is pressed, held down or released do to what    *)
(* will be held and typed what they are for.                               *)
(***************************************************************************)
LEMMA TypingSent ==
  ASSUME KeyboardTypeOK, NEW k \in Key, NEW make \in BOOLEAN, sending.codes = <<>>,
         KeySent(k, make), Typing.kbd.esc = FALSE
  PROVE  Obeys(Typing.kbd, k, make, Typing'.kbd) /\ TypesKey(Typing, k, make, kbd_name, Typing')
<1>1. /\ sending'.codes = Codes(k, make)
      /\ scan_mq' = scan_mq /\ key_mq' = key_mq /\ kbd' = kbd /\ out' = out /\ kbd_name' = kbd_name
  BY DEF KeySent
<1>2. scan_mq \in Seq(Code) /\ kbd_name \in Layout /\ Start \in KbdState
  BY AfterType DEF KeyboardTypeOK
<1>3. Typing = Translated(Start, scan_mq, kbd_name)
  <2>1. scan_mq \o <<>> = scan_mq
    BY <1>2
  <2> QED BY <2>1 DEF Typing, After, Start
<1>4. Typing' = Translated(Start, scan_mq \o Codes(k, make), kbd_name)
  BY <1>1 DEF Typing, After, Start
<1>5. PICK x : x = Typing
  OBVIOUS
<1>6. PICK y : y = Typing'
  OBVIOUS
<1>7. PICK s \in KbdState : s = Start
  BY <1>2
<1>8. PICK codes \in Seq(Code) : codes = scan_mq
  BY <1>2
<1>9. x = Translated(s, codes, kbd_name) /\ x.kbd.esc = FALSE
      /\ y = Translated(s, codes \o Codes(k, make), kbd_name)
  BY <1>3, <1>4, <1>5, <1>6, <1>7, <1>8
<1>10. Obeys(x.kbd, k, make, y.kbd) /\ TypesKey(x, k, make, kbd_name, y)
  BY <1>2, <1>9, WholeKey
<1> QED BY <1>5, <1>6, <1>10

(* A key that begins to send its codes: what is queued is unchanged, and   *)
(* what all codes lead to follows the key.                                 *)
LEMMA KeySentKeeps ==
  ASSUME KeyboardIInv, NEW k \in Key, NEW make \in BOOLEAN, KeySent(k, make)
  PROVE  EscInv' /\ ModifiersFollow' /\ LosslessInv'
<1>1. /\ Idle /\ sending.codes = <<>>
      /\ sending'.key = k /\ sending'.codes = Codes(k, make)
      /\ make <=> k \in down'
      /\ \A j \in Key : j # k => (j \in down' <=> j \in down)
      /\ scan_mq' = scan_mq /\ kbd_name' = kbd_name /\ lost' = lost /\ inStep' = inStep /\ whole' = whole
  BY DEF KeySent, Idle, history
<1>2. KeyboardTypeOK /\ whole \subseteq Flags /\ Flags \subseteq Key /\ kbd_name \in Layout
  BY DEF KeyboardIInv, KeyboardTypeOK, Flags
<1>3. Ahead' = Ahead
  BY AheadKept DEF KeySent
<1>4. Codes(k, make) # <<>> /\ ~ (Len(Codes(k, make)) = 1 /\ k \in Extended)
  <2>1. CASE k \in Extended
    <3>1. Codes(k, make) = <<E0, KeyCode(k, make)>>
      BY <2>1, CodesOf
    <3> QED BY <3>1
  <2>2. CASE k \notin Extended
    <3>1. Codes(k, make) = <<KeyCode(k, make)>>
      BY <2>2, CodesOf
    <3> QED BY <2>2, <3>1
  <2> QED BY <2>1, <2>2
<1>5. EscInv'
  <2>1. inStep => ~ Ahead.esc
    BY <1>1 DEF KeyboardIInv, EscInv
  <2> QED BY <1>1, <1>3, <1>4, <2>1 DEF EscInv
<1>6. ModifiersFollow'
  <2>1. ~ Idle'
    BY <1>1, <1>4 DEF Idle
  <2>2. \A j \in whole : role[j] \in Ahead.held <=> j \in down
    BY <1>1 DEF KeyboardIInv, ModifiersFollow, Ahead
  <2>3. \A j \in whole' : sending'.key # j => (role[j] \in Ahead'.held <=> j \in down')
    BY <1>1, <1>2, <1>3, <2>2
  <2> QED BY <2>1, <2>3 DEF ModifiersFollow, Ahead
<1>7. LosslessInv'
  <2> SUFFICES ASSUME lost = 0
               PROVE  /\ Typing'.kbd.esc = FALSE
                      /\ Typing'.kbd.held = {role[j] : j \in Flags \cap down'}
    BY <1>1 DEF LosslessInv
  <2>1. PICK x : x = Typing
    OBVIOUS
  <2>2. x.kbd.esc = FALSE /\ x.kbd.held = {role[j] : j \in Flags \cap down}
    BY <2>1 DEF KeyboardIInv, LosslessInv
  <2>3. Obeys(x.kbd, k, make, Typing'.kbd)
    BY <1>1, <1>2, <2>1, <2>2, TypingSent
  <2>4. \A i, j \in Flags : role[i] = role[j] => i = j
    BY KeyboardAssumption
  <2>5. Typing'.kbd.esc = FALSE
        /\ Typing'.kbd.held = IF k \notin Flags THEN x.kbd.held
                              ELSE IF make THEN x.kbd.held \cup {role[k]} ELSE x.kbd.held \ {role[k]}
    BY <2>3 DEF Obeys
  <2>6. {role[j] : j \in Flags \cap down'}
          = IF k \notin Flags THEN {role[j] : j \in Flags \cap down}
            ELSE IF make THEN {role[j] : j \in Flags \cap down} \cup {role[k]}
            ELSE {role[j] : j \in Flags \cap down} \ {role[k]}
    <3>1. CASE k \notin Flags
      <4>1. Flags \cap down' = Flags \cap down
        BY <1>1, <1>2, <3>1
      <4> QED BY <3>1, <4>1
    <3>2. CASE k \in Flags /\ make
      <4>1. Flags \cap down' = (Flags \cap down) \cup {k}
        BY <1>1, <1>2, <3>2
      <4> QED BY <3>2, <4>1
    <3>3. CASE k \in Flags /\ ~ make
      <4>1. Flags \cap down' = (Flags \cap down) \ {k}
        BY <1>1, <1>2, <3>3
      <4> QED BY <2>4, <3>3, <4>1
    <3> QED BY <3>1, <3>2, <3>3
  <2> QED BY <2>2, <2>5, <2>6
<1> QED BY <1>5, <1>6, <1>7

(***************************************************************************)
(* The interrupt takes a code, or loses it.                                *)
(***************************************************************************)
LEMMA KbdintType ==
  ASSUME KeyboardTypeOK, SendingInv, kbdint
  PROVE  KeyboardTypeOK' /\ SendingInv'
<1>1. /\ ~ Idle /\ sending' = [sending EXCEPT !.codes = Tail(@)]
      /\ down' = down /\ last' = last /\ key_mq' = key_mq /\ kbd' = kbd /\ out' = out
      /\ kbd_name' = kbd_name
  BY DEF kbdint
<1>2. sending'.key = sending.key /\ sending'.codes = Tail(sending.codes)
  BY <1>1 DEF KeyboardTypeOK
<1>3. sending.codes \in Seq(Code) /\ Head(sending.codes) \in Code /\ Tail(sending.codes) \in Seq(Code)
  <2>1. sending.codes \in Seq(Code) /\ sending.codes # <<>>
    BY <1>1, QueuedType DEF Idle
  <2> QED BY <2>1
<1>4. sending' \in [key : Key \cup {NoKey}, codes : Seq(Code)]
  BY <1>1, <1>3 DEF KeyboardTypeOK
<1>5. ASSUME Accept PROVE KeyboardTypeOK'
  <2>1. scan_mq' \in Seq(Code) /\ Len(scan_mq') <= ScanSize
    <3>1. Len(scan_mq) < ScanSize /\ scan_mq' = Append(scan_mq, Head(sending.codes))
      BY <1>5 DEF Accept
    <3>2. scan_mq \in Seq(Code) /\ ScanSize \in Nat
      BY KeyboardAssumption DEF KeyboardTypeOK
    <3> QED BY <1>3, <3>1, <3>2
  <2>2. lost' = lost /\ inStep' \in BOOLEAN /\ whole' \subseteq Flags
    <3>1. CASE Len(sending.codes) > 1
      BY <1>5, <3>1 DEF Accept, KeyboardTypeOK
    <3>2. CASE ~ (Len(sending.codes) > 1)
      BY <1>5, <3>2 DEF Accept, KeyboardTypeOK
    <3> QED BY <3>1, <3>2
  <2> QED BY <1>1, <1>4, <2>1, <2>2 DEF KeyboardTypeOK
<1>6. ASSUME Lose PROVE KeyboardTypeOK'
  <2>1. scan_mq' = scan_mq /\ lost' \in 0 .. MaxLost /\ inStep' = FALSE /\ whole' \subseteq whole
    BY <1>6, KeyboardAssumption DEF Lose, KeyboardTypeOK
  <2> QED BY <1>1, <1>4, <2>1 DEF KeyboardTypeOK
<1>7. SendingInv'
  <2>1. \/ Tail(sending.codes) = <<>>
        \/ Tail(sending.codes) = <<KeyCode(sending.key, sending.key \in down)>>
    BY <1>1, NextCode
  <2>2. sending.key \in Key
    BY <1>1, NextCode
  <2> QED BY <1>1, <1>2, <2>1, <2>2 DEF SendingInv, Idle
<1> QED BY <1>1, <1>5, <1>6, <1>7 DEF kbdint

(* kbdint queues the E0 of an extended key: in step, the driver will wait  *)
(* for the code after it.                                                  *)
LEMMA AcceptFirst ==
  ASSUME KeyboardIInv, kbdint, Accept, Len(sending.codes) > 1
  PROVE  EscInv' /\ ModifiersFollow'
<1>1. /\ ~ Idle /\ sending'.key = sending.key /\ sending'.codes = Tail(sending.codes)
      /\ sending' = [sending EXCEPT !.codes = Tail(@)]
      /\ scan_mq' = Append(scan_mq, Head(sending.codes))
      /\ down' = down /\ key_mq' = key_mq /\ kbd' = kbd /\ out' = out /\ kbd_name' = kbd_name
      /\ inStep' = inStep /\ whole' = whole
  BY DEF kbdint, Accept, KeyboardIInv, KeyboardTypeOK
<1>2. KeyboardTypeOK /\ SendingInv /\ kbd_name \in Layout
  BY DEF KeyboardIInv, KeyboardTypeOK
<1>3. /\ sending.key \in Extended /\ Head(sending.codes) = E0 /\ Head(sending.codes) \in Code
      /\ Len(Tail(sending.codes)) = 1
  <2>1. /\ Len(sending.codes) = 2 /\ sending.key \in Extended /\ Head(sending.codes) = E0
        /\ Head(sending.codes) \in Code
    BY <1>1, <1>2, NextCode
  <2>2. sending.codes \in Seq(Code)
    BY <1>2, QueuedType
  <2> QED BY <2>1, <2>2
<1>4. Ahead \in Kbd /\ Ahead' = make_break(Ahead, E0, kbd_name)
  BY <1>1, <1>2, <1>3, AheadAccept
<1>5. Awaits(Ahead, Ahead')
  <2>1. PICK x \in Kbd : x = Ahead
    BY <1>4
  <2>2. PICK y : y = Ahead'
    OBVIOUS
  <2>3. y = make_break(x, E0, kbd_name)
    BY <1>4, <2>1, <2>2
  <2>4. Awaits(x, y)
    BY <1>2, <2>3, ExtCode
  <2> QED BY <2>1, <2>2, <2>4
<1>6. Ahead'.esc = TRUE /\ Ahead'.held = Ahead.held
  BY <1>5 DEF Awaits
<1>7. EscInv'
  BY <1>1, <1>3, <1>6 DEF EscInv
<1>8. ModifiersFollow'
  <2>1. ~ Idle' /\ ~ Idle
    BY <1>1, <1>3 DEF Idle
  <2>2. \A j \in whole : sending.key # j => (role[j] \in Ahead.held <=> j \in down)
    BY <2>1 DEF KeyboardIInv, ModifiersFollow, Ahead
  <2> QED BY <1>1, <1>6, <2>1, <2>2 DEF ModifiersFollow, Ahead
<1> QED BY <1>7, <1>8

(* kbdint queues the last code of a key: in step, the flag of the key will *)
(* be right, and in any case only those of its twins can be wrong.         *)
LEMMA AcceptLast ==
  ASSUME KeyboardIInv, kbdint, Accept, ~ (Len(sending.codes) > 1)
  PROVE  EscInv' /\ ModifiersFollow'
<1>1. /\ ~ Idle /\ sending'.key = sending.key /\ sending'.codes = Tail(sending.codes)
      /\ sending' = [sending EXCEPT !.codes = Tail(@)]
      /\ scan_mq' = Append(scan_mq, Head(sending.codes))
      /\ down' = down /\ key_mq' = key_mq /\ kbd' = kbd /\ out' = out /\ kbd_name' = kbd_name
      /\ inStep' = TRUE
      /\ whole' = IF inStep THEN whole \cup ({sending.key} \cap Flags) ELSE whole \ Twins(sending.key)
  BY DEF kbdint, Accept, KeyboardIInv, KeyboardTypeOK
<1>2. KeyboardTypeOK /\ SendingInv /\ kbd_name \in Layout /\ whole \subseteq Flags /\ Flags \subseteq Key
  BY DEF KeyboardIInv, KeyboardTypeOK, Flags
<1>3. PICK k \in Key : k = sending.key
  BY <1>1, <1>2, NextCode
<1>4. PICK make \in BOOLEAN : make <=> k \in down
  OBVIOUS
<1>5. /\ Len(sending.codes) = 1 /\ Tail(sending.codes) = <<>>
      /\ Head(sending.codes) = KeyCode(k, make) /\ Head(sending.codes) \in Code
  <2>1. /\ Len(sending.codes) = 1 /\ Tail(sending.codes) = <<>>
        /\ Head(sending.codes) = KeyCode(k, k \in down) /\ Head(sending.codes) \in Code
    BY <1>1, <1>2, <1>3, NextCode
  <2>2. make = (k \in down)
    BY <1>4
  <2> QED BY <2>1, <2>2
<1>6. Ahead \in Kbd /\ Ahead' = make_break(Ahead, KeyCode(k, make), kbd_name)
  BY <1>1, <1>2, <1>5, AheadAccept
<1>7. PICK x \in Kbd : x = Ahead
  BY <1>6
<1>8. PICK y : y = Ahead'
  OBVIOUS
<1>9. y = make_break(x, KeyCode(k, make), kbd_name)
  BY <1>6, <1>7, <1>8
<1>10. /\ y.esc = FALSE
       /\ Spares(x, k, y)
       /\ (x.esc <=> k \in Extended) => Obeys(x, k, make, y)
  BY <1>2, <1>9, LastCode
<1>11. EscInv'
  <2>1. ~ (Len(sending'.codes) = 1)
    <3>1. sending'.codes = <<>>
      BY <1>1, <1>5
    <3>2. Len(<<>>) = 0
      OBVIOUS
    <3> QED BY <3>1, <3>2
  <2> QED BY <1>8, <1>10, <2>1 DEF EscInv
<1>12. \A j \in whole : j # k => (role[j] \in x.held <=> j \in down)
  BY <1>1, <1>3, <1>7 DEF KeyboardIInv, ModifiersFollow, Ahead
<1>13. \A j \in whole' : role[j] \in y.held <=> j \in down
  <2>1. CASE inStep
    <3>1. x.esc <=> k \in Extended
      BY <1>3, <1>5, <1>7, <2>1 DEF KeyboardIInv, EscInv
    <3>2. y.held = IF k \notin Flags THEN x.held
                   ELSE IF make THEN x.held \cup {role[k]} ELSE x.held \ {role[k]}
      BY <1>10, <3>1 DEF Obeys
    <3>3. whole' \subseteq Flags /\ \A j \in whole' : j # k => j \in whole
      BY <1>1, <1>2, <1>3, <2>1
    <3>4. \A j \in Flags : k \in Flags /\ j # k => role[j] # role[k]
      BY KeyboardAssumption
    <3>5. ASSUME NEW j \in whole', j # k PROVE role[j] \in y.held <=> j \in down
      <4>1. role[j] \in x.held <=> j \in down
        BY <1>12, <3>3, <3>5
      <4>2. role[j] \in y.held <=> role[j] \in x.held
        BY <3>2, <3>3, <3>4, <3>5
      <4> QED BY <4>1, <4>2
    <3>6. ASSUME k \in whole' PROVE role[k] \in y.held <=> k \in down
      BY <1>4, <3>2, <3>3, <3>6
    <3> QED BY <3>5, <3>6
  <2>2. CASE ~ inStep
    <3>1. \A j \in whole' : j \in whole /\ scan[j] # scan[k]
      BY <1>1, <1>2, <1>3, <2>2 DEF Twins
    <3>2. \A j \in whole' : j # k /\ j \in Flags
      BY <1>2, <3>1
    <3> QED BY <1>10, <1>12, <3>1, <3>2 DEF Spares
  <2> QED BY <2>1, <2>2
<1>14. ModifiersFollow'
  BY <1>1, <1>8, <1>13 DEF ModifiersFollow, Ahead
<1> QED BY <1>11, <1>14

(* kbdint loses a code: the driver may be wrong about the key and its      *)
(* twins, that are no longer whole.                                        *)
LEMMA LoseKeeps ==
  ASSUME KeyboardIInv, kbdint, Lose
  PROVE  EscInv' /\ ModifiersFollow' /\ lost' # 0
<1>1. /\ ~ Idle /\ sending'.key = sending.key
      /\ scan_mq' = scan_mq /\ down' = down /\ key_mq' = key_mq /\ kbd' = kbd /\ out' = out
      /\ kbd_name' = kbd_name
      /\ inStep' = FALSE /\ whole' = whole \ Twins(sending.key) /\ lost' = lost + 1 /\ lost \in Nat
  BY DEF kbdint, Lose, KeyboardIInv, KeyboardTypeOK
<1>2. SendingInv /\ whole \subseteq Flags /\ Flags \subseteq Key
  BY DEF KeyboardIInv, KeyboardTypeOK, Flags
<1>3. Ahead' = Ahead
  BY <1>1, AheadKept
<1>4. sending.key \in Key
  BY <1>1, <1>2 DEF SendingInv
<1>5. \A j \in whole' : j \in whole /\ j # sending.key
  BY <1>1, <1>4 DEF Twins
<1>6. \A j \in whole : sending.key # j => (role[j] \in Ahead.held <=> j \in down)
  BY DEF KeyboardIInv, ModifiersFollow, Ahead
<1>7. ModifiersFollow'
  BY <1>1, <1>3, <1>5, <1>6 DEF ModifiersFollow, Ahead
<1>8. EscInv' /\ lost' # 0
  BY <1>1 DEF EscInv
<1> QED BY <1>7, <1>8

(* A code that is queued changes nothing in what all codes lead to.        *)
LEMMA KbdintTyping ==
  ASSUME KeyboardIInv, kbdint, Accept
  PROVE  Typing' = Typing /\ lost' = lost /\ down' = down /\ kbd_name' = kbd_name
<1>1. KeyboardTypeOK /\ SendingInv /\ ~ Idle
  BY DEF KeyboardIInv, kbdint
<1>2. Head(sending.codes) \in Code
  BY <1>1, NextCode
<1>3. Typing' = Typing
  BY <1>1, <1>2, AheadAccept DEF kbdint, Accept
<1> QED BY <1>3 DEF kbdint, Accept

(* The interrupt handler keeps the invariant.                              *)
LEMMA KbdintIInv == KeyboardIInv /\ kbdint => KeyboardIInv'
<1> SUFFICES ASSUME KeyboardIInv, kbdint PROVE KeyboardIInv'
  OBVIOUS
<1>1. KeyboardTypeOK' /\ SendingInv'
  BY KbdintType DEF KeyboardIInv
<1>2. CASE Accept
  <2>1. EscInv' /\ ModifiersFollow'
    BY <1>2, AcceptFirst, AcceptLast
  <2>2. LosslessInv'
    BY <1>2, KbdintTyping DEF KeyboardIInv, LosslessInv
  <2> QED BY <1>1, <2>1, <2>2 DEF KeyboardIInv
<1>3. CASE Lose
  BY <1>1, <1>3, LoseKeeps DEF KeyboardIInv, LosslessInv
<1> QED BY <1>2, <1>3 DEF kbdint

(* The actions of the programs: they change nothing of what will be held.  *)
HeldKept ==
  /\ KeyboardTypeOK' /\ UNCHANGED env /\ UNCHANGED history
  /\ Ahead' = Ahead /\ Typing'.kbd = Typing.kbd

(* The translation of a code by input_task is as expected of the queue:    *)
(* static variables and text become what was foreseen.                     *)
LEMMA TranslateHeld ==
  ASSUME KeyboardTypeOK, Translate
  PROVE  HeldKept
<1>1. Ahead' = Ahead /\ Typing' = Typing
  BY TranslateKeeps
<1>2. /\ scan_mq # <<>> /\ out = <<>> /\ scan_mq' = Tail(scan_mq)
      /\ kbd' = make_break(kbd, Head(scan_mq), kbd_name)
      /\ out' = Typed(kbd, Head(scan_mq), kbd_name)
      /\ key_mq' = key_mq /\ kbd_name' = kbd_name /\ UNCHANGED env /\ UNCHANGED history
  BY DEF Translate
<1>3. scan_mq' \in Seq(Code) /\ Len(scan_mq') <= ScanSize /\ Head(scan_mq) \in Code
  BY <1>2, KeyboardAssumption DEF KeyboardTypeOK
<1>4. kbd' \in Kbd /\ out' \in Seq(Nat)
  BY <1>2, <1>3, BreakAnyLayout, TypedType DEF KeyboardTypeOK
<1>5. KeyboardTypeOK'
  BY <1>2, <1>3, <1>4 DEF KeyboardTypeOK, env, history
<1> QED BY <1>1, <1>2, <1>5 DEF HeldKept

(* input_task puts one character in key_mq.                                *)
LEMMA PutCharHeld ==
  ASSUME KeyboardTypeOK, PutChar
  PROVE  HeldKept
<1>1. Ahead' = Ahead /\ Typing' = Typing
  BY PutCharKeeps
<1>2. /\ out # <<>> /\ key_mq' = Append(key_mq, Head(out)) /\ out' = Tail(out)
      /\ Len(key_mq) < KeySize /\ kbd' = kbd /\ scan_mq' = scan_mq /\ kbd_name' = kbd_name
      /\ UNCHANGED env /\ UNCHANGED history
  BY DEF PutChar
<1>3. key_mq' \in Seq(Nat) /\ Len(key_mq') <= KeySize /\ out' \in Seq(Nat)
  BY <1>2, KeyboardAssumption DEF KeyboardTypeOK
<1>4. KeyboardTypeOK'
  BY <1>2, <1>3 DEF KeyboardTypeOK, env, history
<1> QED BY <1>1, <1>2, <1>4 DEF HeldKept

(* A program reads one character.                                          *)
LEMMA GetchHeld ==
  ASSUME KeyboardTypeOK, getch
  PROVE  HeldKept
<1>1. Ahead' = Ahead /\ Typing'.kbd = Typing.kbd
  BY GetchReads
<1>2. /\ key_mq # <<>> /\ key_mq' = Tail(key_mq)
      /\ kbd' = kbd /\ scan_mq' = scan_mq /\ kbd_name' = kbd_name /\ out' = out
      /\ UNCHANGED env /\ UNCHANGED history
  BY DEF getch
<1>3. key_mq' \in Seq(Nat) /\ Len(key_mq') <= KeySize
  BY <1>2, KeyboardAssumption DEF KeyboardTypeOK
<1>4. KeyboardTypeOK'
  BY <1>2, <1>3 DEF KeyboardTypeOK, env, history
<1> QED BY <1>1, <1>2, <1>4 DEF HeldKept

(* A new layout changes what is typed and no flag or lock.                 *)
LEMMA SetLayoutHeld ==
  ASSUME KeyboardTypeOK, NEW l \in Layout, mt_kbd_setlayout(l)
  PROVE  HeldKept
<1>1. Ahead' = Ahead /\ Typing'.kbd = Typing.kbd
  BY SetLayoutKeeps
<1>2. KeyboardTypeOK' /\ UNCHANGED env /\ UNCHANGED history
  BY DEF mt_kbd_setlayout, KeyboardTypeOK, env, history
<1> QED BY <1>1, <1>2 DEF HeldKept

(* The steps that leave the keys alone keep the invariant.                 *)
LEMMA HeldKeptIInv == KeyboardIInv /\ HeldKept => KeyboardIInv'
<1> SUFFICES ASSUME KeyboardIInv, HeldKept PROVE KeyboardIInv'
  OBVIOUS
<1>1. /\ KeyboardTypeOK' /\ down' = down /\ sending' = sending
      /\ lost' = lost /\ inStep' = inStep /\ whole' = whole
      /\ Ahead' = Ahead /\ Typing'.kbd = Typing.kbd
  BY DEF HeldKept, env, history
<1>2. SendingInv'
  BY <1>1 DEF KeyboardIInv, SendingInv, Idle
<1>3. EscInv'
  BY <1>1 DEF KeyboardIInv, EscInv
<1>4. ModifiersFollow'
  BY <1>1 DEF KeyboardIInv, ModifiersFollow, Ahead, Idle
<1>5. LosslessInv'
  BY <1>1 DEF KeyboardIInv, LosslessInv
<1> QED BY <1>1, <1>2, <1>3, <1>4, <1>5 DEF KeyboardIInv

(* The steps of the keys keep the invariant.                               *)
LEMMA KeySentIInv ==
  ASSUME KeyboardIInv, NEW k \in Key, NEW make \in BOOLEAN, KeySent(k, make)
  PROVE  KeyboardIInv'
<1>1. KeyboardTypeOK' /\ SendingInv'
  BY KeySentType DEF KeyboardIInv
<1>2. EscInv' /\ ModifiersFollow' /\ LosslessInv'
  BY KeySentKeeps
<1> QED BY <1>1, <1>2 DEF KeyboardIInv

(***************************************************************************)
(* Every step keeps the invariant.                                         *)
(***************************************************************************)
LEMMA KeyboardNextIInv == KeyboardIInv /\ [KeyboardNext]_keyboardVars => KeyboardIInv'
<1> SUFFICES ASSUME KeyboardIInv, [KeyboardNext]_keyboardVars PROVE KeyboardIInv'
  OBVIOUS
<1> USE DEF KeyboardIInv
<1>1. ASSUME NEW k \in Key, Press(k) PROVE KeyboardIInv'
  <2>1. KeySent(k, TRUE)
    BY <1>1, PressSends
  <2> QED BY <2>1, KeySentIInv
<1>2. ASSUME NEW k \in Key, Release(k) PROVE KeyboardIInv'
  <2>1. KeySent(k, FALSE)
    BY <1>2, ReleaseSends
  <2> QED BY <2>1, KeySentIInv
<1>3. CASE Repeat
  <2>1. last \in Key /\ KeySent(last, TRUE)
    BY <1>3, RepeatSends
  <2> QED BY <2>1, KeySentIInv
<1>4. CASE kbdint
  BY <1>4, KbdintIInv
<1>5. CASE Translate
  BY <1>5, TranslateHeld, HeldKeptIInv
<1>6. CASE PutChar
  BY <1>6, PutCharHeld, HeldKeptIInv
<1>7. CASE getch
  BY <1>7, GetchHeld, HeldKeptIInv
<1>8. ASSUME NEW l \in Layout, mt_kbd_setlayout(l) PROVE KeyboardIInv'
  BY <1>8, SetLayoutHeld, HeldKeptIInv
<1>9. CASE UNCHANGED keyboardVars
  <2>1. HeldKept
    BY <1>9 DEF keyboardVars, env, history, HeldKept, KeyboardTypeOK, Ahead, Typing, After
  <2> QED BY <2>1, HeldKeptIInv
<1> QED BY <1>1, <1>2, <1>3, <1>4, <1>5, <1>6, <1>7, <1>8, <1>9 DEF KeyboardNext, input_task

(* The invariant holds in every state, for every keymap that gives the     *)
(* flags their own values, every size of the queues and any number of lost *)
(* codes.                                                                  *)
THEOREM KeyboardIInvHolds == KeyboardSpec => []KeyboardIInv
<1>1. KeyboardInit => KeyboardIInv
  BY KeyboardInitIInv
<1>2. KeyboardIInv /\ [KeyboardNext]_keyboardVars => KeyboardIInv'
  BY KeyboardNextIInv
<1> QED BY <1>1, <1>2, PTL DEF KeyboardSpec

(* A lost code never leaves the flag of a modifier or lock key wrong once  *)
(* the key and its twins were used again (kbdint, make_break).             *)
THEOREM ModifiersFollowHolds == KeyboardSpec => []ModifiersFollow
<1>1. KeyboardIInv => ModifiersFollow
  BY DEF KeyboardIInv
<1> QED BY <1>1, KeyboardIInvHolds, PTL

-----------------------------------------------------------------------------
(* The keyboard: it is a typewriter. *)

(***************************************************************************)
(* Counting which of three turn the column over is comparing them.         *)
(***************************************************************************)
LEMMA Parity ==
  ASSUME NEW S, S \subseteq {1, 2, 3}
  PROVE  (Cardinality(S) % 2 = 1) <=> (((1 \in S) # (2 \in S)) # (3 \in S))
<1>1. Cardinality({}) = 0 /\ IsFiniteSet({})
  BY FS_EmptySet
<1>2. /\ Cardinality({1}) = 1 /\ Cardinality({2}) = 1 /\ Cardinality({3}) = 1
      /\ IsFiniteSet({1}) /\ IsFiniteSet({2}) /\ IsFiniteSet({3})
  BY FS_Singleton
<1>3. /\ Cardinality({1} \cup {2}) = 2 /\ IsFiniteSet({1} \cup {2})
      /\ Cardinality({1} \cup {3}) = 2 /\ Cardinality({2} \cup {3}) = 2
  <2>1. 2 \notin {1} /\ 3 \notin {1} /\ 3 \notin {2}
    OBVIOUS
  <2>2. /\ Cardinality({1} \cup {2}) = Cardinality({1}) + 1 /\ IsFiniteSet({1} \cup {2})
    BY <1>2, <2>1, FS_AddElement, Zenon
  <2>3. Cardinality({1} \cup {3}) = Cardinality({1}) + 1
    BY <1>2, <2>1, FS_AddElement, Zenon
  <2>4. Cardinality({2} \cup {3}) = Cardinality({2}) + 1
    BY <1>2, <2>1, FS_AddElement, Zenon
  <2> QED BY <1>2, <2>2, <2>3, <2>4
<1>4. Cardinality(({1} \cup {2}) \cup {3}) = 3
  <2>1. 3 \notin {1} \cup {2}
    OBVIOUS
  <2>2. Cardinality(({1} \cup {2}) \cup {3}) = Cardinality({1} \cup {2}) + 1
    BY <1>3, <2>1, FS_AddElement, Zenon
  <2> QED BY <1>3, <2>2
<1>5. CASE 1 \in S /\ 2 \in S /\ 3 \in S
  <2>1. S = ({1} \cup {2}) \cup {3}
    BY <1>5
  <2> QED BY <1>4, <1>5, <2>1
<1>6. CASE 1 \in S /\ 2 \in S /\ 3 \notin S
  <2>1. S = {1} \cup {2}
    BY <1>6
  <2> QED BY <1>3, <1>6, <2>1
<1>7. CASE 1 \in S /\ 2 \notin S /\ 3 \in S
  <2>1. S = {1} \cup {3}
    BY <1>7
  <2> QED BY <1>3, <1>7, <2>1
<1>8. CASE 1 \notin S /\ 2 \in S /\ 3 \in S
  <2>1. S = {2} \cup {3}
    BY <1>8
  <2> QED BY <1>3, <1>8, <2>1
<1>9. CASE 1 \in S /\ 2 \notin S /\ 3 \notin S
  <2>1. S = {1}
    BY <1>9
  <2> QED BY <1>2, <1>9, <2>1
<1>10. CASE 1 \notin S /\ 2 \in S /\ 3 \notin S
  <2>1. S = {2}
    BY <1>10
  <2> QED BY <1>2, <1>10, <2>1
<1>11. CASE 1 \notin S /\ 2 \notin S /\ 3 \in S
  <2>1. S = {3}
    BY <1>11
  <2> QED BY <1>2, <1>11, <2>1
<1>12. CASE 1 \notin S /\ 2 \notin S /\ 3 \notin S
  <2>1. S = {}
    BY <1>12
  <2> QED BY <1>1, <1>12, <2>1
<1> QED BY <1>5, <1>6, <1>7, <1>8, <1>9, <1>10, <1>11, <1>12

(* The same of a list of three Booleans.                                   *)
LEMMA ThreeFlags ==
  ASSUME NEW a \in BOOLEAN, NEW b \in BOOLEAN, NEW c \in BOOLEAN
  PROVE  (Cardinality({i \in 1 .. 3 : <<a, b, c>>[i]}) % 2 = 1) <=> ((a # b) # c)
<1>1. PICK S : S = {i \in 1 .. 3 : <<a, b, c>>[i]}
  OBVIOUS
<1>2. <<a, b, c>>[1] = a /\ <<a, b, c>>[2] = b /\ <<a, b, c>>[3] = c
  OBVIOUS
<1>3. S \subseteq {1, 2, 3} /\ (1 \in S <=> a) /\ (2 \in S <=> b) /\ (3 \in S <=> c)
  BY <1>1, <1>2
<1>4. (Cardinality(S) % 2 = 1) <=> (((1 \in S) # (2 \in S)) # (3 \in S))
  BY <1>3, Parity
<1>5. ((a # b) # c) <=> (((1 \in S) # (2 \in S)) # (3 \in S))
  BY <1>3
<1> QED BY <1>1, <1>4, <1>5

(* In e the driver holds what the keys held down are for, and has the      *)
(* locks it will have.                                                     *)
Agrees(e) ==
  /\ e.held = {role[j] : j \in Flags \cap down}
  /\ e.locks = Typing.kbd.locks

(***************************************************************************)
(* Both hold the same keys, turn the same columns over, and look in the    *)
(* same column.                                                            *)
(***************************************************************************)
LEMMA HeldAgrees ==
  ASSUME NEW e, Agrees(e), down \subseteq Key, NEW flags, "types" \notin flags
  PROVE  Machine!Held(flags) <=> On(e, flags)
BY DEF Agrees, Machine!Held, On, Flags

(* The typewriter counts as the driver does.                               *)
LEMMA SameCardinality ==
  ASSUME NEW S
  PROVE  Machine!Cardinality(S) = Cardinality(S)
BY DEF Machine!Cardinality, Cardinality

(* Exclusive or of what is equivalent.                                     *)
LEMMA SameXor ==
  ASSUME NEW a \in BOOLEAN, NEW b \in BOOLEAN, NEW c \in BOOLEAN,
         NEW x \in BOOLEAN, NEW y \in BOOLEAN, NEW z \in BOOLEAN,
         a <=> x, b <=> y, c <=> z
  PROVE  ((x # y) # z) <=> ((a # b) # c)
OBVIOUS

(* Both turn the column over for the same keys.                            *)
LEMMA UpperAgrees ==
  ASSUME NEW e, Agrees(e), down \subseteq Key, kbd_name \in Layout, NEW k \in Key
  PROVE  Machine!Upper(k) <=> Upper(e, scan[k], kbd_name)
<1> DEFINE shift == Machine!Held({"shift_l", "shift_r"})
           num == "num" \in Typing.kbd.locks /\ k \in Numpad
           caps == "caps" \in Typing.kbd.locks /\ k \in Letters[kbd_name]
<1>1. shift \in BOOLEAN /\ num \in BOOLEAN /\ caps \in BOOLEAN
  BY DEF Machine!Held
<1>2. Machine!Upper(k) <=> Cardinality({i \in 1 .. 3 : <<shift, num, caps>>[i]}) % 2 = 1
  BY SameCardinality DEF Machine!Upper
<1>3. shift <=> On(e, {"shift_l", "shift_r"})
  BY HeldAgrees
<1>4. num <=> "num" \in e.locks /\ scan[k] \in HOME_SCAN .. DEL_SCAN
  BY DEF Agrees, Numpad
<1>5. caps <=> "caps" \in e.locks /\ keymap[kbd_name][scan[k]][0] >= HASCAPS
  <2>1. Letters[kbd_name] = {j \in Key : keymap[kbd_name][scan[j]][0] >= HASCAPS}
    BY DEF Letters
  <2> QED BY <2>1 DEF Agrees
<1> HIDE DEF shift, num, caps
<1>6. Machine!Upper(k) <=> ((shift # num) # caps)
  BY <1>1, <1>2, ThreeFlags
<1>7. Upper(e, scan[k], kbd_name) <=> ((shift # num) # caps)
  <2>1. Upper(e, scan[k], kbd_name)
          <=> (On(e, {"shift_l", "shift_r"})
                 # ("num" \in e.locks /\ scan[k] \in HOME_SCAN .. DEL_SCAN))
                 # ("caps" \in e.locks /\ keymap[kbd_name][scan[k]][0] >= HASCAPS)
    BY DEF Upper
  <2>2. On(e, {"shift_l", "shift_r"}) \in BOOLEAN
    BY DEF On
  <2>3. /\ ("num" \in e.locks /\ scan[k] \in HOME_SCAN .. DEL_SCAN) \in BOOLEAN
        /\ ("caps" \in e.locks /\ keymap[kbd_name][scan[k]][0] >= HASCAPS) \in BOOLEAN
    OBVIOUS
  <2> QED BY <1>1, <1>3, <1>4, <1>5, <2>1, <2>2, <2>3, SameXor, Zenon
<1> QED BY <1>6, <1>7

(* Both look in the same column of the keymap.                             *)
LEMMA ColumnAgrees ==
  ASSUME NEW e, Agrees(e), down \subseteq Key, kbd_name \in Layout, NEW k \in Key
  PROVE  Machine!Column(k) = Column(e, Upper(e, scan[k], kbd_name))
<1>1. Machine!Upper(k) <=> Upper(e, scan[k], kbd_name)
  BY UpperAgrees
<1>2. Machine!Alt <=> On(e, {"alt_l", "alt_r"})
  BY HeldAgrees DEF Machine!Alt
<1>3. Machine!Held({"ctrl_l", "ctrl_r"}) <=> On(e, {"ctrl_l", "ctrl_r"})
  BY HeldAgrees
<1>4. Machine!Held({"alt_r"}) <=> On(e, {"alt_r"})
  BY HeldAgrees
<1>5. On(e, {"ctrl_l", "ctrl_r", "alt_r"}) <=> On(e, {"alt_r"}) \/ On(e, {"ctrl_l", "ctrl_r"})
  BY DEF On
<1>6. Machine!Alt => (Machine!AltGr <=> On(e, {"ctrl_l", "ctrl_r", "alt_r"}))
  BY <1>3, <1>4, <1>5 DEF Machine!AltGr
<1>7. CASE Machine!Alt
  BY <1>1, <1>2, <1>6, <1>7 DEF Machine!Column, Column
<1>8. CASE ~ Machine!Alt
  BY <1>1, <1>2, <1>3, <1>8 DEF Machine!Column, Column
<1> QED BY <1>7, <1>8

(***************************************************************************)
(* The driver types what is printed on the key.                            *)
(***************************************************************************)
LEMMA LegendAgrees ==
  ASSUME NEW e, Agrees(e), down \subseteq Key, kbd_name \in Layout,
         NEW k \in Key, e.esc <=> k \in Extended
  PROVE  Typed(e, KeyCode(k, TRUE), kbd_name) = Machine!Types(k)
<1>1. CASE k \in Flags
  <2>1. Typed(e, KeyCode(k, TRUE), kbd_name) = <<>>
    BY <1>1, TypedNothing
  <2> QED BY <1>1, <2>1 DEF Machine!Types, Flags
<1>2. CASE k \notin Flags
  <2>1. Typed(e, KeyCode(k, TRUE), kbd_name) = Put(map_key(e, scan[k], kbd_name))
    BY <1>2, TypedNothing
  <2>2. role[k] = "types"
    BY <1>2 DEF Flags
  <2>3. PICK col \in 0 .. 5 : col = Column(e, Upper(e, scan[k], kbd_name))
    BY ColumnOfMap
  <2>4. Machine!Column(k) = col
    BY <2>3, ColumnAgrees
  <2>5. Machine!Types(k) = Legend[kbd_name][k][col]
    BY <2>2, <2>4 DEF Machine!Types
  <2>6. Legend[kbd_name][k][col]
          = Put(IF scan[k] = SLASH_SCAN /\ k \in Extended THEN 47
                ELSE keymap[kbd_name][scan[k]][col] % HASCAPS)
    BY DEF Legend
  <2>7. map_key(e, scan[k], kbd_name)
          = IF scan[k] = SLASH_SCAN /\ k \in Extended THEN 47
            ELSE keymap[kbd_name][scan[k]][col] % HASCAPS
    BY <2>3 DEF map_key
  <2> QED BY <2>1, <2>5, <2>6, <2>7
<1> QED BY <1>1, <1>2

(***************************************************************************)
(* A key that sends its codes without loss types what is printed on it,    *)
(* if it goes down, and changes a lock if it was not down.                 *)
(***************************************************************************)
LEMMA SentTypes ==
  ASSUME KeyboardIInv, lost = 0, NEW k \in Key, NEW make \in BOOLEAN, KeySent(k, make)
  PROVE  /\ Typing'.text = Typing.text \o (IF make THEN Machine!Types(k) ELSE <<>>)
         /\ Typing'.kbd.locks =
              IF k \in Flags /\ make /\ role[k] \in Machine!Locks /\ k \notin down
              THEN SymDiff(Typing.kbd.locks, {role[k]}) ELSE Typing.kbd.locks
<1>1. /\ KeyboardTypeOK /\ down \subseteq Key /\ kbd_name \in Layout
      /\ Typing.kbd.esc = FALSE /\ Typing.kbd.held = {role[j] : j \in Flags \cap down}
  BY DEF KeyboardIInv, KeyboardTypeOK, LosslessInv
<1>2. sending.codes = <<>>
  BY DEF KeySent, Idle
<1>3. Obeys(Typing.kbd, k, make, Typing'.kbd) /\ TypesKey(Typing, k, make, kbd_name, Typing')
  BY <1>1, <1>2, TypingSent
<1>4. PICK e \in Kbd : /\ e.esc <=> k \in Extended
                       /\ e.held = Typing.kbd.held /\ e.locks = Typing.kbd.locks
                       /\ Typing'.text = Typing.text \o Typed(e, KeyCode(k, make), kbd_name)
  BY <1>3 DEF TypesKey
<1>5. Agrees(e)
  BY <1>1, <1>4 DEF Agrees
<1>6. Typed(e, KeyCode(k, make), kbd_name) = IF make THEN Machine!Types(k) ELSE <<>>
  <2>1. CASE make
    <3>1. make = TRUE
      BY <2>1
    <3>2. Typed(e, KeyCode(k, TRUE), kbd_name) = Machine!Types(k)
      BY <1>1, <1>4, <1>5, LegendAgrees
    <3> QED BY <3>1, <3>2
  <2>2. CASE ~ make
    BY <1>1, <2>2, TypedNothing
  <2> QED BY <2>1, <2>2
<1>7. Typing'.kbd.locks = IF k \in Flags THEN Toggled(Typing.kbd, Value(k), role[k], make) ELSE Typing.kbd.locks
  BY <1>3 DEF Obeys
<1>8. ASSUME k \in Flags
      PROVE  Toggled(Typing.kbd, Value(k), role[k], make)
               = IF make /\ role[k] \in Machine!Locks /\ k \notin down
                 THEN SymDiff(Typing.kbd.locks, {role[k]}) ELSE Typing.kbd.locks
  <2>1. \A j \in Flags : role[j] = role[k] => j = k
    BY <1>8, KeyboardAssumption
  <2>2. role[k] \in Typing.kbd.held <=> k \in down
    BY <1>1, <1>8, <2>1
  <2>3. Value(k) \in LockKey <=> role[k] \in Machine!Locks
    <3>1. role[k] = FlagTouched(k, k \in Extended)
      BY <1>8, KeyboardAssumption DEF FlagTouched
    <3> QED BY <1>8, <3>1, FlagTouchedType DEF Machine!Locks
  <2> QED BY <2>2, <2>3 DEF Toggled
<1> QED BY <1>4, <1>6, <1>7, <1>8

(***************************************************************************)
(* Every step that loses nothing is one of the typewriter, or none.        *)
(***************************************************************************)
MachineStep == (lost' = 0 => Machine!Next) \/ UNCHANGED <<down, kbd_name, Typing>>

(* A key pressed is a key pressed on the typewriter, if no code was lost.  *)
LEMMA PressTypes ==
  ASSUME KeyboardIInv, NEW k \in Key, Press(k)
  PROVE  lost' = 0 => Machine!Next
<1> SUFFICES ASSUME lost' = 0 PROVE Machine!Press(k)
  BY DEF Machine!Next
<1>1. lost = 0 /\ k \notin down /\ down' = down \cup {k} /\ kbd_name' = kbd_name /\ KeyboardTypeOK
  BY DEF Press, history, KeyboardIInv
<1>2. KeySent(k, TRUE)
  BY <1>1, PressSends
<1>3. /\ Typing'.text = Typing.text \o Machine!Types(k)
      /\ Typing'.kbd.locks = IF k \in Flags /\ role[k] \in Machine!Locks
                             THEN SymDiff(Typing.kbd.locks, {role[k]}) ELSE Typing.kbd.locks
  BY <1>1, <1>2, SentTypes
<1>4. role[k] \in Machine!Locks => k \in Flags
  BY DEF Machine!Locks, Flags
<1>5. SymDiff(Typing.kbd.locks, {role[k]})
        = (Typing.kbd.locks \cup {role[k]}) \ (Typing.kbd.locks \cap {role[k]})
  BY DEF SymDiff
<1>6. Typing'.kbd.locks = IF role[k] \in Machine!Locks
                          THEN (Typing.kbd.locks \cup {role[k]}) \ (Typing.kbd.locks \cap {role[k]})
                          ELSE Typing.kbd.locks
  BY <1>3, <1>4, <1>5
<1> QED BY <1>1, <1>3, <1>6 DEF Machine!Press

(* A key that repeats is one that repeats on the typewriter.               *)
LEMMA RepeatTypes ==
  ASSUME KeyboardIInv, Repeat
  PROVE  lost' = 0 => Machine!Next
<1>1. last \in Key /\ last \in down /\ KeySent(last, TRUE)
  BY RepeatSends DEF KeyboardIInv
<1> SUFFICES ASSUME lost' = 0 PROVE Machine!Repeat(last)
  BY <1>1 DEF Machine!Next
<1>2. lost = 0 /\ down' = down /\ kbd_name' = kbd_name
  BY DEF Repeat, history
<1>3. Typing'.text = Typing.text \o Machine!Types(last) /\ Typing'.kbd.locks = Typing.kbd.locks
  BY <1>1, <1>2, SentTypes
<1> QED BY <1>1, <1>2, <1>3 DEF Machine!Repeat

(* A key released is one released on the typewriter.                       *)
LEMMA ReleaseTypes ==
  ASSUME KeyboardIInv, NEW k \in Key, Release(k)
  PROVE  lost' = 0 => Machine!Next
<1> SUFFICES ASSUME lost' = 0 PROVE Machine!Release(k)
  BY DEF Machine!Next
<1>1. lost = 0 /\ k \in down /\ down' = down \ {k} /\ kbd_name' = kbd_name /\ KeyboardTypeOK
  BY DEF Release, history, KeyboardIInv
<1>2. KeySent(k, FALSE)
  BY <1>1, ReleaseSends
<1>3. Typing'.text = Typing.text \o <<>> /\ Typing'.kbd.locks = Typing.kbd.locks
  BY <1>1, <1>2, SentTypes
<1>4. Typing.text \in Seq(Nat)
  BY <1>1, QueuedType, AfterType DEF Typing
<1>5. Typing'.text = Typing.text
  BY <1>3, <1>4
<1> QED BY <1>1, <1>3, <1>5 DEF Machine!Release

(* A character read is the first of what was typed.                        *)
LEMMA GetchTypes ==
  ASSUME KeyboardIInv, getch
  PROVE  Machine!Next
<1>1. /\ Typing'.kbd = Typing.kbd /\ Typing.text # <<>> /\ Typing'.text = Tail(Typing.text)
  BY GetchReads DEF KeyboardIInv
<1>2. down' = down /\ kbd_name' = kbd_name
  BY DEF getch, env
<1> QED BY <1>1, <1>2 DEF Machine!Next, Machine!Read

(* A new layout can only change what was typed and not translated.         *)
LEMMA SetLayoutTypes ==
  ASSUME KeyboardIInv, NEW l \in Layout, mt_kbd_setlayout(l)
  PROVE  Machine!Next \/ UNCHANGED <<down, kbd_name, Typing>>
<1>1. down' = down /\ kbd_name' = l
  BY DEF mt_kbd_setlayout, env
<1>2. CASE l = kbd_name
  <2>1. Typing' = Typing
    BY <1>2 DEF mt_kbd_setlayout, env, Typing, After
  <2> QED BY <1>1, <1>2, <2>1
<1>3. CASE l # kbd_name
  <2>1. Typing'.kbd = Typing.kbd
    BY SetLayoutKeeps DEF KeyboardIInv
  <2> QED BY <1>1, <1>3, <2>1 DEF Machine!Next, Machine!SetLayout
<1> QED BY <1>2, <1>3

(* Every step without a loss is one of the typewriter, or leaves it alone: *)
(* interrupts and translation do.                                          *)
LEMMA KeyboardStep ==
  ASSUME KeyboardIInv, [KeyboardNext]_keyboardVars
  PROVE  MachineStep
<1>1. ASSUME NEW k \in Key, Press(k) PROVE MachineStep
  BY <1>1, PressTypes DEF MachineStep
<1>2. ASSUME NEW k \in Key, Release(k) PROVE MachineStep
  BY <1>2, ReleaseTypes DEF MachineStep
<1>3. CASE Repeat
  BY <1>3, RepeatTypes DEF MachineStep
<1>4. CASE kbdint
  <2>1. CASE Accept
    BY <1>4, <2>1, KbdintTyping DEF MachineStep
  <2>2. CASE Lose
    BY <1>4, <2>2, LoseKeeps DEF MachineStep
  <2> QED BY <1>4, <2>1, <2>2 DEF kbdint
<1>5. CASE Translate
  <2>1. Typing' = Typing
    BY <1>5, TranslateKeeps DEF KeyboardIInv
  <2> QED BY <1>5, <2>1 DEF MachineStep, Translate, env
<1>6. CASE PutChar
  <2>1. Typing' = Typing
    BY <1>6, PutCharKeeps DEF KeyboardIInv
  <2> QED BY <1>6, <2>1 DEF MachineStep, PutChar, env
<1>7. CASE getch
  BY <1>7, GetchTypes DEF MachineStep
<1>8. ASSUME NEW l \in Layout, mt_kbd_setlayout(l) PROVE MachineStep
  BY <1>8, SetLayoutTypes DEF MachineStep
<1>9. CASE UNCHANGED keyboardVars
  BY <1>9 DEF keyboardVars, env, MachineStep, Typing, After
<1> QED BY <1>1, <1>2, <1>3, <1>4, <1>5, <1>6, <1>7, <1>8, <1>9 DEF KeyboardNext, input_task

(* The driver starts as a typewriter does.                                 *)
LEMMA MachineInit == KeyboardInit => Machine!Init
<1> SUFFICES ASSUME KeyboardInit PROVE Machine!Init
  OBVIOUS
<1>1. Typing = Start
  <2>1. Translated(Start, <<>>, kbd_name) = Start
    BY TranslatedNone
  <2>2. scan_mq \o sending.codes = <<>>
    BY DEF KeyboardInit
  <2> QED BY <2>1, <2>2 DEF Typing, After, Start
<1>2. Start.kbd.locks = {} /\ Start.text = <<>>
  BY DEF Start, KeyboardInit
<1> QED BY <1>1, <1>2 DEF Machine!Init, KeyboardInit

(* As long as no code is lost the driver is a typewriter: each key types   *)
(* what its legend says for the keys and locks in force when it went down, *)
(* in order and whole (kbdint, input_task, map_key, make_break).           *)
THEOREM KeyboardImplemented == KeyboardSpec => ImplementsTypewriter
<1>1. KeyboardInit => Machine!Init
  BY MachineInit
<1>2. KeyboardIInv /\ [KeyboardNext]_keyboardVars
        => [lost' = 0 => Machine!Next]_<<down, kbd_name, Typing>>
  BY KeyboardStep DEF MachineStep
<1> QED BY <1>1, <1>2, KeyboardIInvHolds, PTL DEF KeyboardSpec, ImplementsTypewriter
=============================================================================
