--------------------------- MODULE SyncState_proof --------------------------
(***************************************************************************)
(* What semaphores and wait queues do to the tasks that use them, for any  *)
(* number of tasks and queues: the lemmas that the proofs about pipes,     *)
(* message queues and philosophers cite instead of looking into the lists. *)
(***************************************************************************)
EXTENDS SyncState, OrderedQueue_proof

Queue == Sem \cup Cond

Records ==
  [value : [Sem -> Nat], list : [Queue -> Seq(Task)], timed : SUBSET Task,
   success : [Task -> BOOLEAN]]

(* The queue each task waits in: none or one.                              *)
where(w) == [t \in Task |-> {q \in Queue : t \in WaitingIn(w, q)}]

Linked(w) ==
  /\ w \in Records
  /\ \A q \in Queue : NoRepetition(w.list[q])
  /\ \A t \in Task : where(w)[t] = {} \/ \E q \in Queue : where(w)[t] = {q}
  /\ \A t \in w.timed : where(w)[t] # {}

(* What an operation makes of w: the task t joins queue q, the task u of   *)
(* queue q is woken, or nobody moves.                                      *)
Joins(w, e, t, q) ==
  /\ Linked(e) /\ e.value = w.value /\ e.success = w.success
  /\ where(e) = [where(w) EXCEPT ![t] = {q}]
  /\ e.timed \subseteq w.timed \cup {t}

Wakes(w, e, u, q, ok) ==
  /\ Linked(e) /\ e.value = w.value /\ e.success = [w.success EXCEPT ![u] = ok]
  /\ u \in Task /\ where(w)[u] = {q} /\ where(e) = [where(w) EXCEPT ![u] = {}]
  /\ e.timed = w.timed \ {u}

Stays(w, e) == Linked(e) /\ where(e) = where(w) /\ e.timed = w.timed

-----------------------------------------------------------------------------
(***************************************************************************)
(* The fields of w have their types.                                       *)
(***************************************************************************)
LEMMA RecordsFields ==
  ASSUME NEW w \in Records
  PROVE  /\ w.value \in [Sem -> Nat] /\ w.list \in [Queue -> Seq(Task)]
         /\ w.timed \subseteq Task /\ w.success \in [Task -> BOOLEAN]
BY DEF Records

(***************************************************************************)
(* A task runs if it is in no queue.                                       *)
(***************************************************************************)
LEMMA RunsNowhere ==
  ASSUME NEW w, NEW t \in Task
  PROVE  /\ Runs(w, t) <=> where(w)[t] = {}
         /\ \A q \in Queue : t \in WaitingIn(w, q) <=> q \in where(w)[t]
BY DEF Runs, where, Queue

(***************************************************************************)
(* The waiting tasks of a queue are tasks, and it is empty when no task is *)
(* there.                                                                  *)
(***************************************************************************)
LEMMA QueueMembers ==
  ASSUME NEW w, Linked(w), NEW q \in Queue
  PROVE  /\ WaitingIn(w, q) = {t \in Task : where(w)[t] = {q}}
         /\ w.list[q] = <<>> <=> \A t \in Task : where(w)[t] # {q}
         /\ w.list[q] # <<>> => Last(w.list[q]) \in Task /\ where(w)[Last(w.list[q])] = {q}
<1>1. w.list[q] \in Seq(Task) /\ NoRepetition(w.list[q])
  BY RecordsFields DEF Linked
<1>2. WaitingIn(w, q) \subseteq Task
  BY <1>1, LenProperties, ElementOfSeq DEF WaitingIn, ToSet
<1>3. \A t \in Task : t \in WaitingIn(w, q) <=> where(w)[t] = {q}
  BY DEF Linked, where
<1>4. w.list[q] # <<>> => Last(w.list[q]) \in WaitingIn(w, q)
  BY <1>1, FrontProperties DEF WaitingIn
<1>5. w.list[q] = <<>> => WaitingIn(w, q) = {}
  BY DEF WaitingIn, ToSet
<1> QED BY <1>2, <1>3, <1>4, <1>5

(***************************************************************************)
(* Data with the same lists is linked as well.                             *)
(***************************************************************************)
LEMMA StaysByFields ==
  ASSUME NEW w, Linked(w), NEW e \in Records, e.list = w.list, e.timed = w.timed
  PROVE  Stays(w, e)
<1>1. where(e) = where(w)
  BY DEF where, WaitingIn
<1> QED BY <1>1 DEF Linked, Stays

(***************************************************************************)
(* A queue that a task joins.                                              *)
(***************************************************************************)
LEMMA Inserted ==
  ASSUME NEW a \in Seq(Task), NoRepetition(a), NEW t \in Task, t \notin ToSet(a)
  PROVE  LET l == OrderedInsert(a, prio, t, prio[t])
         IN  l \in Seq(Task) /\ ToSet(l) = ToSet(a) \cup {t} /\ NoRepetition(l)
<1> DEFINE n == prio[t]
           p == prio
<1>1. p \in [Task -> Nat] /\ n \in Nat /\ p[t] = n
  BY SyncStateAssumption
<1> HIDE DEF n, p
<1>2. /\ OrderedInsert(a, p, t, n) \in Seq(Task)
      /\ ToSet(OrderedInsert(a, p, t, n)) = ToSet(a) \cup {t}
      /\ NoRepetition(OrderedInsert(a, p, t, n))
  BY <1>1, OrderedInsertProperties
<1> QED BY <1>2 DEF n, p

(***************************************************************************)
(* WaitQueueTimed, by a task that runs.                                    *)
(***************************************************************************)
LEMMA WaitQueueEffect ==
  ASSUME NEW w, Linked(w), NEW t \in Task, where(w)[t] = {}, NEW q \in Queue, NEW n \in Waits
  PROVE  LET e == WaitQueue(w, t, q, n)
         IN  /\ n # 0 => Joins(w, e, t, q)
             /\ n = FOREVER => e.timed = w.timed
             /\ n = 0 => /\ Stays(w, e) /\ e.value = w.value
                         /\ e.success = [w.success EXCEPT ![t] = FALSE]
<1> DEFINE e == WaitQueue(w, t, q, n)
<1>1. /\ w \in Records /\ w.list \in [Queue -> Seq(Task)] /\ w.timed \subseteq Task
      /\ w.success \in [Task -> BOOLEAN] /\ w.value \in [Sem -> Nat]
  BY RecordsFields DEF Linked
<1>2. CASE n = 0
  <2> DEFINE s == [w.success EXCEPT ![t] = FALSE]
             d == [w EXCEPT !.success = s]
  <2>1. e = d /\ s \in [Task -> BOOLEAN]
    BY <1>1, <1>2 DEF WaitQueue
  <2> HIDE DEF s
  <2>2. d \in Records /\ d.list = w.list /\ d.timed = w.timed /\ d.value = w.value /\ d.success = s
    BY <1>1, <2>1 DEF Records
  <2> HIDE DEF d
  <2>3. Stays(w, d)
    BY <2>2, StaysByFields
  <2>4. n # FOREVER
    BY <1>2, SyncStateAssumption
  <2> QED BY <1>2, <2>1, <2>2, <2>3, <2>4 DEF s
<1>3. CASE n # 0
  <2> DEFINE l == OrderedInsert(w.list[q], prio, t, prio[t])
             m == [w.list EXCEPT ![q] = l]
             x == IF n = FOREVER THEN w.timed ELSE w.timed \cup {t}
             d == [w EXCEPT !.list = m, !.timed = x]
  <2>1. e = d
    BY <1>1, <1>3 DEF WaitQueue, Records
  <2>2. w.list[q] \in Seq(Task) /\ NoRepetition(w.list[q]) /\ prio \in [Task -> Nat] /\ prio[t] \in Nat
    BY <1>1, SyncStateAssumption DEF Linked
  <2>3. t \notin ToSet(w.list[q])
    BY DEF where, WaitingIn
  <2>4. l \in Seq(Task) /\ ToSet(l) = ToSet(w.list[q]) \cup {t} /\ NoRepetition(l)
    BY <2>2, <2>3, Inserted
  <2> HIDE DEF l
  <2>5. /\ m \in [Queue -> Seq(Task)] /\ m[q] = l /\ \A r \in Queue : r # q => m[r] = w.list[r]
        /\ x \subseteq Task
    BY <1>1, <2>4
  <2> HIDE DEF m, x
  <2>6. d \in Records /\ d.list = m /\ d.timed = x /\ d.value = w.value /\ d.success = w.success
    BY <1>1, <2>5 DEF Records
  <2> HIDE DEF d
  <2>7. \A u \in Task, r \in Queue :
          u \in WaitingIn(d, r) <=> u \in WaitingIn(w, r) \/ (u = t /\ r = q)
    BY <2>4, <2>5, <2>6 DEF WaitingIn
  <2>8. where(d) = [where(w) EXCEPT ![t] = {q}]
    <3>1. \A u \in Task : u # t => where(d)[u] = where(w)[u]
      BY <2>7 DEF where
    <3>2. where(d)[t] = {q}
      BY <2>7 DEF where
    <3> QED BY <3>1, <3>2 DEF where
  <2>9. x \subseteq w.timed \cup {t} /\ (n = FOREVER => x = w.timed)
    BY DEF x
  <2>10. Linked(d)
    <3>1. \A r \in Queue : NoRepetition(d.list[r])
      BY <2>4, <2>5, <2>6 DEF Linked
    <3>2. \A u \in Task : where(d)[u] = {} \/ \E r \in Queue : where(d)[u] = {r}
      BY <2>8 DEF Linked, where
    <3>3. \A u \in d.timed : where(d)[u] # {}
      BY <2>5, <2>6, <2>8, <2>9 DEF Linked, where
    <3> QED BY <2>6, <3>1, <3>2, <3>3 DEF Linked
  <2> QED BY <1>3, <2>1, <2>6, <2>8, <2>9, <2>10 DEF Joins
<1> QED BY <1>2, <1>3

(***************************************************************************)
(* A task leaves its queue, by a signal or by a timeout.                   *)
(***************************************************************************)
LEMMA WakeEffect ==
  ASSUME NEW w, Linked(w), NEW u \in Task, NEW q \in Queue, where(w)[u] = {q}, NEW ok \in BOOLEAN
  PROVE  Wakes(w, Wake(w, u, q, ok), u, q, ok)
<1>1. /\ w \in Records /\ w.list \in [Queue -> Seq(Task)] /\ w.timed \subseteq Task
      /\ w.success \in [Task -> BOOLEAN] /\ w.value \in [Sem -> Nat]
  BY RecordsFields DEF Linked
<1> DEFINE l == Unlink(w.list[q], u)
           m == [w.list EXCEPT ![q] = l]
           s == [w.success EXCEPT ![u] = ok]
           x == w.timed \ {u}
           d == [w EXCEPT !.list = m, !.timed = x, !.success = s]
<1>2. Wake(w, u, q, ok) = d
  BY <1>1 DEF Wake, Records
<1>3. w.list[q] \in Seq(Task) /\ NoRepetition(w.list[q]) /\ u \in ToSet(w.list[q])
  BY <1>1, RunsNowhere DEF Linked, WaitingIn
<1>4. l \in Seq(Task) /\ ToSet(l) = ToSet(w.list[q]) \ {u} /\ NoRepetition(l)
  BY <1>3, UnlinkProperties
<1> HIDE DEF l
<1>5. /\ m \in [Queue -> Seq(Task)] /\ m[q] = l /\ \A r \in Queue : r # q => m[r] = w.list[r]
      /\ s \in [Task -> BOOLEAN] /\ x \subseteq Task
  BY <1>1, <1>4
<1>20. s = [w.success EXCEPT ![u] = ok] /\ x = w.timed \ {u}
  OBVIOUS
<1> HIDE DEF m, s, x
<1>6. d \in Records /\ d.list = m /\ d.timed = x /\ d.value = w.value /\ d.success = s
  BY <1>1, <1>5 DEF Records
<1> HIDE DEF d
<1>7. \A v \in Task, r \in Queue :
        v \in WaitingIn(d, r) <=> v \in WaitingIn(w, r) /\ ~ (v = u /\ r = q)
  BY <1>4, <1>5, <1>6 DEF WaitingIn
<1>8. where(d) = [where(w) EXCEPT ![u] = {}]
  <2>1. \A v \in Task : v # u => where(d)[v] = where(w)[v]
    BY <1>7 DEF where
  <2>2. where(d)[u] = {}
    BY <1>7 DEF where
  <2> QED BY <2>1, <2>2 DEF where
<1>9. Linked(d)
  <2>1. \A r \in Queue : NoRepetition(d.list[r])
    BY <1>4, <1>5, <1>6 DEF Linked
  <2>2. \A v \in Task : where(d)[v] = {} \/ \E r \in Queue : where(d)[v] = {r}
    BY <1>8 DEF Linked, where
  <2>3. \A v \in d.timed : where(d)[v] # {}
    BY <1>1, <1>6, <1>8, <1>20 DEF Linked, where
  <2> QED BY <1>6, <2>1, <2>2, <2>3 DEF Linked
<1> QED BY <1>2, <1>6, <1>8, <1>9, <1>20 DEF Wakes

(***************************************************************************)
(* SignalQueue wakes one task, if there is one.                            *)
(***************************************************************************)
LEMMA SignalQueueEffect ==
  ASSUME NEW w, Linked(w), NEW q \in Queue
  PROVE  LET e == SignalQueue(w, q)
         IN  \/ e = w /\ \A t \in Task : where(w)[t] # {q}
             \/ \E u \in Task : Wakes(w, e, u, q, TRUE)
<1>1. CASE w.list[q] = <<>>
  BY <1>1, QueueMembers DEF SignalQueue
<1>2. CASE w.list[q] # <<>>
  <2>1. PICK u \in Task : u = Last(w.list[q]) /\ where(w)[u] = {q}
    BY <1>2, QueueMembers
  <2>2. SignalQueue(w, q) = Wake(w, u, q, TRUE)
    BY <1>2, <2>1 DEF SignalQueue
  <2> QED BY <2>1, <2>2, WakeEffect
<1> QED BY <1>1, <1>2

(***************************************************************************)
(* The clock ends a wait.                                                  *)
(***************************************************************************)
LEMMA TimeOutEffect ==
  ASSUME NEW w, Linked(w), NEW t \in Task, TimesOut(w, t)
  PROVE  \E q \in Queue : Wakes(w, TimeOut(w, t), t, q, FALSE)
<1>1. PICK q \in Queue : where(w)[t] = {q}
  BY DEF Linked, TimesOut
<1>2. \A r \in Sem \cup Cond : t \in WaitingIn(w, r) <=> r = q
  BY <1>1, RunsNowhere DEF Queue
<1>3. q = CHOOSE r \in Sem \cup Cond : t \in WaitingIn(w, r)
  BY <1>2 DEF Queue
<1>4. TimeOut(w, t) = Wake(w, t, q, FALSE)
  BY <1>3 DEF TimeOut
<1> QED BY <1>1, <1>4, WakeEffect

(***************************************************************************)
(* FlushQueue wakes all tasks of the queue.                                *)
(***************************************************************************)
LEMMA FlushQueueEffect ==
  ASSUME NEW w, Linked(w), NEW q \in Queue, NEW ok \in BOOLEAN
  PROVE  LET e == FlushQueue(w, q, ok)
         IN  /\ Linked(e) /\ e.value = w.value /\ e.timed \subseteq w.timed
             /\ where(e) = [t \in Task |-> where(w)[t] \ {q}]
             /\ \A t \in Task : where(w)[t] # {q} => e.success[t] = w.success[t]
<1>1. /\ w \in Records /\ w.list \in [Queue -> Seq(Task)] /\ w.timed \subseteq Task
      /\ w.success \in [Task -> BOOLEAN] /\ w.value \in [Sem -> Nat]
  BY RecordsFields DEF Linked
<1> DEFINE m == [w.list EXCEPT ![q] = <<>>]
           s == [t \in Task |-> IF t \in WaitingIn(w, q) THEN ok ELSE w.success[t]]
           x == w.timed \ WaitingIn(w, q)
           d == [w EXCEPT !.list = m, !.timed = x, !.success = s]
<1>2. FlushQueue(w, q, ok) = d
  BY <1>1 DEF FlushQueue, Records
<1>3. <<>> \in Seq(Task) /\ ToSet(<<>>) = {} /\ NoRepetition(<<>>)
  BY DEF ToSet, NoRepetition
<1>4. /\ m \in [Queue -> Seq(Task)] /\ m[q] = <<>> /\ \A r \in Queue : r # q => m[r] = w.list[r]
      /\ s \in [Task -> BOOLEAN] /\ x \subseteq Task
  BY <1>1, <1>3
<1>5. \A t \in Task : where(w)[t] # {q} => s[t] = w.success[t]
  BY QueueMembers
<1>6. x \subseteq w.timed /\ \A t \in x : t \notin WaitingIn(w, q)
  OBVIOUS
<1> HIDE DEF m, s, x
<1>7. d \in Records /\ d.list = m /\ d.timed = x /\ d.value = w.value /\ d.success = s
  BY <1>1, <1>4 DEF Records
<1> HIDE DEF d
<1>8. \A v \in Task, r \in Queue : v \in WaitingIn(d, r) <=> v \in WaitingIn(w, r) /\ r # q
  BY <1>3, <1>4, <1>7 DEF WaitingIn
<1>9. where(d) = [t \in Task |-> where(w)[t] \ {q}]
  BY <1>8 DEF where
<1>10. Linked(d)
  <2>1. \A r \in Queue : NoRepetition(d.list[r])
    BY <1>3, <1>4, <1>7 DEF Linked
  <2>2. \A v \in Task : where(d)[v] = {} \/ \E r \in Queue : where(d)[v] = {r}
    BY <1>9 DEF Linked
  <2>3. \A v \in d.timed : where(d)[v] # {}
    <3> SUFFICES ASSUME NEW v \in d.timed PROVE where(d)[v] # {}
      OBVIOUS
    <3>1. v \in Task /\ v \in w.timed /\ v \notin WaitingIn(w, q)
      BY <1>4, <1>6, <1>7
    <3>2. where(w)[v] # {} /\ q \notin where(w)[v]
      BY <3>1, RunsNowhere DEF Linked
    <3> QED BY <1>9, <3>1, <3>2
  <2> QED BY <1>7, <2>1, <2>2, <2>3 DEF Linked
<1> QED BY <1>2, <1>5, <1>6, <1>7, <1>9, <1>10

-----------------------------------------------------------------------------
(* What WaitSem and SignalSem make of w.                                   *)
Passes(w, e, t, s) ==
  /\ Stays(w, e) /\ w.value[s] > 0
  /\ e.value = [w.value EXCEPT ![s] = @ - 1] /\ e.success = [w.success EXCEPT ![t] = TRUE]

Fails(w, e, t, s) ==
  /\ Stays(w, e) /\ w.value[s] = 0
  /\ e.value = w.value /\ e.success = [w.success EXCEPT ![t] = FALSE]

Raises(w, e, s) ==
  /\ Stays(w, e) /\ (\A t \in Task : where(w)[t] # {s})
  /\ e.value = [w.value EXCEPT ![s] = @ + 1] /\ e.success = w.success

(***************************************************************************)
(* WaitSem, by a task that runs.                                           *)
(***************************************************************************)
LEMMA WaitSemEffect ==
  ASSUME NEW w, Linked(w), NEW t \in Task, where(w)[t] = {}, NEW s \in Sem, NEW n \in Waits
  PROVE  LET e == WaitSem(w, t, s, n)
         IN  \/ Passes(w, e, t, s)
             \/ n = 0 /\ Fails(w, e, t, s)
             \/ n # 0 /\ w.value[s] = 0 /\ Joins(w, e, t, s) /\ (n = FOREVER => e.timed = w.timed)
<1> DEFINE e == WaitSem(w, t, s, n)
<1>1. /\ w \in Records /\ w.list \in [Queue -> Seq(Task)] /\ w.timed \subseteq Task
      /\ w.success \in [Task -> BOOLEAN] /\ w.value \in [Sem -> Nat] /\ s \in Queue
  BY RecordsFields DEF Linked, Queue
<1>2. CASE w.value[s] > 0
  <2> DEFINE v == [w.value EXCEPT ![s] = @ - 1]
             b == [w.success EXCEPT ![t] = TRUE]
             d == [w EXCEPT !.value = v, !.success = b]
  <2>1. e = d
    BY <1>1, <1>2 DEF WaitSem, Records
  <2>2. v \in [Sem -> Nat] /\ b \in [Task -> BOOLEAN]
    BY <1>1, <1>2
  <2>3. v = [w.value EXCEPT ![s] = @ - 1] /\ b = [w.success EXCEPT ![t] = TRUE]
    OBVIOUS
  <2> HIDE DEF v, b
  <2>4. d \in Records /\ d.list = w.list /\ d.timed = w.timed /\ d.value = v /\ d.success = b
    BY <1>1, <2>2 DEF Records
  <2> HIDE DEF d
  <2>5. Stays(w, d)
    BY <2>4, StaysByFields
  <2>6. Passes(w, d, t, s)
    BY <1>2, <2>3, <2>4, <2>5 DEF Passes
  <2> QED BY <2>1, <2>6
<1>3. CASE ~ (w.value[s] > 0)
  <2>1. e = WaitQueue(w, t, s, n) /\ w.value[s] = 0
    BY <1>1, <1>3 DEF WaitSem
  <2>2. /\ n # 0 => Joins(w, e, t, s)
        /\ n = FOREVER => e.timed = w.timed
        /\ n = 0 => /\ Stays(w, e) /\ e.value = w.value
                    /\ e.success = [w.success EXCEPT ![t] = FALSE]
    BY <1>1, <2>1, WaitQueueEffect
  <2> QED BY <2>1, <2>2 DEF Fails
<1> QED BY <1>2, <1>3

(***************************************************************************)
(* SignalSem hands the semaphore to one task that waits for it, if there   *)
(* is one.                                                                 *)
(***************************************************************************)
LEMMA SignalSemEffect ==
  ASSUME NEW w, Linked(w), NEW s \in Sem
  PROVE  LET e == SignalSem(w, s)
         IN  Raises(w, e, s) \/ \E u \in Task : Wakes(w, e, u, s, TRUE)
<1> DEFINE e == SignalSem(w, s)
<1>1. /\ w \in Records /\ w.list \in [Queue -> Seq(Task)] /\ w.timed \subseteq Task
      /\ w.success \in [Task -> BOOLEAN] /\ w.value \in [Sem -> Nat] /\ s \in Queue
  BY RecordsFields DEF Linked, Queue
<1>2. CASE w.list[s] = <<>>
  <2> DEFINE v == [w.value EXCEPT ![s] = @ + 1]
             d == [w EXCEPT !.value = v]
  <2>1. e = d /\ v \in [Sem -> Nat] /\ v = [w.value EXCEPT ![s] = @ + 1]
    BY <1>1, <1>2 DEF SignalSem, Records
  <2> HIDE DEF v
  <2>2. d \in Records /\ d.list = w.list /\ d.timed = w.timed /\ d.value = v /\ d.success = w.success
    BY <1>1, <2>1 DEF Records
  <2> HIDE DEF d
  <2>3. Stays(w, d)
    BY <2>2, StaysByFields
  <2>4. \A t \in Task : where(w)[t] # {s}
    BY <1>1, <1>2, QueueMembers
  <2>5. Raises(w, d, s)
    BY <2>1, <2>2, <2>3, <2>4 DEF Raises
  <2> QED BY <2>1, <2>5
<1>3. CASE w.list[s] # <<>>
  <2>1. e = SignalQueue(w, s)
    BY <1>3 DEF SignalSem
  <2>2. ~ \A t \in Task : where(w)[t] # {s}
    BY <1>1, <1>3, QueueMembers
  <2>3. (SignalQueue(w, s) = w /\ \A t \in Task : where(w)[t] # {s})
        \/ \E u \in Task : Wakes(w, SignalQueue(w, s), u, s, TRUE)
    BY <1>1, SignalQueueEffect
  <2> QED BY <2>1, <2>2, <2>3
<1> QED BY <1>2, <1>3

(***************************************************************************)
(* The status of a wait is read.                                           *)
(***************************************************************************)
LEMMA ReturnedEffect ==
  ASSUME NEW w, Linked(w), NEW t \in Task
  PROVE  LET e == Returned(w, t)
         IN  Stays(w, e) /\ e.value = w.value /\ e.success = [w.success EXCEPT ![t] = FALSE]
<1>1. w \in Records /\ w.success \in [Task -> BOOLEAN]
  BY RecordsFields DEF Linked
<1> DEFINE b == [w.success EXCEPT ![t] = FALSE]
           d == [w EXCEPT !.success = b]
<1>2. Returned(w, t) = d /\ b \in [Task -> BOOLEAN] /\ b = [w.success EXCEPT ![t] = FALSE]
  BY <1>1 DEF Returned, Records
<1> HIDE DEF b
<1>3. d \in Records /\ d.list = w.list /\ d.timed = w.timed /\ d.value = w.value /\ d.success = b
  BY <1>1, <1>2 DEF Records
<1> HIDE DEF d
<1>4. Stays(w, d)
  BY <1>3, StaysByFields
<1> QED BY <1>2, <1>3, <1>4
-----------------------------------------------------------------------------
(***************************************************************************)
(* A semaphore s that guards a section, as those of monitors and mutexes   *)
(* do: inside are the tasks in the section, asked those that have called   *)
(* WaitSem and not looked at what it returned yet.  A task that was        *)
(* granted the semaphore is past it, also before it runs.                  *)
(***************************************************************************)
Past(v, s, inside, asked) == inside \cup {t \in asked : where(v)[t] = {} /\ v.success[t]}

Locked(v, s, inside, asked) ==
  /\ inside \subseteq Task /\ asked \subseteq Task /\ inside \cap asked = {}
  /\ \A t \in Task : where(v)[t] = {s} => t \in asked
  /\ \A t \in asked : where(v)[t] = {} \/ where(v)[t] = {s}
  /\ v.value[s] <= 1
  /\ v.value[s] = 1 => Past(v, s, inside, asked) = {}
  /\ \A t, u \in Past(v, s, inside, asked) : t = u

(***************************************************************************)
(* A task asks for the semaphore.                                          *)
(***************************************************************************)
LEMMA LockAsked ==
  ASSUME NEW v, NEW s \in Sem, NEW inside, NEW asked, Linked(v), Locked(v, s, inside, asked),
         NEW t \in Task, t \notin inside \cup asked, where(v)[t] = {},
         NEW e, \/ Passes(v, e, t, s)
                \/ Fails(v, e, t, s)
                \/ v.value[s] = 0 /\ Joins(v, e, t, s)
  PROVE  Locked(e, s, inside, asked \cup {t})
<1>1. v.value \in [Sem -> Nat] /\ v.success \in [Task -> BOOLEAN]
  BY RecordsFields DEF Linked
<1>2. CASE Passes(v, e, t, s)
  <2>1. /\ where(e) = where(v) /\ v.value[s] = 1 /\ e.value[s] = 0
        /\ e.success[t] /\ \A u \in Task : u # t => e.success[u] = v.success[u]
    BY <1>1, <1>2 DEF Passes, Stays, Locked
  <2>2. Past(e, s, inside, asked \cup {t}) \subseteq {t}
    BY <2>1 DEF Locked, Past
  <2>3. \A u \in Task : where(e)[u] = {s} => u \in asked \cup {t}
    BY <2>1 DEF Locked
  <2>4. \A u \in asked \cup {t} : where(e)[u] = {} \/ where(e)[u] = {s}
    BY <2>1 DEF Locked
  <2>5. \A x, y \in Past(e, s, inside, asked \cup {t}) : x = y
    BY <2>2 DEF Locked
  <2>6. inside \subseteq Task /\ asked \cup {t} \subseteq Task /\ inside \cap (asked \cup {t}) = {}
    BY DEF Locked
  <2>7. e.value[s] <= 1 /\ e.value[s] # 1
    BY <2>1
  <2> QED BY <2>3, <2>4, <2>5, <2>6, <2>7 DEF Locked
<1>3. CASE Fails(v, e, t, s)
  <2>1. /\ where(e) = where(v) /\ v.value[s] = 0 /\ e.value[s] = 0
        /\ ~ e.success[t] /\ \A u \in Task : u # t => e.success[u] = v.success[u]
    BY <1>1, <1>3 DEF Fails, Stays, Locked
  <2>2. Past(e, s, inside, asked \cup {t}) \subseteq Past(v, s, inside, asked)
    BY <2>1 DEF Locked, Past
  <2>3. \A u \in Task : where(e)[u] = {s} => u \in asked \cup {t}
    BY <2>1 DEF Locked
  <2>4. \A u \in asked \cup {t} : where(e)[u] = {} \/ where(e)[u] = {s}
    BY <2>1 DEF Locked
  <2>5. \A x, y \in Past(e, s, inside, asked \cup {t}) : x = y
    BY <2>2 DEF Locked
  <2>6. inside \subseteq Task /\ asked \cup {t} \subseteq Task /\ inside \cap (asked \cup {t}) = {}
    BY DEF Locked
  <2>7. e.value[s] <= 1 /\ e.value[s] # 1
    BY <2>1
  <2> QED BY <2>3, <2>4, <2>5, <2>6, <2>7 DEF Locked
<1>4. CASE v.value[s] = 0 /\ Joins(v, e, t, s)
  <2>1. /\ where(e)[t] = {s} /\ \A u \in Task : u # t => where(e)[u] = where(v)[u]
        /\ e.value[s] = 0 /\ e.success = v.success
    BY <1>4 DEF Joins, where
  <2>2. Past(e, s, inside, asked \cup {t}) \subseteq Past(v, s, inside, asked)
    BY <2>1 DEF Locked, Past
  <2>3. \A u \in Task : where(e)[u] = {s} => u \in asked \cup {t}
    BY <2>1 DEF Locked
  <2>4. \A u \in asked \cup {t} : where(e)[u] = {} \/ where(e)[u] = {s}
    BY <2>1 DEF Locked
  <2>5. \A x, y \in Past(e, s, inside, asked \cup {t}) : x = y
    BY <2>2 DEF Locked
  <2>6. inside \subseteq Task /\ asked \cup {t} \subseteq Task /\ inside \cap (asked \cup {t}) = {}
    BY DEF Locked
  <2>7. e.value[s] <= 1 /\ e.value[s] # 1
    BY <2>1
  <2> QED BY <2>3, <2>4, <2>5, <2>6, <2>7 DEF Locked
<1> QED BY <1>2, <1>3, <1>4

(***************************************************************************)
(* A task that has asked looks at the status, and is inside if it was      *)
(* granted the semaphore.                                                  *)
(***************************************************************************)
LEMMA LockAnswered ==
  ASSUME NEW v, NEW s \in Sem, NEW inside, NEW asked, Linked(v), Locked(v, s, inside, asked),
         NEW t \in asked, where(v)[t] = {},
         NEW e, Stays(v, e), e.value = v.value, e.success = [v.success EXCEPT ![t] = FALSE]
  PROVE  /\ v.success[t] => Locked(e, s, inside \cup {t}, asked \ {t})
         /\ ~ v.success[t] => Locked(e, s, inside, asked \ {t})
<1>1. v.value \in [Sem -> Nat] /\ v.success \in [Task -> BOOLEAN] /\ t \in Task
  BY RecordsFields DEF Linked, Locked
<1>2. where(e) = where(v) /\ \A u \in Task : u # t => e.success[u] = v.success[u]
  BY <1>1 DEF Stays
<1>3. CASE v.success[t]
  <2>1. Past(e, s, inside \cup {t}, asked \ {t}) \subseteq Past(v, s, inside, asked)
    BY <1>2, <1>3 DEF Past, Locked
  <2> QED BY <1>1, <1>2, <1>3, <2>1 DEF Locked
<1>4. CASE ~ v.success[t]
  <2>1. Past(e, s, inside, asked \ {t}) \subseteq Past(v, s, inside, asked)
    BY <1>2, <1>4 DEF Past, Locked
  <2> QED BY <1>1, <1>2, <1>4, <2>1 DEF Locked
<1> QED BY <1>3, <1>4

(***************************************************************************)
(* The task inside gives the semaphore back, or hands it to another task.  *)
(***************************************************************************)
LEMMA LockReleased ==
  ASSUME NEW v, NEW s \in Sem, NEW inside, NEW asked, Linked(v), Locked(v, s, inside, asked),
         NEW t \in inside,
         NEW e, Raises(v, e, s) \/ \E u \in Task : Wakes(v, e, u, s, TRUE)
  PROVE  Locked(e, s, inside \ {t}, asked)
<1>1. v.value \in [Sem -> Nat] /\ v.success \in [Task -> BOOLEAN] /\ t \in Task
  BY RecordsFields DEF Linked, Locked
<1>2. v.value[s] = 0 /\ \A u \in Past(v, s, inside, asked) : u = t
  BY <1>1 DEF Locked, Past
<1>3. CASE Raises(v, e, s)
  <2>1. where(e) = where(v) /\ e.success = v.success /\ e.value[s] = 1
    BY <1>1, <1>2, <1>3 DEF Raises, Stays
  <2>2. Past(e, s, inside \ {t}, asked) = {}
    BY <1>2, <2>1 DEF Past, Locked
  <2>4. \A x \in Task : where(e)[x] = {s} => x \in asked
    BY <2>1 DEF Locked
  <2>5. \A x \in asked : where(e)[x] = {} \/ where(e)[x] = {s}
    BY <2>1 DEF Locked
  <2>6. \A x, y \in Past(e, s, inside \ {t}, asked) : x = y
    BY <2>2
  <2>7. inside \ {t} \subseteq Task /\ asked \subseteq Task /\ (inside \ {t}) \cap asked = {}
    BY DEF Locked
  <2>8. e.value[s] <= 1 /\ (e.value[s] = 1 => Past(e, s, inside \ {t}, asked) = {})
    BY <2>1, <2>2
  <2> QED BY <2>4, <2>5, <2>6, <2>7, <2>8 DEF Locked
<1>4. CASE \E u \in Task : Wakes(v, e, u, s, TRUE)
  <2>1. PICK u \in Task : Wakes(v, e, u, s, TRUE)
    BY <1>4
  <2>2. /\ where(v)[u] = {s} /\ where(e)[u] = {} /\ e.value[s] = 0 /\ e.success[u]
        /\ \A x \in Task : x # u => where(e)[x] = where(v)[x] /\ e.success[x] = v.success[x]
    BY <1>1, <1>2, <2>1 DEF Wakes, where
  <2>3. Past(e, s, inside \ {t}, asked) \subseteq {u}
    BY <1>2, <2>2 DEF Past, Locked
  <2>4. \A x \in Task : where(e)[x] = {s} => x \in asked
    BY <2>2 DEF Locked
  <2>5. \A x \in asked : where(e)[x] = {} \/ where(e)[x] = {s}
    BY <2>2 DEF Locked
  <2>6. \A x, y \in Past(e, s, inside \ {t}, asked) : x = y
    BY <2>3
  <2>7. inside \ {t} \subseteq Task /\ asked \subseteq Task /\ (inside \ {t}) \cap asked = {}
    BY DEF Locked
  <2>8. e.value[s] <= 1 /\ (e.value[s] = 1 => Past(e, s, inside \ {t}, asked) = {})
    BY <2>2, <2>3
  <2> QED BY <2>4, <2>5, <2>6, <2>7, <2>8 DEF Locked
<1> QED BY <1>3, <1>4

(***************************************************************************)
(* The wait of a task that has asked is ended by the clock.                *)
(***************************************************************************)
LEMMA LockTimedOut ==
  ASSUME NEW v, NEW s \in Sem, NEW inside, NEW asked, Linked(v), Locked(v, s, inside, asked),
         NEW u \in Task, NEW e, Wakes(v, e, u, s, FALSE)
  PROVE  Locked(e, s, inside, asked)
<1>1. v.value \in [Sem -> Nat] /\ v.success \in [Task -> BOOLEAN]
  BY RecordsFields DEF Linked
<1>2. /\ where(v)[u] = {s} /\ where(e)[u] = {} /\ e.value = v.value /\ ~ e.success[u]
      /\ \A x \in Task : x # u => where(e)[x] = where(v)[x] /\ e.success[x] = v.success[x]
  BY <1>1 DEF Wakes, where
<1>3. Past(e, s, inside, asked) \subseteq Past(v, s, inside, asked)
  BY <1>2 DEF Past, Locked
<1> QED BY <1>2, <1>3 DEF Locked

(***************************************************************************)
(* What happens to other tasks does not touch the lock.                    *)
(***************************************************************************)
LEMMA LockKept ==
  ASSUME NEW v, NEW s \in Sem, NEW inside, NEW asked, Locked(v, s, inside, asked),
         NEW e, e.value[s] = v.value[s],
         \A u \in Task :
           \/ where(e)[u] = where(v)[u] /\ e.success[u] = v.success[u]
           \/ u \notin asked /\ where(e)[u] # {s}
  PROVE  Locked(e, s, inside, asked)
<1>1. Past(e, s, inside, asked) = Past(v, s, inside, asked)
  BY DEF Past, Locked
<1> QED BY <1>1 DEF Locked
-----------------------------------------------------------------------------
(***************************************************************************)
(* The circular buffers of pipes and message queues: b has S cells, and    *)
(* what it holds are n of them from h on.                                  *)
(***************************************************************************)
IsBuffer(b, S, B) == S \in Nat \ {0} /\ b \in [0 .. S - 1 -> B]

(* c is b, after the n bytes of d were written from cell t on.             *)
Written(b, c, S, B, t, n, d) ==
  /\ d \in [1 .. n -> B]
  /\ \A i \in 0 .. S - 1 : c[i] = IF (i - t) % S < n THEN d[((i - t) % S) + 1] ELSE b[i]

(* The first n of the k items of b are taken out, and those from g on are left. *)
TakesOut(b, S, B, h, k, n, g) ==
  /\ IsBuffer(b, S, B) /\ S \in Nat \ {0}
  /\ h \in 0 .. S - 1 /\ k \in 1 .. S /\ n \in 1 .. k /\ g = (h + n) % S

(* n items d are put behind the k that are there, and b becomes c.         *)
HasIn(b, S, B, h, k) == IsBuffer(b, S, B) /\ h \in 0 .. S - 1 /\ k \in 0 .. S

Puts(b, c, S, B, h, k, n, d) ==
  /\ HasIn(b, S, B, h, k) /\ IsBuffer(c, S, B) /\ n \in 1 .. S - k
  /\ Written(b, c, S, B, (h + k) % S, n, d)

Slot(S, h, i) == (h + i - 1) % S

Window(b, S, h, n) == [i \in 1 .. n |-> b[Slot(S, h, i)]]

(***************************************************************************)
(* Going round forwards.                                                   *)
(***************************************************************************)
LEMMA Round ==
  ASSUME NEW S \in Nat \ {0}, NEW i \in 0 .. S - 1, NEW n \in 0 .. S
  PROVE  (i + n) % S \in 0 .. S - 1 /\ (i + n) % S = IF i + n < S THEN i + n ELSE i + n - S
<1>1. ASSUME NEW a \in 0 .. S - 1 PROVE a % S = a
  OBVIOUS
<1>2. ASSUME NEW a \in S .. 2 * S - 1 PROVE a % S = a - S
  OBVIOUS
<1>3. CASE i + n < S
  BY <1>1, <1>3
<1>4. CASE ~ (i + n < S)
  BY <1>2, <1>4
<1> QED BY <1>3, <1>4

(***************************************************************************)
(* How far a cell is from another one.                                     *)
(***************************************************************************)
LEMMA Distance ==
  ASSUME NEW S \in Nat \ {0}, NEW i \in 0 .. S - 1, NEW j \in 0 .. S - 1
  PROVE  (i - j) % S \in 0 .. S - 1 /\ (i - j) % S = IF i >= j THEN i - j ELSE i - j + S
<1>1. ASSUME NEW a \in 0 .. S - 1 PROVE a % S = a
  OBVIOUS
<1>2. ASSUME NEW a \in -S .. -1 PROVE a % S = a + S
  OBVIOUS
<1>3. CASE i >= j
  BY <1>1, <1>3
<1>4. CASE ~ (i >= j)
  BY <1>2, <1>4
<1> QED BY <1>3, <1>4

(***************************************************************************)
(* What a buffer holds is a sequence.                                      *)
(***************************************************************************)
LEMMA WindowProperties ==
  ASSUME NEW S, NEW B, NEW b, IsBuffer(b, S, B), NEW h \in 0 .. S - 1, NEW k \in 0 .. S
  PROVE  /\ Window(b, S, h, k) \in Seq(B) /\ Len(Window(b, S, h, k)) = k
         /\ DOMAIN Window(b, S, h, k) = 1 .. k
         /\ \A i \in 1 .. k : Window(b, S, h, k)[i] = b[Slot(S, h, i)]
<1>5. S \in Nat \ {0} /\ b \in [0 .. S - 1 -> B]
  BY DEF IsBuffer
<1>1. \A i \in 1 .. k : Slot(S, h, i) \in 0 .. S - 1
  <2> TAKE i \in 1 .. k
  <2>1. i - 1 \in 0 .. S /\ h + i - 1 = h + (i - 1)
    BY <1>5
  <2> QED BY <1>5, <2>1, Round DEF Slot
<1>2. Window(b, S, h, k) \in [1 .. k -> B]
  BY <1>1, <1>5 DEF Window
<1>3. Window(b, S, h, k) \in Seq(B)
  BY <1>2, <1>5, SeqDef
<1>4. DOMAIN Window(b, S, h, k) = 1 .. k
  BY DEF Window
<1> QED BY <1>3, <1>4, <1>5, LenProperties DEF Window

(***************************************************************************)
(* The first n items are taken out.                                        *)
(***************************************************************************)
LEMMA WindowTaken ==
  ASSUME NEW S, NEW B, NEW b, NEW h, NEW k, NEW n, NEW g, TakesOut(b, S, B, h, k, n, g)
  PROVE  /\ SubSeq(Window(b, S, h, k), 1, n) = Window(b, S, h, n)
         /\ SubSeq(Window(b, S, h, k), n + 1, k) = Window(b, S, g, k - n)
<1>7. /\ S \in Nat \ {0} /\ h \in 0 .. S - 1 /\ k \in 1 .. S /\ n \in 1 .. k /\ g = (h + n) % S
      /\ k \in 0 .. S /\ n \in 0 .. S
  BY DEF TakesOut
<1>8. IsBuffer(b, S, B) /\ h \in 0 .. S - 1 /\ n \in 0 .. S /\ k \in 0 .. S
  BY <1>7 DEF TakesOut
<1> DEFINE c == Window(b, S, h, k)
<1>1. c \in Seq(B) /\ Len(c) = k /\ \A i \in 1 .. k : c[i] \in B /\ c[i] = b[Slot(S, h, i)]
  <2>2. c \in Seq(B) /\ Len(c) = k /\ \A i \in 1 .. k : c[i] = b[Slot(S, h, i)]
    BY <1>8, WindowProperties
  <2> QED BY <1>7, <2>2, ElementOfSeq
<1>2. g \in 0 .. S - 1 /\ g = IF h + n < S THEN h + n ELSE h + n - S
  BY <1>7, Round
<1>3. ASSUME NEW i \in 1 .. k - n PROVE Slot(S, g, i) = Slot(S, h, n + i)
  <2>1. /\ i - 1 \in 0 .. S /\ n + i - 1 \in 0 .. S /\ g + i - 1 = g + (i - 1)
        /\ h + (n + i) - 1 = h + (n + i - 1)
    BY <1>2, <1>7
  <2> DEFINE x == Slot(S, g, i)
             y == Slot(S, h, n + i)
  <2>2. x = IF g + (i - 1) < S THEN g + (i - 1) ELSE g + (i - 1) - S
    BY <1>2, <1>7, <2>1, Round DEF Slot
  <2>3. y = IF h + (n + i - 1) < S THEN h + (n + i - 1) ELSE h + (n + i - 1) - S
    BY <1>7, <2>1, Round DEF Slot
  <2> HIDE DEF x, y
  <2>4. h \in 0 .. S - 1 /\ k \in 1 .. S /\ n \in 1 .. k /\ S \in Nat
    BY <1>7
  <2>5. x = y
    BY <1>2, <2>2, <2>3, <2>4
  <2> QED BY <2>5 DEF x, y
<1> HIDE DEF c
<1>4. SubSeq(c, 1, n) = Window(b, S, h, n)
  <2>1. /\ SubSeq(c, 1, n) \in Seq(B) /\ Len(SubSeq(c, 1, n)) = n
        /\ \A i \in 1 .. n : SubSeq(c, 1, n)[i] = c[i]
    BY <1>1, <1>7, SubSeqProperties
  <2>2. /\ Window(b, S, h, n) \in Seq(B) /\ Len(Window(b, S, h, n)) = n
        /\ \A i \in 1 .. n : Window(b, S, h, n)[i] = b[Slot(S, h, i)]
    BY <1>8, WindowProperties
  <2> QED BY <1>1, <1>7, <2>1, <2>2, SeqEqual
<1>5. SubSeq(c, n + 1, k) = Window(b, S, g, k - n)
  <2>1. /\ SubSeq(c, n + 1, k) \in Seq(B) /\ Len(SubSeq(c, n + 1, k)) = k - n
        /\ \A i \in 1 .. k - n : SubSeq(c, n + 1, k)[i] = c[n + i]
    BY <1>1, <1>7, SubSeqProperties
  <2>2. /\ Window(b, S, g, k - n) \in Seq(B) /\ Len(Window(b, S, g, k - n)) = k - n
        /\ \A i \in 1 .. k - n : Window(b, S, g, k - n)[i] = b[Slot(S, g, i)]
    <3> DEFINE m == k - n
    <3>3. g \in 0 .. S - 1
      BY <1>2
    <3>1. m \in 0 .. S
      BY <1>7
    <3> HIDE DEF m
    <3>2. /\ Window(b, S, g, m) \in Seq(B) /\ Len(Window(b, S, g, m)) = m
          /\ \A i \in 1 .. m : Window(b, S, g, m)[i] = b[Slot(S, g, i)]
      BY <1>8, <3>1, <3>3, WindowProperties
    <3> QED BY <3>2 DEF m
  <2>3. \A i \in 1 .. k - n : c[n + i] = b[Slot(S, g, i)]
    BY <1>1, <1>3, <1>7
  <2> QED BY <2>1, <2>2, <2>3, SeqEqual
<1> QED BY <1>4, <1>5 DEF c

(***************************************************************************)
(* n items are put in, behind the k that are there.                        *)
(***************************************************************************)
LEMMA WindowGrows ==
  ASSUME NEW S \in Nat \ {0}, NEW B, NEW b, NEW c, IsBuffer(b, S, B), IsBuffer(c, S, B),
         NEW h \in 0 .. S - 1, NEW k \in 0 .. S, NEW n \in 1 .. S - k, NEW d,
         Written(b, c, S, B, (h + k) % S, n, d)
  PROVE  Window(c, S, h, k + n) = Window(b, S, h, k) \o d
<1> DEFINE t == (h + k) % S
<1>1. t \in 0 .. S - 1 /\ t = IF h + k < S THEN h + k ELSE h + k - S
  BY Round
<1> HIDE DEF t
<1> DEFINE w1 == Window(b, S, h, k)
           w2 == Window(c, S, h, k + n)
<1>2. w1 \in Seq(B) /\ Len(w1) = k /\ \A i \in 1 .. k : w1[i] = b[Slot(S, h, i)]
  BY WindowProperties
<1>3. w2 \in Seq(B) /\ Len(w2) = k + n /\ \A i \in 1 .. k + n : w2[i] = c[Slot(S, h, i)]
  <2> DEFINE m == k + n
  <2>1. m \in 0 .. S
    OBVIOUS
  <2> HIDE DEF m
  <2>2. /\ Window(c, S, h, m) \in Seq(B) /\ Len(Window(c, S, h, m)) = m
        /\ \A i \in 1 .. m : Window(c, S, h, m)[i] = c[Slot(S, h, i)]
    BY <2>1, WindowProperties
  <2> QED BY <2>2 DEF m
<1> HIDE DEF w1, w2
<1>4. d \in Seq(B) /\ Len(d) = n
  <2>1. n \in Nat /\ d \in [1 .. n -> B]
    BY DEF Written
  <2> QED BY <2>1, SeqDef, LenProperties
<1> DEFINE r == w1 \o d
<1>5. /\ r \in Seq(B) /\ Len(r) = k + n
      /\ \A i \in 1 .. k + n : r[i] = IF i <= k THEN w1[i] ELSE d[i - k]
  BY <1>2, <1>4, ConcatProperties
<1>6. ASSUME NEW i \in 1 .. k + n PROVE w2[i] = r[i]
  <2> DEFINE x == Slot(S, h, i)
             z == (x - t) % S
  <2>1. /\ i - 1 \in 0 .. S /\ h + i - 1 = h + (i - 1)
    OBVIOUS
  <2>2. x \in 0 .. S - 1 /\ x = IF h + (i - 1) < S THEN h + (i - 1) ELSE h + (i - 1) - S
    BY <2>1, Round DEF Slot
  <2>3. w2[i] = c[x]
    BY <1>3
  <2>4. i <= k => w1[i] = b[x]
    BY <1>2
  <2>8. c[x] = IF z < n THEN d[z + 1] ELSE b[x]
    BY <2>2 DEF Written, t
  <2> HIDE DEF x, z
  <2>5. z \in 0 .. S - 1 /\ z = IF x >= t THEN x - t ELSE x - t + S
    BY <1>1, <2>2, Distance DEF z
  <2>6. CASE i <= k
    <3>1. z >= n
      BY <1>1, <2>2, <2>5, <2>6
    <3> QED BY <1>5, <2>3, <2>4, <2>5, <2>6, <2>8, <3>1
  <2>7. CASE i > k
    <3>1. z = i - k - 1
      BY <1>1, <2>2, <2>5, <2>7
    <3>2. z < n /\ z + 1 = i - k
      BY <3>1
    <3>3. c[x] = d[i - k]
      BY <2>8, <3>2
    <3>4. r[i] = d[i - k]
      BY <1>5, <2>7
    <3> QED BY <2>3, <3>3, <3>4
  <2>9. i <= k \/ i > k
    OBVIOUS
  <2> HIDE DEF r
  <2> QED BY <2>6, <2>7, <2>9
<1> HIDE DEF r
<1>7. w2 = r
  <2>1. Len(w2) = Len(r) /\ \A i \in 1 .. Len(w2) : w2[i] = r[i]
    BY <1>3, <1>5, <1>6
  <2> QED BY <1>3, <1>5, <2>1, SeqEqual
<1> QED BY <1>7 DEF r, w1, w2

(***************************************************************************)
(* The same, with what it needs as one condition.                          *)
(***************************************************************************)
LEMMA WindowPut ==
  ASSUME NEW b, NEW c, NEW S, NEW B, NEW h, NEW k, NEW n, NEW d, Puts(b, c, S, B, h, k, n, d)
  PROVE  Window(c, S, h, k + n) = Window(b, S, h, k) \o d
<1>1. /\ S \in Nat \ {0} /\ IsBuffer(b, S, B) /\ IsBuffer(c, S, B)
      /\ h \in 0 .. S - 1 /\ k \in 0 .. S /\ n \in 1 .. S - k
  BY DEF Puts, HasIn, IsBuffer
<1>2. Written(b, c, S, B, (h + k) % S, n, d)
  BY DEF Puts
<1> QED BY <1>1, <1>2, WindowGrows

(***************************************************************************)
(* What a buffer holds has as many items as are there.                     *)
(***************************************************************************)
LEMMA WindowLength ==
  ASSUME NEW b, NEW S, NEW B, NEW h, NEW k, HasIn(b, S, B, h, k)
  PROVE  Window(b, S, h, k) \in Seq(B) /\ Len(Window(b, S, h, k)) = k
BY WindowProperties DEF HasIn
=============================================================================
