---------------------------- MODULE Kernel_proof ----------------------------
(***************************************************************************)
(* The safety properties of the kernel, for any number of tasks, queues,   *)
(* priorities and interrupt levels: first what the operations on the       *)
(* kernel's data (KernelState) return and preserve, which the proofs about *)
(* the calls cite instead of looking into the lists; then the calls and    *)
(* the theorems.                                                           *)
(***************************************************************************)
EXTENDS Kernel, OrderedQueue_proof

(* The lists and the queue fields agree, and all lists are ordered.        *)
ListsAgree(d) ==
  /\ \A t \in Task, q \in Queue : t \in ToSet(d.list[q]) <=> d.queue[t] = q
  /\ \A q \in Queue : NoRepetition(d.list[q]) /\ IsOrdered(d.list[q], d.prio)

TimeOrdered(d) == NoRepetition(d.time_q) /\ IsOrdered(d.time_q, d.left)

Linked(d) == d \in Records /\ ListsAgree(d) /\ TimeOrdered(d)

Timing(d) == ToSet(d.time_q)

(* What no operation on queues touches.                                    *)
SameScalars(d, e) ==
  /\ e.from = d.from /\ e.atomic = d.atomic /\ e.disint = d.disint
  /\ e.curr = d.curr /\ e.run = d.run /\ e.fpu = d.fpu /\ e.ts = d.ts /\ e.math = d.math

SameLists(d, e) == e.list = d.list /\ e.queue = d.queue /\ e.prio = d.prio
SameTimes(d, e) == e.time_q = d.time_q /\ e.left = d.left
SameStatus(d, e) == e.state = d.state /\ e.success = d.success

(* Every task of queue q but t has a lower priority than t.                *)
Outranks(d, t, q) == \A u \in Task : d.queue[u] = q /\ u # t => d.prio[u] < d.prio[t]

-----------------------------------------------------------------------------
(***************************************************************************)
(* The types of the fields of the kernel's data.                           *)
(***************************************************************************)
LEMMA RecordsFields ==
  ASSUME NEW d \in Records
  PROVE  /\ d.state \in [Task -> TaskState] /\ d.prio \in [Task -> Priority]
         /\ d.queue \in [Task -> Queue \cup {NoQueue}] /\ d.list \in [Queue -> Seq(Task)]
         /\ d.time_q \in Seq(Task) /\ d.left \in [Task -> Nat]
         /\ d.success \in [Task -> BOOLEAN] /\ d.from \in [Task -> Task \cup {NoTask}]
         /\ d.atomic \in [Task -> Nat] /\ d.disint \in [Task -> Nat]
         /\ d.curr \in Task /\ d.run \in 0 .. QUANTUM /\ d.fpu \in Task \cup {NoTask}
         /\ d.ts \in BOOLEAN /\ d.math \in SUBSET Task
         /\ d.prio \in [Task -> Nat]
<1>1. Priority \subseteq Nat
  BY KernelStateAssumption
<1> QED BY <1>1 DEF Records

(* The tasks of the time queue are tasks.                                  *)
LEMMA TimingTasks ==
  ASSUME NEW d \in Records
  PROVE  Timing(d) \subseteq Task
<1>1. d.time_q \in Seq(Task)
  BY RecordsFields
<1> QED BY <1>1, LenProperties, ElementOfSeq DEF Timing, ToSet

(* Agreement and order depend on nothing but the lists and the times.      *)
LEMMA LinkedByFields ==
  ASSUME NEW d, NEW e \in Records, Linked(d), SameLists(d, e), SameTimes(d, e)
  PROVE  Linked(e) /\ Timing(e) = Timing(d)
BY DEF Linked, ListsAgree, TimeOrdered, SameLists, SameTimes, Timing

(* A task is in at most one list, and in none if its field says so.        *)
LEMMA OffAllLists ==
  ASSUME NEW d, Linked(d), NEW t \in Task, d.queue[t] = NoQueue
  PROVE  \A q \in Queue : t \notin ToSet(d.list[q])
BY KernelStateAssumption DEF Linked, ListsAgree

(* A list is empty when no task's field names it; if not, its last task    *)
(* has the highest priority of them.                                       *)
LEMMA LastOfList ==
  ASSUME NEW d, Linked(d), NEW q \in Queue
  PROVE  /\ d.list[q] = <<>> <=> \A u \in Task : d.queue[u] # q
         /\ d.list[q] # <<>> =>
              /\ PeekLast(d, q) \in Task /\ d.queue[PeekLast(d, q)] = q
              /\ \A u \in Task : d.queue[u] = q => d.prio[u] <= d.prio[PeekLast(d, q)]
<1>1. d.list[q] \in Seq(Task) /\ d.prio \in [Task -> Nat]
  BY RecordsFields DEF Linked
<1>2. NoRepetition(d.list[q]) /\ IsOrdered(d.list[q], d.prio)
  BY DEF Linked, ListsAgree
<1>3. ASSUME d.list[q] = <<>>, NEW u \in Task, d.queue[u] = q PROVE FALSE
  <2>1. u \in ToSet(d.list[q])
    BY <1>3 DEF Linked, ListsAgree
  <2>2. DOMAIN d.list[q] = {}
    BY <1>3
  <2> QED BY <2>1, <2>2 DEF ToSet
<1>4. ASSUME d.list[q] # <<>>
      PROVE  /\ PeekLast(d, q) \in Task /\ d.queue[PeekLast(d, q)] = q
             /\ \A u \in Task : d.queue[u] = q => d.prio[u] <= d.prio[PeekLast(d, q)]
  <2>1. /\ Last(d.list[q]) \in Task /\ Last(d.list[q]) \in ToSet(d.list[q])
        /\ \A x \in ToSet(d.list[q]) : d.prio[x] <= d.prio[Last(d.list[q])]
    BY <1>1, <1>2, <1>4, FrontProperties
  <2> QED BY <2>1 DEF Linked, ListsAgree, PeekLast
<1> QED BY <1>3, <1>4

-----------------------------------------------------------------------------
(***************************************************************************)
(* An insertion before the elements of the same key: if the new element is *)
(* the last, all others have a smaller key.                                *)
(***************************************************************************)
LEMMA InsertedLast ==
  ASSUME NEW S, NEW q \in Seq(S), NEW key \in [S -> Nat], NEW e \in S, NEW v \in Nat,
         e \notin ToSet(q), Last(OrderedInsert(q, key, e, v)) = e
  PROVE  \A x \in ToSet(q) : key[x] < v
<1> DEFINE p == Position(q, key, v)
           r == OrderedInsert(q, key, e, v)
<1>1. Len(q) \in Nat /\ DOMAIN q = 1 .. Len(q) /\ \A i \in 1 .. Len(q) : q[i] \in S
  BY LenProperties, ElementOfSeq
<1>2. p \in 1 .. Len(q) + 1 /\ \A j \in 1 .. p - 1 : key[q[j]] < v
  BY PositionExists
<1>3. r = InsertAt(q, p, e)
  BY DEF OrderedInsert
<1> HIDE DEF p
<1>7. Len(InsertAt(q, p, e)) = Len(q) + 1 /\ \A i \in p .. Len(q) : InsertAt(q, p, e)[i + 1] = q[i]
  <2>1. PICK n \in 1 .. Len(q) + 1 : n = p
    BY <1>2
  <2>2. /\ Len(InsertAt(q, n, e)) = Len(q) + 1
        /\ \A i \in n .. Len(q) : InsertAt(q, n, e)[i + 1] = q[i]
    BY InsertAtElements
  <2> QED BY <2>1, <2>2
<1> HIDE DEF r
<1>4. Len(r) = Len(q) + 1 /\ \A i \in p .. Len(q) : r[i + 1] = q[i]
  BY <1>3, <1>7
<1>5. r[Len(q) + 1] = e
  <2>1. Last(r) = e
    BY DEF r
  <2> QED BY <1>4, <2>1 DEF Last
<1>6. p = Len(q) + 1
  <2> SUFFICES ASSUME p # Len(q) + 1 PROVE FALSE
    OBVIOUS
  <2>1. Len(q) \in p .. Len(q) /\ Len(q) \in 1 .. Len(q)
    BY <1>1, <1>2
  <2>2. q[Len(q)] = e
    BY <1>4, <1>5, <2>1
  <2> QED BY <1>1, <2>1, <2>2 DEF ToSet
<1>8. ASSUME NEW x \in ToSet(q) PROVE key[x] < v
  <2>1. PICK i \in 1 .. Len(q) : x = q[i]
    BY <1>1 DEF ToSet
  <2>2. i \in 1 .. p - 1
    BY <1>1, <1>6
  <2> QED BY <1>2, <2>1, <2>2
<1> QED BY <1>8

(***************************************************************************)
(* mt_enqueue on a task that is in no queue.                               *)
(***************************************************************************)
LEMMA EnqueueEffect ==
  ASSUME NEW d, Linked(d), NEW t \in Task, NEW q \in Queue, d.queue[t] = NoQueue
  PROVE  LET e == Enqueue(d, t, q)
         IN  /\ Linked(e)
             /\ e.queue = [d.queue EXCEPT ![t] = q] /\ e.prio = d.prio
             /\ SameScalars(d, e) /\ SameTimes(d, e) /\ SameStatus(d, e)
             /\ PeekLast(e, q) = t => Outranks(e, t, q)
<1> DEFINE e == Enqueue(d, t, q)
           l == OrderedInsert(d.list[q], d.prio, t, d.prio[t])
<1>1. /\ d \in Records /\ d.list[q] \in Seq(Task) /\ d.prio \in [Task -> Nat] /\ d.prio[t] \in Nat
      /\ d.list \in [Queue -> Seq(Task)] /\ d.queue \in [Task -> Queue \cup {NoQueue}]
  BY RecordsFields DEF Linked
<1>2. t \notin ToSet(d.list[q])
  BY OffAllLists
<1>3. NoRepetition(d.list[q]) /\ IsOrdered(d.list[q], d.prio)
  BY DEF Linked, ListsAgree
<1>4. l \in Seq(Task) /\ ToSet(l) = ToSet(d.list[q]) \cup {t} /\ NoRepetition(l) /\ IsOrdered(l, d.prio)
  <2> DEFINE a == d.list[q]
             v == d.prio[t]
           p == d.prio
  <2> HIDE DEF a, v, p
  <2>1. a \in Seq(Task) /\ v \in Nat /\ t \notin ToSet(a) /\ NoRepetition(a) /\ IsOrdered(a, p)
        /\ p \in [Task -> Nat] /\ p[t] = v
    BY <1>1, <1>2, <1>3 DEF a, v, p
  <2>2. /\ OrderedInsert(a, p, t, v) \in Seq(Task)
        /\ ToSet(OrderedInsert(a, p, t, v)) = ToSet(a) \cup {t}
        /\ NoRepetition(OrderedInsert(a, p, t, v))
        /\ IsOrdered(OrderedInsert(a, p, t, v), p)
    BY <2>1, OrderedInsertProperties
  <2> QED BY <2>2 DEF a, v, p
<1>8. Last(l) = t => \A x \in ToSet(d.list[q]) : d.prio[x] < d.prio[t]
  BY <1>1, <1>2, InsertedLast
<1>10. e = [d EXCEPT !.list[q] = l, !.queue[t] = q]
  BY DEF Enqueue
<1> HIDE DEF l, e
<1>5. /\ e \in Records
      /\ e.list = [d.list EXCEPT ![q] = l] /\ e.queue = [d.queue EXCEPT ![t] = q] /\ e.prio = d.prio
      /\ SameScalars(d, e) /\ SameTimes(d, e) /\ SameStatus(d, e)
  BY <1>1, <1>4, <1>10 DEF Records, SameScalars, SameTimes, SameStatus
<1>6. ListsAgree(e)
  <2>1. ASSUME NEW u \in Task, NEW r \in Queue PROVE u \in ToSet(e.list[r]) <=> e.queue[u] = r
    <3>1. u \in ToSet(d.list[r]) <=> d.queue[u] = r
      BY DEF Linked, ListsAgree
    <3>2. NoQueue # r /\ NoQueue # q
      BY KernelStateAssumption
    <3>3. e.list[r] = IF r = q THEN l ELSE d.list[r]
      BY <1>1, <1>5
    <3>4. e.queue[u] = IF u = t THEN q ELSE d.queue[u]
      BY <1>1, <1>5
    <3>5. CASE r = q
      BY <1>4, <3>1, <3>3, <3>4, <3>5
    <3>6. CASE r # q
      BY <3>1, <3>2, <3>3, <3>4, <3>6
    <3> QED BY <3>5, <3>6
  <2>2. ASSUME NEW r \in Queue PROVE NoRepetition(e.list[r]) /\ IsOrdered(e.list[r], e.prio)
    <3>1. NoRepetition(d.list[r]) /\ IsOrdered(d.list[r], d.prio)
      BY DEF Linked, ListsAgree
    <3> QED BY <1>1, <1>4, <1>5, <3>1
  <2> QED BY <2>1, <2>2 DEF ListsAgree
<1>7. Linked(e)
  BY <1>5, <1>6 DEF Linked, TimeOrdered, SameTimes
<1>9. ASSUME PeekLast(e, q) = t PROVE Outranks(e, t, q)
  <2>1. Last(l) = t
    BY <1>1, <1>5, <1>9 DEF PeekLast
  <2> QED BY <1>1, <1>8, <1>5, <2>1 DEF Outranks, Linked, ListsAgree
<1> QED BY <1>5, <1>7, <1>9 DEF e

(***************************************************************************)
(* A list loses one task whose field is cleared: mt_dequeue and            *)
(* mt_getlast.                                                             *)
(***************************************************************************)
LEMMA UnlinkedEffect ==
  ASSUME NEW d, Linked(d), NEW t \in Task, NEW q \in Queue, d.queue[t] = q,
         NEW l \in Seq(Task), ToSet(l) = ToSet(d.list[q]) \ {t},
         NoRepetition(l), IsOrdered(l, d.prio),
         NEW e \in Records, e.list = [d.list EXCEPT ![q] = l], e.queue = [d.queue EXCEPT ![t] = NoQueue],
         e.prio = d.prio, SameTimes(d, e)
  PROVE  Linked(e)
<1>1. /\ d \in Records /\ d.prio \in [Task -> Nat]
      /\ d.list \in [Queue -> Seq(Task)] /\ d.queue \in [Task -> Queue \cup {NoQueue}]
  BY RecordsFields DEF Linked
<1>3. ASSUME NEW u \in Task, NEW r \in Queue PROVE u \in ToSet(e.list[r]) <=> e.queue[u] = r
  <2>1. u \in ToSet(d.list[r]) <=> d.queue[u] = r
    BY DEF Linked, ListsAgree
  <2>2. NoQueue # r
    BY KernelStateAssumption
  <2>3. e.list[r] = IF r = q THEN l ELSE d.list[r]
    BY <1>1
  <2>4. e.queue[u] = IF u = t THEN NoQueue ELSE d.queue[u]
    BY <1>1
  <2>5. CASE r = q
    BY <2>1, <2>2, <2>3, <2>4, <2>5
  <2>6. CASE r # q
    BY <2>1, <2>2, <2>3, <2>4, <2>6
  <2> QED BY <2>5, <2>6
<1>4. ASSUME NEW r \in Queue PROVE NoRepetition(e.list[r]) /\ IsOrdered(e.list[r], e.prio)
  <2>1. NoRepetition(d.list[r]) /\ IsOrdered(d.list[r], d.prio)
    BY DEF Linked, ListsAgree
  <2> QED BY <1>1, <2>1
<1> QED BY <1>3, <1>4 DEF Linked, TimeOrdered, SameTimes, ListsAgree

(***************************************************************************)
(* mt_dequeue takes a task out of the queue it is in, if any, and changes  *)
(* nothing else.                                                           *)
(***************************************************************************)
LEMMA DequeueEffect ==
  ASSUME NEW d, Linked(d), NEW t \in Task
  PROVE  LET e == Dequeue(d, t)
         IN  /\ Linked(e)
             /\ e.queue = [d.queue EXCEPT ![t] = NoQueue] /\ e.prio = d.prio
             /\ SameScalars(d, e) /\ SameTimes(d, e) /\ SameStatus(d, e)
<1>1. /\ d \in Records /\ d.prio \in [Task -> Nat]
      /\ d.list \in [Queue -> Seq(Task)] /\ d.queue \in [Task -> Queue \cup {NoQueue}]
  BY RecordsFields DEF Linked
<1>2. CASE d.queue[t] = NoQueue
  BY <1>1, <1>2 DEF Dequeue, SameScalars, SameTimes, SameStatus
<1>3. CASE d.queue[t] # NoQueue
  <2> DEFINE q == d.queue[t]
             a == d.list[q]
             p == d.prio
             l == Unlink(a, t)
  <2>1. q \in Queue /\ a \in Seq(Task) /\ t \in ToSet(a) /\ NoRepetition(a) /\ IsOrdered(a, p)
        /\ p \in [Task -> Nat]
    BY <1>1, <1>3 DEF Linked, ListsAgree
  <2> HIDE DEF a, p
  <2>2. l \in Seq(Task) /\ ToSet(l) = ToSet(a) \ {t} /\ NoRepetition(l) /\ IsOrdered(l, p)
    BY <2>1, UnlinkProperties
  <2>3. Dequeue(d, t) = [d EXCEPT !.list[q] = l, !.queue[t] = NoQueue]
    BY <1>3 DEF Dequeue, a
  <2> HIDE DEF l
  <2>4. ToSet(l) = ToSet(d.list[q]) \ {t} /\ IsOrdered(l, d.prio)
    BY <2>2 DEF a, p
  <2> HIDE DEF q
  <2>5. q = d.queue[t]
    BY DEF q
  <2> DEFINE e == Dequeue(d, t)
  <2> HIDE DEF e
  <2>7. e = [d EXCEPT !.list[q] = l, !.queue[t] = NoQueue]
    BY <2>3 DEF e
  <2>6. /\ e \in Records
        /\ e.list = [d.list EXCEPT ![q] = l] /\ e.queue = [d.queue EXCEPT ![t] = NoQueue]
        /\ e.prio = d.prio
        /\ SameScalars(d, e) /\ SameTimes(d, e) /\ SameStatus(d, e)
    BY <1>1, <2>1, <2>2, <2>7 DEF Records, SameScalars, SameTimes, SameStatus
  <2>8. Linked(e)
    BY <2>1, <2>2, <2>4, <2>5, <2>6, UnlinkedEffect
  <2> QED BY <2>6, <2>8 DEF e
<1> QED BY <1>2, <1>3

(***************************************************************************)
(* mt_getlast takes the last task out of a queue.                          *)
(***************************************************************************)
LEMMA GetLastEffect ==
  ASSUME NEW d, Linked(d), NEW q \in Queue, d.list[q] # <<>>
  PROVE  LET e == GetLast(d, q)
         IN  /\ Linked(e)
             /\ e.queue = [d.queue EXCEPT ![PeekLast(d, q)] = NoQueue] /\ e.prio = d.prio
             /\ SameScalars(d, e) /\ SameTimes(d, e) /\ SameStatus(d, e)
<1> DEFINE a == d.list[q]
           p == d.prio
           t == PeekLast(d, q)
           l == Front(a)
<1>1. t = Last(a) /\ t \in Task /\ d.queue[t] = q
  BY LastOfList DEF PeekLast
<1>2. a \in Seq(Task) /\ a # <<>> /\ NoRepetition(a) /\ IsOrdered(a, p) /\ p \in [Task -> Nat]
  BY RecordsFields DEF Linked, ListsAgree
<1>3. GetLast(d, q) = [d EXCEPT !.list[q] = l, !.queue[t] = NoQueue]
  BY DEF GetLast
<1> HIDE DEF t, a, p
<1>4. l \in Seq(Task) /\ ToSet(l) = ToSet(a) \ {t} /\ NoRepetition(l) /\ IsOrdered(l, p)
  BY <1>1, <1>2, FrontProperties
<1>5. l \in Seq(Task) /\ ToSet(l) = ToSet(d.list[q]) \ {t} /\ NoRepetition(l) /\ IsOrdered(l, d.prio)
  BY <1>4 DEF a, p
<1> HIDE DEF l
<1> DEFINE e == GetLast(d, q)
<1>7. e = [d EXCEPT !.list[q] = l, !.queue[t] = NoQueue]
  BY <1>3
<1> HIDE DEF e
<1>6. /\ e \in Records
      /\ e.list = [d.list EXCEPT ![q] = l] /\ e.queue = [d.queue EXCEPT ![t] = NoQueue]
      /\ e.prio = d.prio
      /\ SameScalars(d, e) /\ SameTimes(d, e) /\ SameStatus(d, e)
  <2>1. d \in Records /\ d.list \in [Queue -> Seq(Task)] /\ d.queue \in [Task -> Queue \cup {NoQueue}]
    BY RecordsFields DEF Linked
  <2> QED BY <1>1, <1>5, <1>7, <2>1 DEF Records, SameScalars, SameTimes, SameStatus
<1>8. Linked(e)
  BY <1>1, <1>5, <1>6, UnlinkedEffect
<1> QED BY <1>6, <1>8 DEF t, e

-----------------------------------------------------------------------------
(***************************************************************************)
(* The time queue.                                                         *)
(***************************************************************************)
LEMMA EnqueueTimeEffect ==
  ASSUME NEW d, Linked(d), NEW t \in Task, t \notin Timing(d), NEW n \in Nat
  PROVE  LET e == EnqueueTime(d, t, n)
         IN  /\ Linked(e)
             /\ Timing(e) = Timing(d) \cup {t}
             /\ SameScalars(d, e) /\ SameLists(d, e) /\ SameStatus(d, e)
<1> DEFINE e == EnqueueTime(d, t, n)
           a == d.time_q
           p == d.left
           l == OrderedInsert(a, p, t, n)
           pp == [p EXCEPT ![t] = n]
<1>1. d \in Records /\ a \in Seq(Task) /\ p \in [Task -> Nat]
  BY RecordsFields DEF Linked
<1>2. t \notin ToSet(a) /\ NoRepetition(a) /\ IsOrdered(a, p)
  BY DEF Linked, TimeOrdered, Timing
<1>10. e = [d EXCEPT !.time_q = l, !.left = pp]
  BY DEF EnqueueTime
<1>11. a = d.time_q /\ p = d.left
  OBVIOUS
<1> HIDE DEF a, p, e
<1>3. pp \in [Task -> Nat] /\ pp[t] = n
  BY <1>1
\* The keys of the tasks in the queue are the old ones.
<1>4. \A i \in DOMAIN a : a[i] \in ToSet(a) /\ a[i] \in Task /\ pp[a[i]] = p[a[i]]
  <2>1. ASSUME NEW i \in DOMAIN a PROVE a[i] \in ToSet(a) /\ a[i] \in Task
    BY <1>1, LenProperties, ElementOfSeq DEF ToSet
  <2> QED BY <1>1, <1>2, <2>1
<1>5. IsOrdered(a, pp)
  BY <1>2, <1>4 DEF IsOrdered
<1>6. OrderedInsert(a, p, t, n) = OrderedInsert(a, pp, t, n)
  <2>1. DOMAIN a = 1 .. Len(a) /\ Len(a) \in Nat
    BY <1>1, LenProperties
  <2>2. \A i \in 1 .. Len(a) : pp[a[i]] = p[a[i]]
    BY <1>4, <2>1
  <2> HIDE DEF pp
  <2>3. \A i \in 1 .. Len(a) + 1 :
          (/\ \A j \in 1 .. i - 1 : p[a[j]] < n
           /\ i <= Len(a) => n <= p[a[i]])
          <=>
          (/\ \A j \in 1 .. i - 1 : pp[a[j]] < n
           /\ i <= Len(a) => n <= pp[a[i]])
    <3> SUFFICES ASSUME NEW i \in 1 .. Len(a) + 1
                 PROVE  /\ \A j \in 1 .. i - 1 : pp[a[j]] = p[a[j]]
                        /\ i <= Len(a) => pp[a[i]] = p[a[i]]
      BY Zenon
    <3> QED BY <2>1, <2>2
  <2>4. Position(a, p, n) = Position(a, pp, n)
    BY <2>3, Zenon DEF Position
  <2> QED BY <2>4, Zenon DEF OrderedInsert
<1>7. l \in Seq(Task) /\ ToSet(l) = ToSet(a) \cup {t} /\ NoRepetition(l) /\ IsOrdered(l, pp)
  <2> HIDE DEF pp
  <2> DEFINE m == OrderedInsert(a, pp, t, n)
  <2>2. a \in Seq(Task) /\ pp \in [Task -> Nat] /\ pp[t] = n /\ t \notin ToSet(a)
        /\ NoRepetition(a) /\ IsOrdered(a, pp)
    BY <1>1, <1>2, <1>3, <1>5
  <2>1. m \in Seq(Task) /\ ToSet(m) = ToSet(a) \cup {t} /\ NoRepetition(m) /\ IsOrdered(m, pp)
    BY <2>2, OrderedInsertProperties
  <2> QED BY <2>1, <1>6
<1> HIDE DEF l, pp
<1>8. /\ e \in Records
      /\ e.time_q = l /\ e.left = pp
      /\ SameScalars(d, e) /\ SameLists(d, e) /\ SameStatus(d, e)
  BY <1>1, <1>3, <1>7, <1>10 DEF Records, SameScalars, SameLists, SameStatus
<1>9. Linked(e) /\ Timing(e) = Timing(d) \cup {t}
  BY <1>7, <1>8, <1>11 DEF Linked, ListsAgree, TimeOrdered, Timing, SameLists
<1> QED BY <1>8, <1>9 DEF e

(***************************************************************************)
(* mt_dequeue_time takes a task out of the time queue.                     *)
(***************************************************************************)
LEMMA DequeueTimeEffect ==
  ASSUME NEW d, Linked(d), NEW t \in Task
  PROVE  LET e == DequeueTime(d, t)
         IN  /\ Linked(e)
             /\ Timing(e) = Timing(d) \ {t}
             /\ SameScalars(d, e) /\ SameLists(d, e) /\ SameStatus(d, e)
<1>1. CASE t \notin ToSet(d.time_q)
  BY <1>1 DEF DequeueTime, Timing, SameScalars, SameLists, SameStatus
<1>2. CASE t \in ToSet(d.time_q)
  <2> DEFINE e == DequeueTime(d, t)
             a == d.time_q
             p == d.left
             l == Unlink(a, t)
             pp == [p EXCEPT ![t] = 0]
  <2>1. d \in Records /\ a \in Seq(Task) /\ p \in [Task -> Nat]
    BY RecordsFields DEF Linked
  <2>2. t \in ToSet(a) /\ NoRepetition(a) /\ IsOrdered(a, p)
    BY <1>2 DEF Linked, TimeOrdered
  <2>3. e = [d EXCEPT !.time_q = l, !.left = pp] /\ a = d.time_q /\ p = d.left
    BY <1>2 DEF DequeueTime
  <2> HIDE DEF a, p, e
  <2>4. l \in Seq(Task) /\ ToSet(l) = ToSet(a) \ {t} /\ NoRepetition(l) /\ IsOrdered(l, p)
    BY <2>1, <2>2, UnlinkProperties
  <2> HIDE DEF l
  <2>5. pp \in [Task -> Nat] /\ \A i \in DOMAIN l : pp[l[i]] = p[l[i]]
    <3>1. \A i \in DOMAIN l : l[i] \in ToSet(l) /\ l[i] \in Task
      BY <2>4, LenProperties, ElementOfSeq DEF ToSet
    <3> QED BY <2>1, <2>4, <3>1
  <2>6. IsOrdered(l, pp)
    BY <2>4, <2>5 DEF IsOrdered
  <2> HIDE DEF pp
  <2>7. /\ e \in Records
        /\ e.time_q = l /\ e.left = pp
        /\ SameScalars(d, e) /\ SameLists(d, e) /\ SameStatus(d, e)
    BY <2>1, <2>3, <2>4, <2>5 DEF Records, SameScalars, SameLists, SameStatus
  <2>8. Linked(e) /\ Timing(e) = Timing(d) \ {t}
    BY <2>3, <2>4, <2>6, <2>7 DEF Linked, ListsAgree, TimeOrdered, Timing, SameLists
  <2> QED BY <2>7, <2>8 DEF e
<1> QED BY <1>1, <1>2

-----------------------------------------------------------------------------
(***************************************************************************)
(* block() and ready().                                                    *)
(***************************************************************************)
LEMMA BlockEffect ==
  ASSUME NEW d, Linked(d), NEW t \in Task, NEW s \in TaskState
  PROVE  LET e == Block(d, t, s)
         IN  /\ Linked(e)
             /\ e.queue = [d.queue EXCEPT ![t] = NoQueue] /\ e.prio = d.prio
             /\ Timing(e) = Timing(d) \ {t}
             /\ e.state = [d.state EXCEPT ![t] = s] /\ e.success = d.success
             /\ SameScalars(d, e)
<1> DEFINE a == Dequeue(d, t)
           b == DequeueTime(a, t)
           e == [b EXCEPT !.state[t] = s]
<1>1. /\ Linked(a)
      /\ a.queue = [d.queue EXCEPT ![t] = NoQueue] /\ a.prio = d.prio
      /\ SameScalars(d, a) /\ SameTimes(d, a) /\ SameStatus(d, a)
  BY DequeueEffect
<1> HIDE DEF a
<1>2. /\ Linked(b)
      /\ Timing(b) = Timing(a) \ {t}
      /\ SameScalars(a, b) /\ SameLists(a, b) /\ SameStatus(a, b)
  BY <1>1, DequeueTimeEffect
<1> HIDE DEF b
<1>3. b \in Records
  BY <1>2 DEF Linked
<1>4. /\ e \in Records
      /\ e.state = [b.state EXCEPT ![t] = s] /\ e.success = b.success
      /\ SameScalars(b, e) /\ SameLists(b, e) /\ SameTimes(b, e)
  BY <1>3 DEF Records, SameScalars, SameLists, SameTimes
<1>5. Block(d, t, s) = e
  BY DEF Block, a, b
<1> HIDE DEF e
<1>6. Linked(e) /\ Timing(e) = Timing(b)
  BY <1>2, <1>4, LinkedByFields
<1>7. Timing(a) = Timing(d)
  BY <1>1 DEF Timing, SameTimes
<1>8. SameScalars(d, e)
  BY <1>1, <1>2, <1>4 DEF SameScalars
<1>9. /\ e.queue = [d.queue EXCEPT ![t] = NoQueue] /\ e.prio = d.prio
      /\ e.state = [d.state EXCEPT ![t] = s] /\ e.success = d.success
  BY <1>1, <1>2, <1>4 DEF SameLists, SameStatus
<1> QED BY <1>2, <1>5, <1>6, <1>7, <1>8, <1>9

(***************************************************************************)
(* ready() moves a task from wherever it is to the ready queue; if it      *)
(* comes last there, it outranks the others.                               *)
(***************************************************************************)
LEMMA MakeReadyEffect ==
  ASSUME NEW d, Linked(d), NEW t \in Task, NEW ok \in BOOLEAN, d.state[t] # "Ready"
  PROVE  LET e == MakeReady(d, t, ok)
         IN  /\ Linked(e)
             /\ e.queue = [d.queue EXCEPT ![t] = ReadyQ] /\ e.prio = d.prio
             /\ Timing(e) = Timing(d) \ {t}
             /\ e.state = [d.state EXCEPT ![t] = "Ready"]
             /\ e.success = [d.success EXCEPT ![t] = ok]
             /\ SameScalars(d, e)
             /\ PeekLast(e, ReadyQ) = t => Outranks(e, t, ReadyQ)
<1> DEFINE a == Dequeue(d, t)
           b == DequeueTime(a, t)
           c == Enqueue(b, t, ReadyQ)
           e == [c EXCEPT !.success[t] = ok, !.state[t] = "Ready"]
<1>1. /\ Linked(a)
      /\ a.queue = [d.queue EXCEPT ![t] = NoQueue] /\ a.prio = d.prio
      /\ SameScalars(d, a) /\ SameTimes(d, a) /\ SameStatus(d, a)
  BY DequeueEffect
<1> HIDE DEF a
<1>2. /\ Linked(b)
      /\ Timing(b) = Timing(a) \ {t}
      /\ SameScalars(a, b) /\ SameLists(a, b) /\ SameStatus(a, b)
  BY <1>1, DequeueTimeEffect
<1> HIDE DEF b
<1>3. d.queue \in [Task -> Queue \cup {NoQueue}] /\ ReadyQ \in Queue
  BY RecordsFields DEF Linked, Queue
<1>4. b.queue[t] = NoQueue
  BY <1>1, <1>2, <1>3 DEF SameLists
<1>5. /\ Linked(c)
      /\ c.queue = [b.queue EXCEPT ![t] = ReadyQ] /\ c.prio = b.prio
      /\ SameScalars(b, c) /\ SameTimes(b, c) /\ SameStatus(b, c)
      /\ PeekLast(c, ReadyQ) = t => Outranks(c, t, ReadyQ)
  BY <1>2, <1>3, <1>4, EnqueueEffect
<1> HIDE DEF c
<1>6. c \in Records
  BY <1>5 DEF Linked
<1>7. /\ e \in Records
      /\ e.state = [c.state EXCEPT ![t] = "Ready"] /\ e.success = [c.success EXCEPT ![t] = ok]
      /\ SameScalars(c, e) /\ SameLists(c, e) /\ SameTimes(c, e)
  BY <1>6 DEF Records, TaskState, SameScalars, SameLists, SameTimes
<1>8. MakeReady(d, t, ok) = e
  BY DEF MakeReady, a, b, c
<1> HIDE DEF e
<1>9. Linked(e) /\ Timing(e) = Timing(c)
  BY <1>5, <1>7, LinkedByFields
<1>10. Timing(a) = Timing(d) /\ Timing(c) = Timing(b)
  BY <1>1, <1>5 DEF Timing, SameTimes
<1>11. SameScalars(d, e)
  BY <1>1, <1>2, <1>5, <1>7 DEF SameScalars
<1>12. /\ e.queue = [d.queue EXCEPT ![t] = ReadyQ] /\ e.prio = d.prio
       /\ e.state = [d.state EXCEPT ![t] = "Ready"] /\ e.success = [d.success EXCEPT ![t] = ok]
  BY <1>1, <1>2, <1>3, <1>5, <1>7 DEF SameLists, SameStatus
<1>13. PeekLast(e, ReadyQ) = t => Outranks(e, t, ReadyQ)
  BY <1>5, <1>7 DEF PeekLast, Outranks, SameLists
<1> QED BY <1>2, <1>8, <1>9, <1>10, <1>11, <1>12, <1>13

(***************************************************************************)
(* free_terminated(): the terminated queue is emptied.                     *)
(***************************************************************************)
LEMMA FreeTerminatedEffect ==
  ASSUME NEW d, Linked(d)
  PROVE  LET e == FreeTerminated(d)
         IN  /\ Linked(e)
             /\ e.queue = [t \in Task |-> IF d.queue[t] = TerminatedQ THEN NoQueue ELSE d.queue[t]]
             /\ e.state = [t \in Task |-> IF d.queue[t] = TerminatedQ THEN "Freed" ELSE d.state[t]]
             /\ e.prio = d.prio /\ e.success = d.success
             /\ SameScalars(d, e) /\ SameTimes(d, e)
<1> DEFINE e == FreeTerminated(d)
           gone == ToSet(d.list[TerminatedQ])
           fq == [t \in Task |-> IF t \in gone THEN NoQueue ELSE d.queue[t]]
           fs == [t \in Task |-> IF t \in gone THEN "Freed" ELSE d.state[t]]
<1>1. d \in Records /\ TerminatedQ \in Queue
  BY DEF Linked, Queue
<1>2. /\ d.list \in [Queue -> Seq(Task)] /\ d.queue \in [Task -> Queue \cup {NoQueue}]
      /\ d.state \in [Task -> TaskState]
  BY <1>1, RecordsFields
<1>3. \A t \in Task : t \in gone <=> d.queue[t] = TerminatedQ
  BY <1>1 DEF Linked, ListsAgree
<1>4. e = [d EXCEPT !.list[TerminatedQ] = <<>>, !.queue = fq, !.state = fs]
  BY DEF FreeTerminated
<1>5. fq \in [Task -> Queue \cup {NoQueue}] /\ fs \in [Task -> TaskState]
  BY <1>2 DEF TaskState
<1>6. <<>> \in Seq(Task) /\ ToSet(<<>>) = {}
  BY EmptySeq DEF ToSet
<1> HIDE DEF e, fq, fs, gone
<1>7. /\ e \in Records
      /\ e.list = [d.list EXCEPT ![TerminatedQ] = <<>>] /\ e.queue = fq /\ e.state = fs
      /\ e.prio = d.prio /\ e.success = d.success
      /\ SameScalars(d, e) /\ SameTimes(d, e)
  BY <1>1, <1>2, <1>4, <1>5, <1>6 DEF Records, SameScalars, SameTimes
<1>8. ASSUME NEW u \in Task, NEW r \in Queue PROVE u \in ToSet(e.list[r]) <=> e.queue[u] = r
  <2>1. u \in ToSet(d.list[r]) <=> d.queue[u] = r
    BY DEF Linked, ListsAgree
  <2>2. NoQueue # r
    BY KernelStateAssumption
  <2>3. e.list[r] = IF r = TerminatedQ THEN <<>> ELSE d.list[r]
    BY <1>1, <1>2, <1>7
  <2>4. e.queue[u] = IF d.queue[u] = TerminatedQ THEN NoQueue ELSE d.queue[u]
    BY <1>3, <1>7 DEF fq
  <2>5. CASE r = TerminatedQ
    BY <1>6, <2>2, <2>3, <2>4, <2>5
  <2>6. CASE r # TerminatedQ
    BY <2>1, <2>2, <2>3, <2>4, <2>6
  <2> QED BY <2>5, <2>6
<1>9. ASSUME NEW r \in Queue PROVE NoRepetition(e.list[r]) /\ IsOrdered(e.list[r], e.prio)
  <2>1. NoRepetition(d.list[r]) /\ IsOrdered(d.list[r], d.prio)
    BY DEF Linked, ListsAgree
  <2>2. NoRepetition(<<>>) /\ IsOrdered(<<>>, e.prio)
    BY DEF NoRepetition, IsOrdered
  <2>3. e.list[r] = IF r = TerminatedQ THEN <<>> ELSE d.list[r]
    BY <1>1, <1>2, <1>7
  <2> QED BY <1>7, <2>1, <2>2, <2>3
<1>10. Linked(e)
  BY <1>7, <1>8, <1>9 DEF Linked, TimeOrdered, SameTimes, ListsAgree
<1>11. /\ fq = [t \in Task |-> IF d.queue[t] = TerminatedQ THEN NoQueue ELSE d.queue[t]]
       /\ fs = [t \in Task |-> IF d.queue[t] = TerminatedQ THEN "Freed" ELSE d.state[t]]
  BY <1>3 DEF fq, fs
<1> QED BY <1>7, <1>10, <1>11 DEF e

-----------------------------------------------------------------------------
(* Where the tasks of each state are.  It also holds between block() or    *)
(* ready() and the scheduler, when nobody may be current.                  *)
TimedStates == {"Delaying", "Waiting", "Sending", "Receiving"}

Fits(s, q) ==
  /\ s = "Ready" <=> q = ReadyQ
  /\ s = "Terminated" <=> q = TerminatedQ
  /\ s = "Waiting" <=> q \in WaitQ
  /\ s = "Sending" <=> q \in Task

Placed(d) ==
  /\ \A t \in Task : Fits(d.state[t], d.queue[t]) /\ (d.state[t] = "Current" => t = d.curr)
  /\ \A t \in Timing(d) : d.state[t] \in TimedStates
  /\ d.state[Null] \in {"Ready", "Current"}

(* A receiver and a sender that match are not both waiting.                *)
Met(d) ==
  \A s, r \in Task :
    d.queue[s] = r /\ d.state[r] = "Receiving" => d.from[r] \notin {NoTask, s}

Sound(d) == Linked(d) /\ Placed(d) /\ Met(d)

(* The CPU is where the priorities want it.                                *)
Prioritised(d) ==
  d.atomic[d.curr] = 0 =>
    \A r \in Task : d.state[r] = "Ready" =>
      IF d.run > 0 THEN d.prio[r] <= d.prio[d.curr] ELSE d.prio[r] < d.prio[d.curr]

(* If the current task was put back in the ready queue, it stands behind   *)
(* nobody but those of a lower priority or is not the last.                *)
GaveWay(d) ==
  d.state[d.curr] = "Ready" /\ PeekLast(d, ReadyQ) = d.curr => Outranks(d, d.curr, ReadyQ)

(* What mt_select_task does to the tasks: it moves the CPU among those     *)
(* that are ready, and makes nobody's wait a success.                      *)
Selected(d, s) ==
  /\ s.prio = d.prio /\ s.from = d.from /\ s.atomic = d.atomic /\ s.disint = d.disint
  /\ s.fpu = d.fpu /\ s.math = d.math
  /\ \A t \in Task :
       /\ s.queue[t] = d.queue[t] \/ s.queue[t] \in {NoQueue, ReadyQ}
       /\ s.state[t] = d.state[t] \/ {s.state[t], d.state[t]} \subseteq {"Ready", "Current"}
       /\ s.success[t] => d.success[t]
  /\ ~ s.ts => s.fpu = s.curr \/ (s.curr = d.curr /\ ~ d.ts)

-----------------------------------------------------------------------------
(* The kinds of queue are apart from one another.                          *)
LEMMA QueueKinds ==
  /\ ReadyQ \in Queue /\ TerminatedQ \in Queue /\ WaitQ \subseteq Queue /\ Task \subseteq Queue
  /\ WaitQ \cap Task = {} /\ ReadyQ \notin Task /\ ReadyQ \notin WaitQ
  /\ TerminatedQ \notin Task /\ TerminatedQ \notin WaitQ /\ TerminatedQ # ReadyQ
  /\ NoQueue \notin Task /\ NoQueue \notin WaitQ /\ NoQueue # ReadyQ /\ NoQueue # TerminatedQ
  /\ NoTask \notin Task /\ NoTask \notin WaitQ /\ Null \in Task /\ Main \in Task
BY KernelStateAssumption DEF Queue

(***************************************************************************)
(* The last ready task gets the CPU nobody has.                            *)
(***************************************************************************)
LEMMA TakeNextEffect ==
  ASSUME NEW d, Sound(d), d.state[d.curr] # "Current", GaveWay(d)
  PROVE  LET s == TakeNext(d)
         IN  /\ Sound(s) /\ s.state[s.curr] = "Current"
             /\ Selected(d, s)
             /\ Prioritised(s)
<1> DEFINE n == PeekLast(d, ReadyQ)
           g == GetLast(d, ReadyQ)
           s == TakeNext(d)
<1>1. Linked(d) /\ d \in Records
  BY DEF Sound, Linked
<1>2. d.queue[Null] = ReadyQ
  BY <1>1, QueueKinds, RecordsFields DEF Sound, Placed, Fits
<1>3. d.list[ReadyQ] # <<>> /\ n \in Task /\ d.queue[n] = ReadyQ
      /\ \A u \in Task : d.queue[u] = ReadyQ => d.prio[u] <= d.prio[n]
  BY <1>1, <1>2, QueueKinds, LastOfList
<1>4. /\ Linked(g)
      /\ g.queue = [d.queue EXCEPT ![n] = NoQueue] /\ g.prio = d.prio
      /\ SameScalars(d, g) /\ SameTimes(d, g) /\ SameStatus(d, g)
  BY <1>1, <1>3, QueueKinds, GetLastEffect
<1>5. s = [g EXCEPT !.curr = n, !.state[n] = "Current",
                    !.ts = IF n = d.curr THEN @ ELSE n # d.fpu,
                    !.run = IF n = d.curr THEN @ ELSE QUANTUM]
  BY <1>4 DEF TakeNext, SameScalars
<1> HIDE DEF g, s
<1>6. g \in Records /\ QUANTUM \in 0 .. QUANTUM /\ QUANTUM > 0
  BY <1>4, KernelStateAssumption DEF Linked
<1>20. n = PeekLast(d, ReadyQ)
  OBVIOUS
<1> HIDE DEF n
<1>7. /\ s \in Records
      /\ SameLists(g, s) /\ SameTimes(g, s) /\ s.success = g.success /\ s.from = g.from
      /\ s.atomic = g.atomic /\ s.disint = g.disint /\ s.fpu = g.fpu /\ s.math = g.math
      /\ s.curr = n /\ s.state = [g.state EXCEPT ![n] = "Current"]
      /\ s.ts = (IF n = d.curr THEN g.ts ELSE n # d.fpu)
      /\ s.run = (IF n = d.curr THEN g.run ELSE QUANTUM)
  BY <1>3, <1>5, <1>6 DEF Records, TaskState, SameLists, SameTimes
<1>8. Linked(s) /\ Timing(s) = Timing(d)
  <2>1. Timing(g) = Timing(d)
    BY <1>4 DEF Timing, SameTimes
  <2> QED BY <1>4, <1>7, <2>1, LinkedByFields
<1>9. /\ s.queue = [d.queue EXCEPT ![n] = NoQueue] /\ s.prio = d.prio
      /\ s.state = [d.state EXCEPT ![n] = "Current"] /\ s.success = d.success
      /\ s.from = d.from /\ s.atomic = d.atomic /\ s.disint = d.disint /\ s.fpu = d.fpu
      /\ s.math = d.math
      /\ s.ts = (IF n = d.curr THEN d.ts ELSE n # d.fpu)
      /\ s.run = (IF n = d.curr THEN d.run ELSE QUANTUM)
  BY <1>4, <1>7 DEF SameLists, SameScalars, SameStatus
<1>10. d.state \in [Task -> TaskState] /\ d.queue \in [Task -> Queue \cup {NoQueue}] /\ d.curr \in Task
       /\ d.prio \in [Task -> Nat] /\ d.run \in Nat /\ d.from \in [Task -> Task \cup {NoTask}]
       /\ Timing(d) \subseteq Task
  BY <1>1, RecordsFields, TimingTasks
<1>11. d.state[n] = "Ready"
  BY <1>3 DEF Sound, Placed, Fits
<1>12. Placed(s)
  <2>1. ASSUME NEW t \in Task
        PROVE  Fits(s.state[t], s.queue[t]) /\ (s.state[t] = "Current" => t = s.curr)
    <3>1. Fits(d.state[t], d.queue[t]) /\ (d.state[t] = "Current" => t = d.curr)
      BY DEF Sound, Placed
    <3>2. CASE t = n
      BY <1>7, <1>9, <1>10, <3>2, QueueKinds DEF Fits
    <3>3. CASE t # n
      BY <1>7, <1>9, <1>10, <3>1, <3>3
    <3> QED BY <3>2, <3>3
  <2>2. ASSUME NEW t \in Timing(s) PROVE s.state[t] \in TimedStates
    BY <1>8, <1>9, <1>10, <1>11 DEF Sound, Placed, TimedStates
  <2>3. s.state[Null] \in {"Ready", "Current"}
    BY <1>9, <1>10, QueueKinds DEF Sound, Placed, Fits
  <2> QED BY <2>1, <2>2, <2>3 DEF Placed
<1>13. Met(s)
  <2> SUFFICES ASSUME NEW a \in Task, NEW r \in Task, s.queue[a] = r, s.state[r] = "Receiving"
               PROVE  s.from[r] \notin {NoTask, a}
    BY DEF Met
  <2>1. d.queue[a] = r /\ d.state[r] = "Receiving"
    BY <1>9, <1>10, QueueKinds
  <2> QED BY <1>9, <2>1 DEF Sound, Met
<1>14. s.state[s.curr] = "Current"
  BY <1>3, <1>7, <1>9, <1>10
<1>15. Selected(d, s)
  <2>1. ASSUME NEW t \in Task
        PROVE  /\ s.queue[t] = d.queue[t] \/ s.queue[t] \in {NoQueue, ReadyQ}
               /\ s.state[t] = d.state[t] \/ {s.state[t], d.state[t]} \subseteq {"Ready", "Current"}
               /\ s.success[t] => d.success[t]
    BY <1>9, <1>10, <1>11
  <2>2. ~ s.ts => s.fpu = s.curr \/ (s.curr = d.curr /\ ~ d.ts)
    BY <1>7, <1>9
  <2> QED BY <1>9, <2>1, <2>2 DEF Selected
<1>16. Prioritised(s)
  <2> SUFFICES ASSUME NEW r \in Task, s.state[r] = "Ready"
               PROVE  IF s.run > 0 THEN s.prio[r] <= s.prio[s.curr] ELSE s.prio[r] < s.prio[s.curr]
    BY DEF Prioritised
  <2>1. r # n /\ d.queue[r] = ReadyQ
    BY <1>9, <1>10 DEF Sound, Placed, Fits
  <2>2. CASE n = d.curr
    <3>1. Outranks(d, n, ReadyQ)
      BY <1>11, <1>20, <2>2 DEF GaveWay
    <3> QED BY <1>7, <1>9, <1>10, <1>3, <2>1, <3>1 DEF Outranks
  <2>3. CASE n # d.curr
    BY <1>3, <1>6, <1>7, <1>9, <1>10, <2>1, <2>3
  <2> QED BY <2>2, <2>3
<1> QED BY <1>8, <1>12, <1>13, <1>14, <1>15, <1>16 DEF Sound, s

(***************************************************************************)
(* One task t moves to queue q and state s: everybody's place is right if  *)
(* t's is.                                                                 *)
(***************************************************************************)
LEMMA MoveKeeps ==
  ASSUME NEW d, Sound(d), NEW e, Linked(e), NEW t \in Task, NEW s, NEW q,
         e.queue = [d.queue EXCEPT ![t] = q], e.state = [d.state EXCEPT ![t] = s],
         e.curr = d.curr, Fits(s, q), s = "Current" => t = d.curr,
         t = Null => s \in {"Ready", "Current"},
         Timing(e) \subseteq Timing(d) \cup {t}, t \in Timing(e) => s \in TimedStates,
         \A r \in Task \ {t} : e.from[r] = d.from[r],
         s = "Receiving" => \A a \in Task : e.queue[a] = t => e.from[t] \notin {NoTask, a},
         q \in Task /\ e.state[q] = "Receiving" => e.from[q] \notin {NoTask, t}
  PROVE  Sound(e)
<1>1. d \in Records
  BY DEF Sound, Linked
<1>2. d.state \in [Task -> TaskState] /\ d.queue \in [Task -> Queue \cup {NoQueue}]
  BY <1>1, RecordsFields
<1>3. \A x \in Task : /\ e.state[x] = IF x = t THEN s ELSE d.state[x]
                      /\ e.queue[x] = IF x = t THEN q ELSE d.queue[x]
  BY <1>2
<1>4. Timing(d) \subseteq Task
  BY <1>1, TimingTasks
<1>5. Placed(e)
  <2>1. ASSUME NEW x \in Task
        PROVE  Fits(e.state[x], e.queue[x]) /\ (e.state[x] = "Current" => x = e.curr)
    <3>1. Fits(d.state[x], d.queue[x]) /\ (d.state[x] = "Current" => x = d.curr)
      BY DEF Sound, Placed
    <3>2. CASE x = t
      BY <1>3, <3>2
    <3>3. CASE x # t
      BY <1>3, <3>1, <3>3
    <3> QED BY <3>2, <3>3
  <2>2. ASSUME NEW x \in Timing(e) PROVE e.state[x] \in TimedStates
    BY <1>3, <1>4 DEF Sound, Placed
  <2>3. e.state[Null] \in {"Ready", "Current"}
    BY <1>3, QueueKinds DEF Sound, Placed
  <2> QED BY <2>1, <2>2, <2>3 DEF Placed
<1>6. Met(e)
  <2> SUFFICES ASSUME NEW a \in Task, NEW r \in Task, e.queue[a] = r, e.state[r] = "Receiving"
               PROVE  e.from[r] \notin {NoTask, a}
    BY DEF Met
  <2>1. CASE r = t
    BY <1>3, <2>1
  <2>2. CASE r # t /\ a = t
    BY <1>3, <2>2
  <2>3. CASE r # t /\ a # t
    BY <1>3, <2>3 DEF Sound, Met
  <2> QED BY <2>1, <2>2, <2>3
<1> QED BY <1>5, <1>6 DEF Sound

(***************************************************************************)
(* ready() on any task.                                                    *)
(***************************************************************************)
LEMMA MakeReadyKeeps ==
  ASSUME NEW d, Sound(d), NEW t \in Task, NEW ok \in BOOLEAN
  PROVE  LET e == MakeReady(d, t, ok)
         IN  /\ Sound(e) /\ e.prio = d.prio /\ SameScalars(d, e)
             /\ e.queue = [d.queue EXCEPT ![t] = ReadyQ]
             /\ e.state = [d.state EXCEPT ![t] = "Ready"]
             /\ \A x \in Task \ {t} : e.success[x] = d.success[x]
             /\ d.state[t] # "Ready" => e.success[t] = ok
             /\ d.state[t] = "Ready" => e = d
             /\ d.state[d.curr] = "Current" => GaveWay(e)
<1> DEFINE e == MakeReady(d, t, ok)
<1>1. Linked(d) /\ d \in Records
  BY DEF Sound, Linked
<1>2. /\ d.state \in [Task -> TaskState] /\ d.queue \in [Task -> Queue \cup {NoQueue}]
      /\ d.success \in [Task -> BOOLEAN] /\ d.curr \in Task
  BY <1>1, RecordsFields
<1>3. CASE d.state[t] = "Ready"
  <2>1. e = d
    BY <1>3 DEF MakeReady
  <2>2. d.queue[t] = ReadyQ
    BY <1>3 DEF Sound, Placed, Fits
  <2> HIDE DEF e
  <2>3. d.queue = [d.queue EXCEPT ![t] = ReadyQ] /\ d.state = [d.state EXCEPT ![t] = "Ready"]
    BY <1>2, <1>3, <2>2
  <2>4. d.state[d.curr] = "Current" => GaveWay(d)
    BY DEF GaveWay
  <2>5. SameScalars(d, e)
    BY <2>1 DEF SameScalars
  <2>6. /\ Sound(e) /\ e.prio = d.prio
        /\ e.queue = [d.queue EXCEPT ![t] = ReadyQ]
        /\ e.state = [d.state EXCEPT ![t] = "Ready"]
        /\ \A x \in Task \ {t} : e.success[x] = d.success[x]
        /\ d.state[d.curr] = "Current" => GaveWay(e)
    BY <2>1, <2>3, <2>4
  <2> QED BY <1>3, <2>1, <2>5, <2>6 DEF e
<1>4. CASE d.state[t] # "Ready"
  <2>1. /\ Linked(e)
        /\ e.queue = [d.queue EXCEPT ![t] = ReadyQ] /\ e.prio = d.prio
        /\ Timing(e) = Timing(d) \ {t}
        /\ e.state = [d.state EXCEPT ![t] = "Ready"]
        /\ e.success = [d.success EXCEPT ![t] = ok]
        /\ SameScalars(d, e)
        /\ PeekLast(e, ReadyQ) = t => Outranks(e, t, ReadyQ)
    BY <1>1, <1>4, MakeReadyEffect
  <2> HIDE DEF e
  <2>2. e.curr = d.curr /\ e.from = d.from
    BY <2>1 DEF SameScalars
  <2>3. Fits("Ready", ReadyQ)
    BY QueueKinds DEF Fits
  <2>4. Sound(e)
    BY <2>1, <2>2, <2>3, QueueKinds, MoveKeeps
  <2>5. d.state[d.curr] = "Current" => GaveWay(e)
    BY <1>2, <2>1, <2>2 DEF GaveWay
  <2>6. e.success[t] = ok /\ \A x \in Task \ {t} : e.success[x] = d.success[x]
    BY <1>2, <2>1
  <2> QED BY <1>4, <2>1, <2>4, <2>5, <2>6 DEF e
<1> QED BY <1>3, <1>4

(***************************************************************************)
(* The scheduler.                                                          *)
(***************************************************************************)
LEMMA SelectEffect ==
  ASSUME NEW d, Sound(d), GaveWay(d)
  PROVE  LET s == Select(d)
         IN  /\ Sound(s) /\ s.state[s.curr] = "Current"
             /\ Selected(d, s)
             /\ Prioritised(s)
             /\ d.state[d.curr] = "Current" /\ d.atomic[d.curr] > 0 => s = d
<1> DEFINE s == Select(d)
<1>1. Linked(d) /\ d \in Records
  BY DEF Sound, Linked
<1>2. /\ d.state \in [Task -> TaskState] /\ d.queue \in [Task -> Queue \cup {NoQueue}]
      /\ d.success \in [Task -> BOOLEAN] /\ d.curr \in Task /\ d.prio \in [Task -> Nat]
      /\ d.run \in Nat /\ d.atomic \in [Task -> Nat]
  BY <1>1, RecordsFields
<1>3. CASE KeepsCPU(d)
  <2>1. s = d
    BY <1>3 DEF Select
  <2>2. d.state[d.curr] = "Current"
    BY <1>3 DEF KeepsCPU
  <2>3. Selected(d, d)
    BY DEF Selected
  <2>4. Prioritised(d)
    <3> SUFFICES ASSUME d.atomic[d.curr] = 0, NEW r \in Task, d.state[r] = "Ready"
                 PROVE  IF d.run > 0 THEN d.prio[r] <= d.prio[d.curr] ELSE d.prio[r] < d.prio[d.curr]
      BY DEF Prioritised
    <3> DEFINE n == PeekLast(d, ReadyQ)
    <3>1. d.queue[r] = ReadyQ
      BY DEF Sound, Placed, Fits
    <3>2. d.list[ReadyQ] # <<>> /\ n \in Task /\ d.prio[r] <= d.prio[n]
      BY <1>1, <3>1, QueueKinds, LastOfList
    <3> HIDE DEF n
    <3>3. d.prio[n] < d.prio[d.curr] \/ (d.prio[n] = d.prio[d.curr] /\ d.run > 0)
      BY <1>2, <1>3, <3>2 DEF KeepsCPU, n
    <3> QED BY <1>2, <3>2, <3>3
  <2> HIDE DEF s
  <2> QED BY <2>1, <2>2, <2>3, <2>4 DEF s
<1>4. CASE ~ KeepsCPU(d) /\ d.state[d.curr] = "Current"
  <2> DEFINE e == MakeReady(d, d.curr, FALSE)
  <2>1. /\ Sound(e) /\ e.prio = d.prio /\ SameScalars(d, e)
        /\ e.queue = [d.queue EXCEPT ![d.curr] = ReadyQ]
        /\ e.state = [d.state EXCEPT ![d.curr] = "Ready"]
        /\ \A x \in Task \ {d.curr} : e.success[x] = d.success[x]
        /\ e.success[d.curr] = FALSE
        /\ GaveWay(e)
    BY <1>2, <1>4, MakeReadyKeeps
  <2>2. s = TakeNext(e)
    BY <1>4 DEF Select
  <2> HIDE DEF e, s
  <2>3. e.curr = d.curr /\ e.state[e.curr] # "Current"
    BY <1>2, <2>1 DEF SameScalars
  <2>4. /\ Sound(s) /\ s.state[s.curr] = "Current"
        /\ Selected(e, s)
        /\ Prioritised(s)
    BY <2>1, <2>2, <2>3, TakeNextEffect
  <2>5. Selected(d, s)
    <3>1. ASSUME NEW t \in Task
          PROVE  /\ s.queue[t] = d.queue[t] \/ s.queue[t] \in {NoQueue, ReadyQ}
                 /\ s.state[t] = d.state[t] \/ {s.state[t], d.state[t]} \subseteq {"Ready", "Current"}
                 /\ s.success[t] => d.success[t]
      <4>1. /\ s.queue[t] = e.queue[t] \/ s.queue[t] \in {NoQueue, ReadyQ}
            /\ s.state[t] = e.state[t] \/ {s.state[t], e.state[t]} \subseteq {"Ready", "Current"}
            /\ s.success[t] => e.success[t]
        BY <2>4 DEF Selected
      <4>2. CASE t = d.curr
        BY <1>2, <1>4, <2>1, <4>1, <4>2
      <4>3. CASE t # d.curr
        BY <1>2, <2>1, <4>1, <4>3
      <4> QED BY <4>2, <4>3
    <3>2. /\ s.prio = d.prio /\ s.from = d.from /\ s.atomic = d.atomic /\ s.disint = d.disint
          /\ s.fpu = d.fpu /\ s.math = d.math
      BY <2>1, <2>4 DEF Selected, SameScalars
    <3>3. ~ s.ts => s.fpu = s.curr \/ (s.curr = d.curr /\ ~ d.ts)
      BY <2>1, <2>4 DEF Selected, SameScalars
    <3> QED BY <3>1, <3>2, <3>3 DEF Selected
  <2>6. ~ (d.atomic[d.curr] > 0)
    BY <1>4 DEF KeepsCPU
  <2> QED BY <2>4, <2>5, <2>6 DEF s
<1>5. CASE d.state[d.curr] # "Current"
  <2>1. s = TakeNext(d)
    BY <1>5 DEF Select, KeepsCPU
  <2> QED BY <1>5, <2>1, TakeNextEffect
<1> QED BY <1>3, <1>4, <1>5

-----------------------------------------------------------------------------
(***************************************************************************)
(* Nothing moves.                                                          *)
(***************************************************************************)
LEMMA SoundByPlaces ==
  ASSUME NEW d, Sound(d), NEW e, Linked(e), e.queue = d.queue, e.state = d.state,
         e.curr = d.curr, e.from = d.from, Timing(e) = Timing(d)
  PROVE  Sound(e)
BY DEF Sound, Placed, Met

(***************************************************************************)
(* Whether the data is sound depends on nothing but these fields.          *)
(***************************************************************************)
LEMMA SoundByFields ==
  ASSUME NEW d, Sound(d), NEW e \in Records, SameLists(d, e), SameTimes(d, e),
         e.state = d.state, e.curr = d.curr, e.from = d.from
  PROVE  Sound(e)
<1>1. Linked(e) /\ Timing(e) = Timing(d)
  BY LinkedByFields DEF Sound
<1> QED BY <1>1, SoundByPlaces DEF SameLists

(* An order depends on the keys of the elements alone.                     *)
LEMMA OrderByKeys ==
  ASSUME NEW S, NEW q \in Seq(S), NEW key, NEW key2, IsOrdered(q, key),
         \A x \in ToSet(q) : key2[x] = key[x]
  PROVE  IsOrdered(q, key2)
BY LenProperties DEF IsOrdered, ToSet

(* A new priority for a task that is in no queue.                          *)
LEMMA SetPrioEffect ==
  ASSUME NEW d, Linked(d), NEW t \in Task, d.queue[t] = NoQueue, NEW p \in Priority,
         NEW e \in Records, e.prio = [d.prio EXCEPT ![t] = p], e.list = d.list, e.queue = d.queue,
         SameTimes(d, e)
  PROVE  Linked(e)
<1>1. d.list \in [Queue -> Seq(Task)] /\ d.prio \in [Task -> Priority]
  BY RecordsFields DEF Linked
<1>2. ASSUME NEW q \in Queue PROVE IsOrdered(e.list[q], e.prio)
  <2> DEFINE a == d.list[q]
             p1 == d.prio
             p2 == e.prio
  <2>1. a \in Seq(Task) /\ ToSet(a) \subseteq Task
    BY <1>1, LenProperties, ElementOfSeq DEF ToSet
  <2>2. t \notin ToSet(a)
    BY OffAllLists
  <2>3. \A x \in ToSet(a) : p2[x] = p1[x]
    BY <1>1, <2>1, <2>2
  <2>4. IsOrdered(a, p1)
    BY DEF Linked, ListsAgree
  <2> HIDE DEF a, p1, p2
  <2>5. IsOrdered(a, p2)
    BY <2>1, <2>3, <2>4, OrderByKeys
  <2> QED BY <2>5 DEF a, p2
<1> QED BY <1>2 DEF Linked, ListsAgree, TimeOrdered, SameTimes

(* SetPriority: the task leaves its queue and enters it again.             *)
SetPrio(d, t, p) ==
  LET q == d.queue[t]
      a == [Dequeue(d, t) EXCEPT !.prio[t] = p]
  IN  IF q = NoQueue THEN a ELSE Enqueue(a, t, q)

(***************************************************************************)
(* SetPriority changes the priority of the task and nothing but the order  *)
(* of lists.                                                               *)
(***************************************************************************)
LEMMA SetPrioKeeps ==
  ASSUME NEW d, Sound(d), NEW t \in Task, NEW p \in Priority
  PROVE  LET e == SetPrio(d, t, p)
         IN  /\ Sound(e) /\ SameScalars(d, e) /\ SameStatus(d, e)
             /\ e.queue = d.queue /\ e.prio = [d.prio EXCEPT ![t] = p]
<1> DEFINE q == d.queue[t]
           b == Dequeue(d, t)
           a == [b EXCEPT !.prio[t] = p]
           e == SetPrio(d, t, p)
<1>1. Linked(d) /\ d \in Records
  BY DEF Sound, Linked
<1>2. d.queue \in [Task -> Queue \cup {NoQueue}]
  BY <1>1, RecordsFields
<1>3. /\ Linked(b)
      /\ b.queue = [d.queue EXCEPT ![t] = NoQueue] /\ b.prio = d.prio
      /\ SameScalars(d, b) /\ SameTimes(d, b) /\ SameStatus(d, b)
  BY <1>1, DequeueEffect
<1>4. e = IF q = NoQueue THEN a ELSE Enqueue(a, t, q)
  BY DEF SetPrio
<1> HIDE DEF b, e
<1>5. b \in Records
  BY <1>3 DEF Linked
<1>6. /\ a \in Records /\ a.prio = [b.prio EXCEPT ![t] = p] /\ a.list = b.list /\ a.queue = b.queue
      /\ SameScalars(b, a) /\ SameTimes(b, a) /\ SameStatus(b, a)
  BY <1>5 DEF Records, SameScalars, SameTimes, SameStatus
<1> HIDE DEF a
<1>7. b.queue[t] = NoQueue
  BY <1>2, <1>3
<1>8. Linked(a)
  BY <1>3, <1>6, <1>7, SetPrioEffect
<1>9. /\ Linked(e) /\ e.queue = d.queue /\ e.prio = a.prio
      /\ SameScalars(a, e) /\ SameTimes(a, e) /\ SameStatus(a, e)
  <2>1. CASE q = NoQueue
    <3>1. e = a
      BY <1>4, <2>1
    <3>2. a.queue = d.queue
      BY <1>2, <1>3, <1>6, <2>1
    <3> QED BY <1>8, <3>1, <3>2 DEF SameScalars, SameTimes, SameStatus
  <2>2. CASE q # NoQueue
    <3>1. q \in Queue /\ a.queue[t] = NoQueue /\ e = Enqueue(a, t, q) /\ q = d.queue[t]
      BY <1>2, <1>4, <1>6, <1>7, <2>2
    <3> HIDE DEF q
    <3>2. /\ Linked(e)
          /\ e.queue = [a.queue EXCEPT ![t] = q] /\ e.prio = a.prio
          /\ SameScalars(a, e) /\ SameTimes(a, e) /\ SameStatus(a, e)
      BY <1>8, <3>1, EnqueueEffect
    <3>3. e.queue = d.queue
      BY <1>2, <1>3, <1>6, <3>1, <3>2
    <3> QED BY <3>2, <3>3
  <2> QED BY <2>1, <2>2
<1>10. SameScalars(d, e) /\ SameStatus(d, e) /\ Timing(e) = Timing(d) /\ e.prio = [d.prio EXCEPT ![t] = p]
  BY <1>3, <1>6, <1>9 DEF SameScalars, SameTimes, SameStatus, Timing
<1>11. Sound(e)
  BY <1>9, <1>10, SoundByPlaces DEF SameScalars, SameStatus
<1> QED BY <1>9, <1>10, <1>11 DEF e

(***************************************************************************)
(* Waking the last task of a queue that tasks wait in.                     *)
(***************************************************************************)
LEMMA WakeLastKeeps ==
  ASSUME NEW d, Sound(d), NEW q \in Task \cup WaitQ, d.list[q] # <<>>, NEW ok \in BOOLEAN
  PROVE  LET u == PeekLast(d, q)
             e == MakeReady(GetLast(d, q), u, ok)
         IN  /\ u \in Task /\ d.queue[u] = q /\ d.state[u] \in {"Waiting", "Sending"}
             /\ Sound(e) /\ e.prio = d.prio /\ SameScalars(d, e)
             /\ e.queue = [d.queue EXCEPT ![u] = ReadyQ]
             /\ e.state = [d.state EXCEPT ![u] = "Ready"]
             /\ e.success = [d.success EXCEPT ![u] = ok]
             /\ d.state[d.curr] = "Current" => GaveWay(e)
<1> DEFINE u == PeekLast(d, q)
           g == GetLast(d, q)
           e == MakeReady(g, u, ok)
<1>1. Linked(d) /\ d \in Records /\ q \in Queue
  BY QueueKinds DEF Sound, Linked
<1>2. /\ d.state \in [Task -> TaskState] /\ d.queue \in [Task -> Queue \cup {NoQueue}] /\ d.curr \in Task
  BY <1>1, RecordsFields
<1>3. u \in Task /\ d.queue[u] = q
  BY <1>1, LastOfList
<1>4. d.state[u] \in {"Waiting", "Sending"}
  BY <1>3 DEF Sound, Placed, Fits
<1>5. /\ Linked(g)
      /\ g.queue = [d.queue EXCEPT ![u] = NoQueue] /\ g.prio = d.prio
      /\ SameScalars(d, g) /\ SameTimes(d, g) /\ SameStatus(d, g)
  BY <1>1, GetLastEffect
<1>20. u = PeekLast(d, q)
  OBVIOUS
<1> HIDE DEF u, g
<1>6. g.state[u] # "Ready"
  BY <1>4, <1>5 DEF SameStatus
<1>7. /\ Linked(e)
      /\ e.queue = [g.queue EXCEPT ![u] = ReadyQ] /\ e.prio = g.prio
      /\ Timing(e) = Timing(g) \ {u}
      /\ e.state = [g.state EXCEPT ![u] = "Ready"]
      /\ e.success = [g.success EXCEPT ![u] = ok]
      /\ SameScalars(g, e)
      /\ PeekLast(e, ReadyQ) = u => Outranks(e, u, ReadyQ)
  BY <1>3, <1>5, <1>6, MakeReadyEffect
<1> HIDE DEF e
<1>8. /\ e.queue = [d.queue EXCEPT ![u] = ReadyQ] /\ e.prio = d.prio
      /\ e.state = [d.state EXCEPT ![u] = "Ready"] /\ e.success = [d.success EXCEPT ![u] = ok]
      /\ SameScalars(d, e) /\ Timing(e) = Timing(d) \ {u}
  BY <1>2, <1>5, <1>7 DEF SameScalars, SameStatus, SameTimes, Timing
<1>9. e.curr = d.curr /\ e.from = d.from
  BY <1>8 DEF SameScalars
<1>10. Fits("Ready", ReadyQ) /\ u # Null
  BY <1>4, QueueKinds DEF Fits, Sound, Placed
<1>11. Sound(e)
  BY <1>3, <1>7, <1>8, <1>9, <1>10, QueueKinds, MoveKeeps, ZenonT(40)
<1>12. d.state[d.curr] = "Current" => GaveWay(e)
  BY <1>2, <1>3, <1>4, <1>8, <1>9 DEF GaveWay
<1> QED BY <1>3, <1>4, <1>8, <1>11, <1>12 DEF u, e, g

(* The states without a queue that block() is called with.                 *)
Unqueued == {"Suspended", "Delaying", "Freed"}

(***************************************************************************)
(* A task other than the null task may be blocked, suspended or freed.     *)
(***************************************************************************)
LEMMA BlockKeeps ==
  ASSUME NEW d, Sound(d), NEW t \in Task, t # Null, NEW s \in Unqueued
  PROVE  LET e == Block(d, t, s)
         IN  /\ Sound(e) /\ e.prio = d.prio /\ SameScalars(d, e)
             /\ e.queue = [d.queue EXCEPT ![t] = NoQueue]
             /\ e.state = [d.state EXCEPT ![t] = s] /\ e.success = d.success
             /\ Timing(e) = Timing(d) \ {t}
             /\ d.state[d.curr] = "Current" => GaveWay(e)
<1> DEFINE e == Block(d, t, s)
<1>1. Linked(d) /\ s \in TaskState
  BY DEF Sound, TaskState, Unqueued
<1>2. /\ Linked(e)
      /\ e.queue = [d.queue EXCEPT ![t] = NoQueue] /\ e.prio = d.prio
      /\ Timing(e) = Timing(d) \ {t}
      /\ e.state = [d.state EXCEPT ![t] = s] /\ e.success = d.success
      /\ SameScalars(d, e)
  BY <1>1, BlockEffect
<1> HIDE DEF e
<1>3. e.curr = d.curr /\ e.from = d.from
  BY <1>2 DEF SameScalars
<1>4. Fits(s, NoQueue) /\ s \notin {"Current", "Receiving", "Ready"}
  BY QueueKinds DEF Fits, Unqueued
<1>5. Sound(e)
  BY <1>2, <1>3, <1>4, QueueKinds, MoveKeeps
<1>6. d.state[d.curr] = "Current" => GaveWay(e)
  <2>1. d.curr \in Task /\ d.state \in [Task -> TaskState]
    BY RecordsFields DEF Sound, Linked
  <2> QED BY <1>2, <1>3, <1>4, <2>1 DEF GaveWay
<1> QED BY <1>2, <1>5, <1>6 DEF e

(***************************************************************************)
(* free_terminated frees the tasks in the terminated queue and no other.   *)
(***************************************************************************)
LEMMA FreeTerminatedKeeps ==
  ASSUME NEW d, Sound(d)
  PROVE  LET e == FreeTerminated(d)
         IN  /\ Sound(e) /\ e.prio = d.prio /\ e.success = d.success /\ SameScalars(d, e)
             /\ \A t \in Task :
                  /\ d.queue[t] = TerminatedQ => e.queue[t] = NoQueue /\ e.state[t] = "Freed"
                  /\ d.queue[t] # TerminatedQ => e.queue[t] = d.queue[t] /\ e.state[t] = d.state[t]
<1> DEFINE e == FreeTerminated(d)
<1>1. Linked(d)
  BY DEF Sound
<1>2. /\ Linked(e)
      /\ e.queue = [t \in Task |-> IF d.queue[t] = TerminatedQ THEN NoQueue ELSE d.queue[t]]
      /\ e.state = [t \in Task |-> IF d.queue[t] = TerminatedQ THEN "Freed" ELSE d.state[t]]
      /\ e.prio = d.prio /\ e.success = d.success
      /\ SameScalars(d, e) /\ SameTimes(d, e)
  BY <1>1, FreeTerminatedEffect
<1> HIDE DEF e
<1>3. e.curr = d.curr /\ e.from = d.from /\ Timing(e) = Timing(d)
  BY <1>2 DEF SameScalars, SameTimes, Timing
<1>4. ASSUME NEW t \in Task
      PROVE  /\ d.queue[t] = TerminatedQ => e.queue[t] = NoQueue /\ e.state[t] = "Freed"
             /\ d.queue[t] # TerminatedQ => e.queue[t] = d.queue[t] /\ e.state[t] = d.state[t]
  BY <1>2
<1>5. ASSUME NEW t \in Task
      PROVE  Fits(e.state[t], e.queue[t]) /\ (e.state[t] = "Current" => t = e.curr)
  <2>1. Fits(d.state[t], d.queue[t]) /\ (d.state[t] = "Current" => t = d.curr)
    BY DEF Sound, Placed
  <2>2. Fits("Freed", NoQueue)
    BY QueueKinds DEF Fits
  <2> QED BY <1>3, <1>4, <2>1, <2>2
<1>6. ASSUME NEW t \in Timing(e) PROVE e.state[t] \in TimedStates
  <2>1. t \in Task
    BY <1>1, <1>3, TimingTasks DEF Linked
  <2>2. d.state[t] \in TimedStates /\ Fits(d.state[t], d.queue[t])
    BY <1>3, <2>1 DEF Sound, Placed
  <2> QED BY <1>4, <2>1, <2>2 DEF Fits, TimedStates
<1>7. e.state[Null] \in {"Ready", "Current"}
  <2>1. d.state[Null] \in {"Ready", "Current"} /\ Fits(d.state[Null], d.queue[Null])
    BY QueueKinds DEF Sound, Placed
  <2> QED BY <1>4, <2>1, QueueKinds DEF Fits
<1>8. Placed(e)
  BY <1>5, <1>6, <1>7 DEF Placed
<1>9. Met(e)
  <2> SUFFICES ASSUME NEW s \in Task, NEW r \in Task, e.queue[s] = r, e.state[r] = "Receiving"
               PROVE  e.from[r] \notin {NoTask, s}
    BY DEF Met
  <2>1. d.queue[s] = r /\ d.state[r] = "Receiving"
    BY <1>4, QueueKinds
  <2> QED BY <1>3, <2>1 DEF Sound, Met
<1> QED BY <1>2, <1>4, <1>8, <1>9 DEF Sound, e

-----------------------------------------------------------------------------
(***************************************************************************)
(* The clock.                                                              *)
(***************************************************************************)
LEMMA CountDownKeeps ==
  ASSUME NEW d, Sound(d), d.time_q # <<>> => d.left[Head(d.time_q)] # 0,
         NEW e, e = [d EXCEPT !.left = [t \in Task |-> IF t \in ToSet(d.time_q) THEN @[t] - 1 ELSE @[t]]]
  PROVE  /\ Sound(e) /\ SameScalars(d, e) /\ SameStatus(d, e) /\ SameLists(d, e)
<1> DEFINE a == d.time_q
           p == d.left
           pp == [t \in Task |-> IF t \in ToSet(a) THEN p[t] - 1 ELSE p[t]]
<1>1. Linked(d) /\ d \in Records
  BY DEF Sound, Linked
<1>2. a \in Seq(Task) /\ p \in [Task -> Nat] /\ NoRepetition(a) /\ IsOrdered(a, p)
  BY <1>1, RecordsFields DEF Linked, TimeOrdered
<1>3. a # <<>> => p[Head(a)] # 0
  OBVIOUS
<1>4. e = [d EXCEPT !.left = pp]
  OBVIOUS
<1>20. a = d.time_q /\ p = d.left
  OBVIOUS
<1> HIDE DEF a, p
<1>5. Len(a) \in Nat /\ DOMAIN a = 1 .. Len(a) /\ \A i \in 1 .. Len(a) : a[i] \in Task /\ a[i] \in ToSet(a)
  BY <1>2, LenProperties, ElementOfSeq DEF ToSet
\* The first one due has a tick left, and so has everybody behind it.
<1>6. \A i \in 1 .. Len(a) : p[a[i]] > 0
  <2> SUFFICES ASSUME NEW i \in 1 .. Len(a) PROVE p[a[i]] > 0
    OBVIOUS
  <2>1. a # <<>> /\ Head(a) = a[1] /\ 1 \in 1 .. Len(a)
    BY <1>2, <1>5, EmptySeq, HeadTailProperties
  <2>2. p[a[1]] > 0
    BY <1>2, <1>3, <1>5, <2>1
  <2>3. p[a[1]] <= p[a[i]]
    BY <1>2, <1>5, <2>1 DEF IsOrdered
  <2> QED BY <1>2, <1>5, <2>1, <2>2, <2>3
<1>7. pp \in [Task -> Nat]
  <2> SUFFICES ASSUME NEW t \in Task, t \in ToSet(a) PROVE p[t] - 1 \in Nat
    BY <1>2
  <2>1. p[t] > 0
    BY <1>5, <1>6 DEF ToSet
  <2> QED BY <1>2, <2>1
<1>8. IsOrdered(a, pp)
  <2> SUFFICES ASSUME NEW i \in DOMAIN a, NEW j \in DOMAIN a, i < j
               PROVE  pp[a[i]] <= pp[a[j]]
    BY DEF IsOrdered
  <2>1. p[a[i]] <= p[a[j]] /\ pp[a[i]] = p[a[i]] - 1 /\ pp[a[j]] = p[a[j]] - 1
    BY <1>2, <1>5 DEF IsOrdered
  <2> QED BY <1>2, <1>5, <2>1
<1> HIDE DEF pp
<1>9. /\ e \in Records
      /\ e.left = pp /\ e.time_q = a
      /\ SameScalars(d, e) /\ SameStatus(d, e) /\ SameLists(d, e)
  BY <1>1, <1>4, <1>7, <1>20 DEF Records, SameScalars, SameStatus, SameLists
<1>10. Linked(e)
  BY <1>1, <1>2, <1>8, <1>9 DEF Linked, ListsAgree, TimeOrdered, SameLists
<1>11. Timing(e) = Timing(d)
  BY <1>9, <1>20 DEF Timing
<1>12. Sound(e)
  BY <1>9, <1>10, <1>11, SoundByPlaces DEF SameScalars, SameStatus, SameLists
<1> QED BY <1>9, <1>12

(***************************************************************************)
(* The head of the time queue is taken out of it.                          *)
(***************************************************************************)
LEMMA HeadTaken ==
  ASSUME NEW d, Linked(d), d.time_q # <<>>
  PROVE  LET t == Head(d.time_q)
             g == [d EXCEPT !.time_q = Tail(@)]
         IN  /\ t \in Task /\ t \in Timing(d)
             /\ Linked(g) /\ Timing(g) = Timing(d) \ {t}
             /\ SameScalars(d, g) /\ SameStatus(d, g) /\ SameLists(d, g)
<1> DEFINE t == Head(d.time_q)
           a == d.time_q
           l == Tail(a)
           g == [d EXCEPT !.time_q = Tail(@)]
<1>1. d \in Records
  BY DEF Linked
<1>2. a \in Seq(Task) /\ a # <<>> /\ NoRepetition(a) /\ IsOrdered(a, d.left)
  BY <1>1, RecordsFields DEF Linked, TimeOrdered
<1>3. t = Head(a) /\ a = d.time_q
  OBVIOUS
<1>4. g = [d EXCEPT !.time_q = l]
  OBVIOUS
<1> HIDE DEF a, t, g
<1>5. /\ t \in Task /\ t \in ToSet(a)
      /\ l \in Seq(Task) /\ ToSet(l) = ToSet(a) \ {t} /\ NoRepetition(l)
      /\ Len(l) = Len(a) - 1 /\ \A i \in 1 .. Len(a) - 1 : l[i] = a[i + 1]
  BY <1>2, <1>3, TailProperties
<1>6. IsOrdered(l, d.left)
  <2>1. DOMAIN a = 1 .. Len(a) /\ DOMAIN l = 1 .. Len(l) /\ Len(a) \in Nat
    BY <1>2, <1>5, LenProperties
  <2> HIDE DEF l
  <2> SUFFICES ASSUME NEW i \in DOMAIN l, NEW j \in DOMAIN l, i < j
               PROVE  d.left[l[i]] <= d.left[l[j]]
    BY DEF IsOrdered
  <2>2. i + 1 \in DOMAIN a /\ j + 1 \in DOMAIN a /\ i + 1 < j + 1 /\ l[i] = a[i + 1] /\ l[j] = a[j + 1]
    BY <1>5, <2>1
  <2> QED BY <1>2, <2>2 DEF IsOrdered
<1> HIDE DEF l
<1>7. /\ g \in Records
      /\ g.time_q = l /\ g.left = d.left
      /\ SameScalars(d, g) /\ SameStatus(d, g) /\ SameLists(d, g)
  BY <1>1, <1>4, <1>5 DEF Records, SameScalars, SameStatus, SameLists
<1>8. Linked(g) /\ Timing(g) = Timing(d) \ {t}
  BY <1>1, <1>3, <1>5, <1>6, <1>7 DEF Linked, ListsAgree, TimeOrdered, SameLists, Timing
<1>9. t \in Timing(d)
  BY <1>3, <1>5 DEF Timing
<1> QED BY <1>5, <1>7, <1>8, <1>9 DEF t, g

(***************************************************************************)
(* clockint makes the head of the time queue ready, without success.       *)
(***************************************************************************)
LEMMA WakeHeadKeeps ==
  ASSUME NEW d, Sound(d), d.time_q # <<>>
  PROVE  LET t == Head(d.time_q)
             e == MakeReady([d EXCEPT !.time_q = Tail(@)], t, FALSE)
         IN  /\ t \in Task /\ d.state[t] \in TimedStates
             /\ Sound(e) /\ e.prio = d.prio /\ SameScalars(d, e)
             /\ e.queue = [d.queue EXCEPT ![t] = ReadyQ]
             /\ e.state = [d.state EXCEPT ![t] = "Ready"]
             /\ e.success = [d.success EXCEPT ![t] = FALSE]
<1> DEFINE t == Head(d.time_q)
           g == [d EXCEPT !.time_q = Tail(@)]
           e == MakeReady(g, t, FALSE)
<1>1. /\ t \in Task /\ t \in Timing(d)
      /\ Linked(g) /\ Timing(g) = Timing(d) \ {t}
      /\ SameScalars(d, g) /\ SameStatus(d, g) /\ SameLists(d, g)
  BY HeadTaken DEF Sound
<1> HIDE DEF t, g, e
<1>2. d.state[t] \in TimedStates
  BY <1>1 DEF Sound, Placed
<1>3. g.state[t] # "Ready"
  BY <1>1, <1>2 DEF SameStatus, TimedStates
<1>4. /\ Linked(e)
      /\ e.queue = [g.queue EXCEPT ![t] = ReadyQ] /\ e.prio = g.prio
      /\ Timing(e) = Timing(g) \ {t}
      /\ e.state = [g.state EXCEPT ![t] = "Ready"]
      /\ e.success = [g.success EXCEPT ![t] = FALSE]
      /\ SameScalars(g, e)
  BY <1>1, <1>3, MakeReadyEffect DEF e
<1>5. /\ e.queue = [d.queue EXCEPT ![t] = ReadyQ] /\ e.prio = d.prio
      /\ e.state = [d.state EXCEPT ![t] = "Ready"] /\ e.success = [d.success EXCEPT ![t] = FALSE]
      /\ SameScalars(d, e) /\ Timing(e) \subseteq Timing(d)
  BY <1>1, <1>4 DEF SameScalars, SameStatus, SameLists
<1>6. e.curr = d.curr /\ e.from = d.from /\ t \notin Timing(e)
  BY <1>4, <1>5 DEF SameScalars
<1>7. Fits("Ready", ReadyQ)
  BY QueueKinds DEF Fits
<1>8. Sound(e)
  BY <1>1, <1>4, <1>5, <1>6, <1>7, QueueKinds, MoveKeeps
<1> QED BY <1>1, <1>2, <1>5, <1>8 DEF t, e, g

-----------------------------------------------------------------------------
Dead == {"Terminated", "Freed"}
Awake == {"Ready", "Current"}
Blocking == {"wait", "send", "receive"}
Deleting == {"flushed", "released", "emptied"}

-----------------------------------------------------------------------------
(* What a call makes of the kernel's data d before it ends.  Tasks enter   *)
(* no queue but those of W and the ready and terminated ones; nobody wakes *)
(* up with success but those of G, and those of X begin a wait.            *)
Kept(d, e, W) ==
  \A x \in Task : e.queue[x] \in Task \cup WaitQ => e.queue[x] = d.queue[x] \/ e.queue[x] \in W

Ungranted(d, e, G, X) ==
  \A x \in Task \ G :
    e.state[x] \in Awake /\ e.success[x] => x \notin X /\ d.state[x] \in Awake /\ d.success[x]

SameDead(d, e) == \A x \in Task : e.state[x] \in Dead <=> d.state[x] \in Dead

Prepared(d, e, W, G, X) ==
  /\ Sound(e) /\ GaveWay(e)
  /\ e.curr = d.curr /\ e.disint = d.disint /\ e.fpu = d.fpu /\ e.ts = d.ts
  /\ Kept(d, e, W) /\ Ungranted(d, e, G, X)

(* Data whose current task has the CPU.                                    *)
InUse(d) == Sound(d) /\ d.state[d.curr] = "Current"

(***************************************************************************)
(* The current task is in no queue and holds no timed wait.                *)
(***************************************************************************)
LEMMA CurrentFree ==
  ASSUME NEW d, InUse(d)
  PROVE  /\ Linked(d) /\ d \in Records /\ d.curr \in Task
         /\ d.queue[d.curr] = NoQueue /\ d.curr \notin Timing(d)
         /\ d.state \in [Task -> TaskState] /\ d.queue \in [Task -> Queue \cup {NoQueue}]
         /\ d.success \in [Task -> BOOLEAN] /\ d.from \in [Task -> Task \cup {NoTask}]
         /\ d.disint \in [Task -> Nat] /\ d.atomic \in [Task -> Nat]
         /\ GaveWay(d)
<1>1. Linked(d) /\ d \in Records
  BY DEF InUse, Sound, Linked
<1>2. /\ d.state \in [Task -> TaskState] /\ d.queue \in [Task -> Queue \cup {NoQueue}]
      /\ d.success \in [Task -> BOOLEAN] /\ d.from \in [Task -> Task \cup {NoTask}]
      /\ d.disint \in [Task -> Nat] /\ d.curr \in Task /\ d.atomic \in [Task -> Nat]
  BY <1>1, RecordsFields
<1>3. d.queue[d.curr] = NoQueue
  BY <1>2 DEF InUse, Sound, Placed, Fits, Queue
<1>4. d.curr \notin Timing(d)
  BY DEF InUse, Sound, Placed, TimedStates
<1>5. GaveWay(d)
  BY DEF InUse, GaveWay
<1> QED BY <1>1, <1>2, <1>3, <1>4, <1>5

(***************************************************************************)
(* A call may change nothing.                                              *)
(***************************************************************************)
LEMMA NothingPrepared ==
  ASSUME NEW d, InUse(d), NEW W, NEW G
  PROVE  Prepared(d, d, W, G, {})
BY CurrentFree DEF InUse, Prepared, Kept, Ungranted

(***************************************************************************)
(* Scalar fields may change.                                               *)
(***************************************************************************)
LEMMA ScalarsPrepared ==
  ASSUME NEW d, InUse(d), NEW e \in Records, SameLists(d, e), SameTimes(d, e), SameStatus(d, e),
         e.curr = d.curr, e.from = d.from
  PROVE  /\ InUse(e)
         /\ e.disint = d.disint /\ e.fpu = d.fpu /\ e.ts = d.ts => Prepared(d, e, {}, {}, {})
<1>1. InUse(e)
  BY SoundByFields DEF InUse, SameStatus
<1>2. GaveWay(e)
  BY <1>1, CurrentFree
<1>3. Kept(d, e, {}) /\ Ungranted(d, e, {}, {})
  BY DEF Kept, Ungranted, SameLists, SameStatus
<1> QED BY <1>1, <1>2, <1>3 DEF InUse, Prepared

(***************************************************************************)
(* Ready: with success only by a grant.                                    *)
(***************************************************************************)
LEMMA ReadyPrepared ==
  ASSUME NEW d, InUse(d), NEW t \in Task, d.state[t] \notin Dead, NEW ok \in BOOLEAN
  PROVE  LET e == MakeReady(d, t, ok)
         IN  /\ Prepared(d, e, {}, {t}, {})
             /\ ~ ok => Prepared(d, e, {}, {}, {})
             /\ SameDead(d, e) /\ e.state = [d.state EXCEPT ![t] = "Ready"]
<1> DEFINE e == MakeReady(d, t, ok)
<1>1. /\ Sound(e) /\ SameScalars(d, e)
      /\ e.queue = [d.queue EXCEPT ![t] = ReadyQ]
      /\ e.state = [d.state EXCEPT ![t] = "Ready"]
      /\ \A x \in Task \ {t} : e.success[x] = d.success[x]
      /\ d.state[t] # "Ready" => e.success[t] = ok
      /\ d.state[t] = "Ready" => e = d
      /\ GaveWay(e)
  BY MakeReadyKeeps DEF InUse
<1>2. /\ d.state \in [Task -> TaskState] /\ d.queue \in [Task -> Queue \cup {NoQueue}]
  BY CurrentFree
<1> HIDE DEF e
<1>3. Kept(d, e, {})
  BY <1>1, <1>2, QueueKinds DEF Kept
<1>4. Ungranted(d, e, {t}, {})
  BY <1>1, <1>2 DEF Ungranted
<1>5. ~ ok => Ungranted(d, e, {}, {})
  BY <1>1, <1>2 DEF Ungranted
<1>6. SameDead(d, e)
  BY <1>1, <1>2 DEF SameDead, Dead
<1> QED BY <1>1, <1>3, <1>4, <1>5, <1>6 DEF Prepared, SameScalars, e

(***************************************************************************)
(* SignalQueue, and one turn of FlushQueue.                                *)
(***************************************************************************)
LEMMA WakeLastPrepared ==
  ASSUME NEW d, InUse(d), NEW q \in Task \cup WaitQ, d.list[q] # <<>>, NEW ok \in BOOLEAN
  PROVE  LET u == PeekLast(d, q)
             e == MakeReady(GetLast(d, q), u, ok)
         IN  /\ u \in Task
             /\ Prepared(d, e, {}, {u}, {})
             /\ ~ ok => Prepared(d, e, {}, {}, {u})
             /\ SameDead(d, e) /\ e.state[d.curr] = "Current"
<1> DEFINE u == PeekLast(d, q)
           e == MakeReady(GetLast(d, q), u, ok)
<1>1. /\ u \in Task /\ d.queue[u] = q /\ d.state[u] \in {"Waiting", "Sending"}
      /\ Sound(e) /\ SameScalars(d, e)
      /\ e.queue = [d.queue EXCEPT ![u] = ReadyQ]
      /\ e.state = [d.state EXCEPT ![u] = "Ready"]
      /\ e.success = [d.success EXCEPT ![u] = ok]
      /\ GaveWay(e)
  BY WakeLastKeeps DEF InUse
<1>2. /\ d.state \in [Task -> TaskState] /\ d.queue \in [Task -> Queue \cup {NoQueue}]
      /\ d.success \in [Task -> BOOLEAN] /\ d.curr \in Task
  BY CurrentFree
<1>7. u = PeekLast(d, q)
  OBVIOUS
<1> HIDE DEF u, e
<1>3. Kept(d, e, {})
  BY <1>1, <1>2, QueueKinds DEF Kept
<1>4. Ungranted(d, e, {u}, {}) /\ (~ ok => Ungranted(d, e, {}, {u}))
  BY <1>1, <1>2 DEF Ungranted
<1>5. SameDead(d, e)
  BY <1>1, <1>2 DEF SameDead, Dead
<1>6. e.state[d.curr] = "Current"
  BY <1>1, <1>2 DEF InUse
<1> QED BY <1>1, <1>3, <1>4, <1>5, <1>6 DEF Prepared, SameScalars, e, u

(***************************************************************************)
(* Suspend, and the first part of Delay.                                   *)
(***************************************************************************)
LEMMA BlockPrepared ==
  ASSUME NEW d, InUse(d), NEW t \in Task, t # Null, d.state[t] \notin Dead,
         NEW s \in {"Suspended", "Delaying"}
  PROVE  LET e == Block(d, t, s)
         IN  /\ Prepared(d, e, {}, {}, {}) /\ SameDead(d, e)
             /\ e.state = [d.state EXCEPT ![t] = s]
             /\ e.prio = d.prio /\ e.run = d.run /\ e.atomic = d.atomic
<1> DEFINE e == Block(d, t, s)
<1>1. /\ Sound(e) /\ SameScalars(d, e) /\ e.prio = d.prio
      /\ e.queue = [d.queue EXCEPT ![t] = NoQueue]
      /\ e.state = [d.state EXCEPT ![t] = s] /\ e.success = d.success
      /\ GaveWay(e)
  <2>1. s \in Unqueued
    BY DEF Unqueued
  <2> QED BY <2>1, BlockKeeps DEF InUse
<1>2. /\ d.state \in [Task -> TaskState] /\ d.queue \in [Task -> Queue \cup {NoQueue}]
  BY CurrentFree
<1> HIDE DEF e
<1>3. Kept(d, e, {})
  BY <1>1, <1>2, QueueKinds DEF Kept
<1>4. Ungranted(d, e, {}, {})
  BY <1>1, <1>2 DEF Ungranted, Awake
<1>5. SameDead(d, e)
  BY <1>1, <1>2 DEF SameDead, Dead
<1> QED BY <1>1, <1>3, <1>4, <1>5 DEF Prepared, SameScalars, e

(***************************************************************************)
(* SetPriority.                                                            *)
(***************************************************************************)
LEMMA SetPrioPrepared ==
  ASSUME NEW d, InUse(d), NEW t \in Task, NEW p \in Priority
  PROVE  LET e == SetPrio(d, t, p)
         IN  /\ Prepared(d, e, {}, {}, {}) /\ SameDead(d, e) /\ e.state = d.state
             /\ e.prio = [d.prio EXCEPT ![t] = p] /\ e.run = d.run /\ e.atomic = d.atomic
<1> DEFINE e == SetPrio(d, t, p)
<1>1. /\ Sound(e) /\ SameScalars(d, e) /\ SameStatus(d, e)
      /\ e.queue = d.queue /\ e.prio = [d.prio EXCEPT ![t] = p]
  BY SetPrioKeeps DEF InUse
<1> HIDE DEF e
<1>2. e.state = d.state /\ e.success = d.success /\ e.curr = d.curr
  BY <1>1 DEF SameStatus, SameScalars
<1>3. GaveWay(e)
  BY <1>2 DEF GaveWay, InUse
<1>4. Kept(d, e, {}) /\ Ungranted(d, e, {}, {}) /\ SameDead(d, e)
  BY <1>1, <1>2 DEF Kept, Ungranted, SameDead
<1> QED BY <1>1, <1>2, <1>3, <1>4 DEF Prepared, SameScalars, e

(***************************************************************************)
(* Malloc, and Free, which free the terminated tasks.                      *)
(***************************************************************************)
LEMMA FreeTerminatedPrepared ==
  ASSUME NEW d, InUse(d)
  PROVE  LET e == FreeTerminated(d)
         IN  /\ InUse(e) /\ Prepared(d, e, {}, {}, {}) /\ SameDead(d, e)
             /\ e.prio = d.prio /\ e.atomic = d.atomic
             /\ \A t \in Task : d.state[t] = "Unborn" => e.state[t] = "Unborn"
<1> DEFINE e == FreeTerminated(d)
<1>1. /\ Sound(e) /\ e.prio = d.prio /\ e.success = d.success /\ SameScalars(d, e)
      /\ \A t \in Task :
           /\ d.queue[t] = TerminatedQ => e.queue[t] = NoQueue /\ e.state[t] = "Freed"
           /\ d.queue[t] # TerminatedQ => e.queue[t] = d.queue[t] /\ e.state[t] = d.state[t]
  BY FreeTerminatedKeeps DEF InUse
<1> HIDE DEF e
<1>2. \A t \in Task : d.state[t] = "Terminated" <=> d.queue[t] = TerminatedQ
  BY DEF InUse, Sound, Placed, Fits
<1>3. d.curr \in Task /\ d.queue[d.curr] = NoQueue
  BY CurrentFree
<1>4. e.curr = d.curr /\ e.disint = d.disint /\ e.fpu = d.fpu /\ e.ts = d.ts /\ e.atomic = d.atomic
  BY <1>1 DEF SameScalars
<1>5. InUse(e)
  BY <1>1, <1>3, <1>4, QueueKinds DEF InUse
<1>6. GaveWay(e)
  BY <1>5, CurrentFree
<1>7. Kept(d, e, {})
  BY <1>1, QueueKinds DEF Kept
<1>8. Ungranted(d, e, {}, {})
  BY <1>1 DEF Ungranted, Awake
<1>9. SameDead(d, e)
  BY <1>1, <1>2 DEF SameDead, Dead
<1>10. \A t \in Task : d.state[t] = "Unborn" => e.state[t] = "Unborn"
  BY <1>1, <1>2
<1> QED BY <1>1, <1>4, <1>5, <1>6, <1>7, <1>8, <1>9, <1>10 DEF Prepared, e

-----------------------------------------------------------------------------
(***************************************************************************)
(* A timed wait puts the task in the time queue and changes nothing else.  *)
(***************************************************************************)
LEMMA TimedEffect ==
  ASSUME NEW d, Linked(d), NEW t \in Task, t \notin Timing(d), NEW n \in Waits
  PROVE  LET e == Timed(d, t, n)
         IN  /\ Linked(e) /\ Timing(e) \subseteq Timing(d) \cup {t}
             /\ SameScalars(d, e) /\ SameLists(d, e) /\ SameStatus(d, e)
<1>1. CASE n = FOREVER
  <2>1. Timed(d, t, n) = d
    BY <1>1 DEF Timed
  <2> QED BY <2>1 DEF SameScalars, SameLists, SameStatus
<1>2. CASE n # FOREVER
  <2>1. Timed(d, t, n) = EnqueueTime(d, t, n) /\ n \in Nat
    BY <1>2, KernelAssumption DEF Timed, Waits
  <2> DEFINE e == EnqueueTime(d, t, n)
  <2>2. /\ Linked(e) /\ Timing(e) = Timing(d) \cup {t}
        /\ SameScalars(d, e) /\ SameLists(d, e) /\ SameStatus(d, e)
    BY <2>1, EnqueueTimeEffect
  <2> HIDE DEF e
  <2>3. Timed(d, t, n) = e
    BY <2>1 DEF e
  <2> QED BY <2>2, <2>3
<1> QED BY <1>1, <1>2

(* The task t of d comes to wait, in queue q or in none, for what the      *)
(* state s says; a is d then.                                              *)
ComesToWait(d, a, t, s, q) ==
  /\ t = d.curr /\ t # Null
  /\ Linked(a) /\ s \in TimedStates /\ q \in Queue \cup {NoQueue} /\ Fits(s, q)
  /\ a.queue = [d.queue EXCEPT ![t] = q] /\ a.state = [d.state EXCEPT ![t] = s]
  /\ Timing(a) = Timing(d) /\ a.success = d.success
  /\ a.curr = d.curr /\ a.disint = d.disint /\ a.fpu = d.fpu /\ a.ts = d.ts
  /\ \A r \in Task \ {t} : a.from[r] = d.from[r]
  /\ s = "Receiving" => \A x \in Task : d.queue[x] = t => a.from[t] \notin {NoTask, x}
  /\ q \in Task /\ a.state[q] = "Receiving" => a.from[q] \notin {NoTask, t}

(***************************************************************************)
(* The waits of the current task, timed or not.                            *)
(***************************************************************************)
LEMMA WaitPrepared ==
  ASSUME NEW d, InUse(d), NEW a, NEW t, NEW s, NEW q, ComesToWait(d, a, t, s, q), NEW n \in Waits
  PROVE  LET e == Timed(a, t, n)
         IN  Prepared(d, e, {q}, {}, {t}) /\ SameDead(d, e) /\ e.state[t] = s
<1> DEFINE e == Timed(a, t, n)
<1> USE DEF ComesToWait
<1>1. /\ t \in Task /\ d.queue[t] = NoQueue /\ t \notin Timing(d)
      /\ d.state \in [Task -> TaskState] /\ d.queue \in [Task -> Queue \cup {NoQueue}]
  BY CurrentFree
<1>2. /\ Linked(e) /\ Timing(e) \subseteq Timing(a) \cup {t}
      /\ SameScalars(a, e) /\ SameLists(a, e) /\ SameStatus(a, e)
  BY <1>1, TimedEffect
<1> HIDE DEF e
<1>3. /\ e.queue = [d.queue EXCEPT ![t] = q] /\ e.state = [d.state EXCEPT ![t] = s]
      /\ e.success = d.success /\ e.from = a.from
      /\ e.curr = d.curr /\ e.disint = d.disint /\ e.fpu = d.fpu /\ e.ts = d.ts
  BY <1>2 DEF SameScalars, SameLists, SameStatus
<1>4. s = "Receiving" => \A x \in Task : e.queue[x] = t => e.from[t] \notin {NoTask, x}
  <2> SUFFICES ASSUME s = "Receiving", NEW x \in Task, e.queue[x] = t
               PROVE  e.from[t] \notin {NoTask, x}
    OBVIOUS
  <2>1. q \notin Task
    BY DEF Fits
  <2>2. d.queue[x] = t
    BY <1>1, <1>3, <2>1
  <2> QED BY <1>3, <2>2
<1>5. q \in Task /\ e.state[q] = "Receiving" => e.from[q] \notin {NoTask, t}
  BY <1>2, <1>3 DEF SameStatus
<1>6. Sound(e)
  <2>1. Timing(e) \subseteq Timing(d) \cup {t} /\ s # "Current" /\ Sound(d)
        /\ \A r \in Task \ {t} : e.from[r] = d.from[r]
    BY <1>2, <1>3 DEF TimedStates, InUse
  <2> QED BY <1>1, <1>2, <1>3, <1>4, <1>5, <2>1, MoveKeeps
<1>7. e.state[t] = s
  BY <1>1, <1>3
<1>8. GaveWay(e)
  BY <1>3, <1>7 DEF GaveWay, TimedStates
<1>9. Kept(d, e, {q})
  BY <1>1, <1>3 DEF Kept
<1>10. Ungranted(d, e, {}, {t})
  BY <1>1, <1>3 DEF Ungranted, Awake, TimedStates
<1>11. SameDead(d, e)
  BY <1>1, <1>3 DEF SameDead, Dead, TimedStates, InUse
<1> QED BY <1>3, <1>6, <1>7, <1>8, <1>9, <1>10, <1>11 DEF Prepared, e

(***************************************************************************)
(* Delay.                                                                  *)
(***************************************************************************)
LEMMA DelayPrepared ==
  ASSUME NEW d, InUse(d), NEW t, t = d.curr, t # Null, NEW n \in Waits
  PROVE  LET e == Timed(Block(d, t, "Delaying"), t, n)
         IN  Prepared(d, e, {NoQueue}, {}, {t}) /\ SameDead(d, e) /\ e.state[t] = "Delaying"
<1> DEFINE w == "Delaying"
           a == Block(d, t, w)
<1>20. w \in TaskState /\ w \in TimedStates /\ w = "Delaying"
  BY DEF TaskState, TimedStates
<1> HIDE DEF w
<1>1. t \in Task /\ Linked(d) /\ t \notin Timing(d)
  BY CurrentFree
<1>2. /\ Linked(a)
      /\ a.queue = [d.queue EXCEPT ![t] = NoQueue]
      /\ Timing(a) = Timing(d) \ {t}
      /\ a.state = [d.state EXCEPT ![t] = w] /\ a.success = d.success
      /\ SameScalars(d, a)
  BY <1>1, <1>20, BlockEffect
<1> HIDE DEF a
<1>3. /\ a.curr = d.curr /\ a.disint = d.disint /\ a.fpu = d.fpu /\ a.ts = d.ts /\ a.from = d.from
      /\ Timing(a) = Timing(d)
  BY <1>1, <1>2 DEF SameScalars
<1>4. Fits(w, NoQueue) /\ w \in TimedStates /\ NoQueue \in Queue \cup {NoQueue}
      /\ NoQueue \notin Task
  BY <1>20, QueueKinds DEF Fits
<1>21. LET e == Timed(a, t, n)
       IN  Prepared(d, e, {NoQueue}, {}, {t}) /\ SameDead(d, e) /\ e.state[t] = w
  <2>1. ComesToWait(d, a, t, w, NoQueue)
    BY <1>2, <1>3, <1>4, <1>20 DEF ComesToWait
  <2> QED BY <2>1, WaitPrepared
<1> QED BY <1>20, <1>21 DEF a, w

(***************************************************************************)
(* WaitQueueTimed.                                                         *)
(***************************************************************************)
LEMMA WaitQueuePrepared ==
  ASSUME NEW d, InUse(d), NEW t, t = d.curr, t # Null, NEW q \in WaitQ, NEW n \in Waits
  PROVE  LET e == Timed(Enqueue(Block(d, t, "Waiting"), t, q), t, n)
         IN  Prepared(d, e, {q}, {}, {t}) /\ SameDead(d, e) /\ e.state[t] = "Waiting"
<1> DEFINE w == "Waiting"
           b == Block(d, t, w)
           a == Enqueue(b, t, q)
<1>20. w \in TaskState /\ w \in TimedStates /\ w = "Waiting"
  BY DEF TaskState, TimedStates
<1> HIDE DEF w
<1>1. t \in Task /\ Linked(d) /\ t \notin Timing(d) /\ d.queue \in [Task -> Queue \cup {NoQueue}]
  BY CurrentFree
<1>2. /\ Linked(b)
      /\ b.queue = [d.queue EXCEPT ![t] = NoQueue]
      /\ Timing(b) = Timing(d) \ {t}
      /\ b.state = [d.state EXCEPT ![t] = w] /\ b.success = d.success
      /\ SameScalars(d, b)
  BY <1>1, <1>20, BlockEffect
<1> HIDE DEF b
<1>3. q \in Queue /\ b.queue[t] = NoQueue
  BY <1>1, <1>2, QueueKinds
<1>4. /\ Linked(a)
      /\ a.queue = [b.queue EXCEPT ![t] = q]
      /\ SameScalars(b, a) /\ SameTimes(b, a) /\ SameStatus(b, a)
  BY <1>1, <1>2, <1>3, EnqueueEffect
<1> HIDE DEF a
<1>5. /\ a.curr = d.curr /\ a.disint = d.disint /\ a.fpu = d.fpu /\ a.ts = d.ts /\ a.from = d.from
      /\ Timing(a) = Timing(d)
      /\ a.queue = [d.queue EXCEPT ![t] = q] /\ a.state = [d.state EXCEPT ![t] = w]
      /\ a.success = d.success
  BY <1>1, <1>2, <1>4 DEF SameScalars, SameTimes, SameStatus, Timing
<1>6. Fits(w, q) /\ w \in TimedStates /\ q \in Queue \cup {NoQueue} /\ q \notin Task
  BY <1>3, <1>20, QueueKinds DEF Fits
<1>21. LET e == Timed(a, t, n)
       IN  Prepared(d, e, {q}, {}, {t}) /\ SameDead(d, e) /\ e.state[t] = w
  <2>1. ComesToWait(d, a, t, w, q)
    BY <1>4, <1>5, <1>6, <1>20 DEF ComesToWait
  <2> QED BY <2>1, WaitPrepared
<1> QED BY <1>20, <1>21 DEF a, b, w

(***************************************************************************)
(* SendTimed, when the receiver is not ready for the message.              *)
(***************************************************************************)
LEMMA SendWaitPrepared ==
  ASSUME NEW d, InUse(d), NEW t, t = d.curr, t # Null, NEW u \in Task, NEW n \in Waits,
         ~ (d.state[u] = "Receiving" /\ d.from[u] \in {NoTask, t})
  PROVE  LET e == Timed(Enqueue([d EXCEPT !.state[t] = "Sending"], t, u), t, n)
         IN  Prepared(d, e, {u}, {}, {t}) /\ SameDead(d, e) /\ e.state[t] = "Sending"
<1> DEFINE w == "Sending"
           b == [d EXCEPT !.state[t] = w]
           a == Enqueue(b, t, u)
<1>20. w \in TaskState /\ w \in TimedStates /\ w = "Sending"
  BY DEF TaskState, TimedStates
<1> HIDE DEF w
<1>1. /\ t \in Task /\ Linked(d) /\ d \in Records /\ t \notin Timing(d) /\ d.queue[t] = NoQueue
      /\ d.state \in [Task -> TaskState]
  BY CurrentFree
<1>2. /\ b \in Records /\ b.state = [d.state EXCEPT ![t] = w] /\ b.success = d.success
      /\ SameScalars(d, b) /\ SameLists(d, b) /\ SameTimes(d, b)
  BY <1>1, <1>20 DEF Records, SameScalars, SameLists, SameTimes
<1> HIDE DEF b
<1>3. Linked(b) /\ Timing(b) = Timing(d)
  BY <1>1, <1>2, LinkedByFields
<1>4. u \in Queue /\ b.queue[t] = NoQueue
  BY <1>1, <1>2, QueueKinds DEF SameLists
<1>5. /\ Linked(a)
      /\ a.queue = [b.queue EXCEPT ![t] = u]
      /\ SameScalars(b, a) /\ SameTimes(b, a) /\ SameStatus(b, a)
  BY <1>1, <1>3, <1>4, EnqueueEffect
<1> HIDE DEF a
<1>6. /\ a.curr = d.curr /\ a.disint = d.disint /\ a.fpu = d.fpu /\ a.ts = d.ts /\ a.from = d.from
      /\ Timing(a) = Timing(d)
      /\ a.queue = [d.queue EXCEPT ![t] = u] /\ a.state = [d.state EXCEPT ![t] = w]
      /\ a.success = d.success
  BY <1>2, <1>3, <1>5 DEF SameScalars, SameTimes, SameStatus, SameLists, Timing
<1>7. a.state[u] = "Receiving" => a.from[u] \notin {NoTask, t}
  BY <1>1, <1>6, <1>20
<1>8. Fits(w, u) /\ w \in TimedStates /\ u \in Queue \cup {NoQueue}
  BY <1>4, <1>20, QueueKinds DEF Fits
<1>21. LET e == Timed(a, t, n)
       IN  Prepared(d, e, {u}, {}, {t}) /\ SameDead(d, e) /\ e.state[t] = w
  <2>1. ComesToWait(d, a, t, w, u)
    BY <1>5, <1>6, <1>7, <1>8, <1>20 DEF ComesToWait
  <2> QED BY <2>1, WaitPrepared
<1> QED BY <1>20, <1>21 DEF a, b, w

(* No task that t asks for, f or any, waits to send to it.                 *)
NobodySends(d, t, f) == \A x \in Task : d.queue[x] = t => f \notin {NoTask, x}

(***************************************************************************)
(* ReceiveTimed, when no sender it asks for waits.                         *)
(***************************************************************************)
LEMMA ReceiveWaitPrepared ==
  ASSUME NEW d, InUse(d), NEW t, t = d.curr, t # Null, NEW f \in Task \cup {NoTask}, NEW n \in Waits,
         NobodySends(d, t, f)
  PROVE  LET e == Timed([d EXCEPT !.from[t] = f, !.state[t] = "Receiving"], t, n)
         IN  Prepared(d, e, {NoQueue}, {}, {t}) /\ SameDead(d, e) /\ e.state[t] = "Receiving"
<1> DEFINE w == "Receiving"
           a == [d EXCEPT !.from[t] = f, !.state[t] = w]
<1>20. w \in TaskState /\ w \in TimedStates /\ w = "Receiving"
  BY DEF TaskState, TimedStates
<1> HIDE DEF w
<1>1. /\ t \in Task /\ Linked(d) /\ d \in Records /\ d.queue[t] = NoQueue
      /\ d.queue \in [Task -> Queue \cup {NoQueue}] /\ d.from \in [Task -> Task \cup {NoTask}]
  BY CurrentFree
<1>2. /\ a \in Records /\ a.state = [d.state EXCEPT ![t] = w] /\ a.success = d.success
      /\ a.from = [d.from EXCEPT ![t] = f]
      /\ a.curr = d.curr /\ a.disint = d.disint /\ a.fpu = d.fpu /\ a.ts = d.ts
      /\ SameLists(d, a) /\ SameTimes(d, a)
  BY <1>1, <1>20 DEF Records, SameLists, SameTimes
<1> HIDE DEF a
<1>3. Linked(a) /\ Timing(a) = Timing(d)
  BY <1>1, <1>2, LinkedByFields
<1>4. a.queue = [d.queue EXCEPT ![t] = NoQueue]
  BY <1>1, <1>2 DEF SameLists
<1>5. a.from[t] = f /\ \A r \in Task \ {t} : a.from[r] = d.from[r]
  BY <1>1, <1>2
<1>6. Fits(w, NoQueue) /\ w \in TimedStates /\ NoQueue \in Queue \cup {NoQueue}
      /\ NoQueue \notin Task
  BY <1>20, QueueKinds DEF Fits
<1>21. LET e == Timed(a, t, n)
       IN  Prepared(d, e, {NoQueue}, {}, {t}) /\ SameDead(d, e) /\ e.state[t] = w
  <2>1. ComesToWait(d, a, t, w, NoQueue)
    BY <1>2, <1>3, <1>4, <1>5, <1>6, <1>20 DEF ComesToWait, NobodySends
  <2> QED BY <2>1, WaitPrepared
<1> QED BY <1>20, <1>21 DEF a, w

-----------------------------------------------------------------------------
(* The task u is made ready, and no other task's state changes.            *)
Readied(d, e, u) == e.state = [d.state EXCEPT ![u] = "Ready"]

(***************************************************************************)
(* SendTimed, when the receiver waits for the message: the message has its *)
(* sender's name and the receiver is ready.                                *)
(***************************************************************************)
LEMMA SendPrepared ==
  ASSUME NEW d, InUse(d), NEW t, t = d.curr, NEW u \in Task, d.state[u] = "Receiving"
  PROVE  LET e == MakeReady([d EXCEPT !.from[u] = t], u, TRUE)
         IN  /\ Prepared(d, e, {}, {u}, {}) /\ SameDead(d, e)
             /\ Readied(d, e, u)
<1> DEFINE a == [d EXCEPT !.from[u] = t]
<1>1. /\ t \in Task /\ Linked(d) /\ d \in Records /\ d.queue[t] = NoQueue
      /\ d.queue \in [Task -> Queue \cup {NoQueue}] /\ d.from \in [Task -> Task \cup {NoTask}]
      /\ d.state \in [Task -> TaskState]
  BY CurrentFree
<1>2. /\ a \in Records /\ a.from = [d.from EXCEPT ![u] = t]
      /\ a.curr = d.curr /\ a.disint = d.disint /\ a.fpu = d.fpu /\ a.ts = d.ts
      /\ SameLists(d, a) /\ SameTimes(d, a) /\ SameStatus(d, a)
  BY <1>1 DEF Records, SameLists, SameTimes, SameStatus
<1> HIDE DEF a
<1>3. Linked(a) /\ Timing(a) = Timing(d)
  BY <1>1, <1>2, LinkedByFields
<1>4. a.queue = d.queue /\ a.state = d.state /\ a.success = d.success
  BY <1>2 DEF SameLists, SameStatus
<1>5. Placed(a)
  BY <1>2, <1>3, <1>4 DEF InUse, Sound, Placed
<1>6. Met(a)
  <2> SUFFICES ASSUME NEW x \in Task, NEW r \in Task, d.queue[x] = r, d.state[r] = "Receiving"
               PROVE  a.from[r] \notin {NoTask, x}
    BY <1>4 DEF Met
  <2>1. CASE r = u
    <3>1. a.from[r] = t /\ x # t /\ t # NoTask
      BY <1>1, <1>2, <2>1, QueueKinds
    <3> QED BY <3>1
  <2>2. CASE r # u
    BY <1>1, <1>2, <2>2 DEF InUse, Sound, Met
  <2> QED BY <2>1, <2>2
<1>7. InUse(a)
  BY <1>2, <1>3, <1>4, <1>5, <1>6 DEF InUse, Sound
<1>8. u \in Task /\ a.state[u] \notin Dead
  BY <1>4 DEF Dead
<1> DEFINE e == MakeReady(a, u, TRUE)
<1>9. Prepared(a, e, {}, {u}, {}) /\ SameDead(a, e) /\ e.state = [a.state EXCEPT ![u] = "Ready"]
  BY <1>7, <1>8, ReadyPrepared
<1> HIDE DEF e
<1>10. Prepared(d, e, {}, {u}, {}) /\ SameDead(d, e)
  BY <1>2, <1>4, <1>9 DEF Prepared, Kept, Ungranted, SameDead
<1>11. e.state = [d.state EXCEPT ![u] = "Ready"]
  BY <1>4, <1>9
<1> QED BY <1>10, <1>11 DEF e, a, Readied

(***************************************************************************)
(* CreateTask, which frees the terminated tasks first.                     *)
(***************************************************************************)
LEMMA CreatePrepared ==
  ASSUME NEW d, InUse(d), NEW u \in Task, d.state[u] = "Unborn", NEW p \in Priority
  PROVE  LET e == [FreeTerminated(d) EXCEPT !.state[u] = "Suspended", !.prio[u] = p]
         IN  /\ Prepared(d, e, {}, {}, {}) /\ SameDead(d, e)
             /\ e.atomic = d.atomic /\ e.state[d.curr] = "Current"
<1> DEFINE w == "Suspended"
           a == FreeTerminated(d)
           e == [a EXCEPT !.state[u] = w, !.prio[u] = p]
<1>20. w \in TaskState /\ w = "Suspended"
  BY DEF TaskState
<1> HIDE DEF w
<1>1. /\ InUse(a) /\ Prepared(d, a, {}, {}, {}) /\ SameDead(d, a)
      /\ a.atomic = d.atomic /\ a.state[u] = "Unborn"
  BY FreeTerminatedPrepared
<1> HIDE DEF a
<1>2. /\ Linked(a) /\ a \in Records /\ a.state \in [Task -> TaskState]
      /\ a.queue \in [Task -> Queue \cup {NoQueue}] /\ a.curr \in Task
  BY <1>1, CurrentFree
<1>3. a.prio \in [Task -> Priority]
  BY <1>2, RecordsFields
<1>4. a.queue[u] = NoQueue /\ u # Null /\ u # a.curr
  BY <1>1, <1>2 DEF InUse, Sound, Placed, Fits, Queue
<1>5. /\ e \in Records /\ e.state = [a.state EXCEPT ![u] = w] /\ e.prio = [a.prio EXCEPT ![u] = p]
      /\ e.queue = a.queue /\ e.list = a.list /\ e.success = a.success
      /\ SameScalars(a, e) /\ SameTimes(a, e)
  BY <1>2, <1>3, <1>20 DEF Records, SameScalars, SameTimes
<1> HIDE DEF e
<1>6. Linked(e) /\ Timing(e) = Timing(a)
  BY <1>2, <1>4, <1>5, SetPrioEffect DEF SameTimes, Timing
<1>7. e.curr = a.curr /\ e.from = a.from /\ e.disint = a.disint /\ e.fpu = a.fpu /\ e.ts = a.ts
      /\ e.atomic = a.atomic
  BY <1>5 DEF SameScalars
<1>8. u \notin Timing(a)
  BY <1>1 DEF InUse, Sound, Placed, TimedStates
<1>9. Sound(e)
  <2>1. Fits(w, NoQueue) /\ w # "Current" /\ w # "Receiving"
    BY <1>20, QueueKinds DEF Fits
  <2>2. Placed(a) /\ Met(a)
    BY <1>1 DEF InUse, Sound
  <2>3. Placed(e)
    BY <1>2, <1>4, <1>5, <1>6, <1>7, <1>8, <2>1, <2>2 DEF Placed
  <2>4. Met(e)
    BY <1>2, <1>5, <1>7, <2>1, <2>2 DEF Met
  <2> QED BY <1>6, <2>3, <2>4 DEF Sound
<1>10. e.state[e.curr] = "Current"
  BY <1>1, <1>2, <1>4, <1>5, <1>7 DEF InUse
<1>11. GaveWay(e)
  BY <1>9, <1>10, CurrentFree DEF InUse
<1>12. Kept(a, e, {}) /\ Ungranted(a, e, {}, {}) /\ SameDead(a, e)
  BY <1>1, <1>2, <1>5, <1>20 DEF Kept, Ungranted, SameDead, Awake, Dead
<1>13. Prepared(d, e, {}, {}, {}) /\ SameDead(d, e) /\ e.atomic = d.atomic
  BY <1>1, <1>7, <1>9, <1>11, <1>12 DEF Prepared, Kept, Ungranted, SameDead
<1> QED BY <1>1, <1>7, <1>10, <1>13 DEF Prepared, e, a, w

(***************************************************************************)
(* A task that ends itself waits among the terminated tasks.               *)
(***************************************************************************)
LEMMA EndPrepared ==
  ASSUME NEW d, InUse(d), NEW t, t = d.curr, t # Null
  PROVE  LET e == Enqueue([d EXCEPT !.state[t] = "Terminated"], t, TerminatedQ)
         IN  Prepared(d, e, {}, {}, {}) /\ e.state = [d.state EXCEPT ![t] = "Terminated"]
<1> DEFINE w == "Terminated"
           a == [d EXCEPT !.state[t] = w]
           e == Enqueue(a, t, TerminatedQ)
<1>20. w \in TaskState /\ w = "Terminated"
  BY DEF TaskState
<1> HIDE DEF w
<1>1. /\ t \in Task /\ Linked(d) /\ d \in Records /\ d.queue[t] = NoQueue /\ t \notin Timing(d)
      /\ d.state \in [Task -> TaskState] /\ d.queue \in [Task -> Queue \cup {NoQueue}]
  BY CurrentFree
<1>2. /\ a \in Records /\ a.state = [d.state EXCEPT ![t] = w] /\ a.success = d.success
      /\ SameScalars(d, a) /\ SameLists(d, a) /\ SameTimes(d, a)
  BY <1>1, <1>20 DEF Records, SameScalars, SameLists, SameTimes
<1> HIDE DEF a
<1>3. Linked(a) /\ Timing(a) = Timing(d) /\ a.queue = d.queue
  BY <1>1, <1>2, LinkedByFields DEF SameLists
<1>4. /\ Linked(e) /\ e.queue = [a.queue EXCEPT ![t] = TerminatedQ]
      /\ SameScalars(a, e) /\ SameTimes(a, e) /\ SameStatus(a, e)
  BY <1>1, <1>3, QueueKinds, EnqueueEffect
<1> HIDE DEF e
<1>5. /\ e.curr = d.curr /\ e.disint = d.disint /\ e.fpu = d.fpu /\ e.ts = d.ts /\ e.from = d.from
      /\ Timing(e) = Timing(d)
      /\ e.queue = [d.queue EXCEPT ![t] = TerminatedQ] /\ e.state = [d.state EXCEPT ![t] = w]
      /\ e.success = d.success
  BY <1>2, <1>3, <1>4 DEF SameScalars, SameTimes, SameStatus, Timing
<1>6. Sound(e)
  <2>1. Fits(w, TerminatedQ) /\ w # "Current" /\ w # "Receiving" /\ TerminatedQ \notin Task
    BY <1>20, QueueKinds DEF Fits
  <2>2. Sound(d) /\ (t \in Timing(e) => w \in TimedStates)
    BY <1>1, <1>5 DEF InUse
  <2> QED BY <1>1, <1>4, <1>5, <2>1, <2>2, MoveKeeps
<1>7. GaveWay(e)
  BY <1>1, <1>5, <1>20 DEF GaveWay
<1>8. Kept(d, e, {}) /\ Ungranted(d, e, {}, {})
  BY <1>1, <1>5, <1>20, QueueKinds DEF Kept, Ungranted, Awake
<1> QED BY <1>5, <1>6, <1>7, <1>8 DEF Prepared, e, a, w

(***************************************************************************)
(* A task that another deletes leaves all queues.                          *)
(***************************************************************************)
LEMMA FreePrepared ==
  ASSUME NEW d, InUse(d), NEW v \in Task, v # d.curr, v # Null
  PROVE  LET e == Block(d, v, "Freed")
         IN  /\ Prepared(d, e, {}, {}, {}) /\ e.state = [d.state EXCEPT ![v] = "Freed"]
             /\ e.prio = d.prio /\ e.run = d.run /\ e.atomic = d.atomic
<1> DEFINE e == Block(d, v, "Freed")
<1>1. /\ Sound(e) /\ e.prio = d.prio /\ SameScalars(d, e)
      /\ e.queue = [d.queue EXCEPT ![v] = NoQueue]
      /\ e.state = [d.state EXCEPT ![v] = "Freed"] /\ e.success = d.success
      /\ GaveWay(e)
  <2>1. "Freed" \in Unqueued
    BY DEF Unqueued
  <2> QED BY <2>1, BlockKeeps DEF InUse
<1>2. /\ d.state \in [Task -> TaskState] /\ d.queue \in [Task -> Queue \cup {NoQueue}]
  BY CurrentFree
<1> HIDE DEF e
<1>3. Kept(d, e, {}) /\ Ungranted(d, e, {}, {})
  BY <1>1, <1>2, QueueKinds DEF Kept, Ungranted, Awake
<1> QED BY <1>1, <1>3 DEF Prepared, SameScalars, e

-----------------------------------------------------------------------------
(* The inductive invariant.  Besides the properties it says which tasks    *)
(* each queue can hold while calls are under way.                          *)

DataSound == InUse(k)

(* A loop runs with interrupts disabled, that of clockint in a handler.    *)
LoopsAgree ==
  /\ op.loop = "none" => op = NoOp
  /\ op.loop = "flush" => frames = <<>> /\ op.queue \in Task \cup WaitQ
  /\ op.loop = "clock" => frames # <<>>
  /\ op # NoOp => ~ iflag

(* A task inside mt_context_switch has yet to restore its interrupts, and  *)
(* one that blocks is inside it.                                           *)
SwitchedDisabled == \A t \in switched : k.disint[t] > 0
BlockedInside == \A t \in Task : at[t] \in Blocking => t \in switched

(* What a task deletes, until another deletes that task itself.            *)
VictimsAgree ==
  \A t \in Task :
    /\ victim[t] # Null
    /\ at[t] \in {"flushed", "released"} /\ k.state[t] \notin Dead => victim[t] \in Task
    /\ at[t] = "emptied" /\ k.state[t] \notin Dead => victim[t] \in WaitQ
    /\ at[t] \notin Deleting => victim[t] = NoTask

(* Nobody is in the queue of what is being deleted, once it is flushed,    *)
(* nor in one that is gone.                                                *)
Flushing(q) == op.loop = "flush" /\ op.queue = q
VictimsEmpty ==
  \A t, u \in Task :
    victim[t] \in Task \cup WaitQ /\ k.queue[u] = victim[t] => Flushing(victim[t])
GoneEmpty ==
  \A u \in Task :
    k.queue[u] \notin freed /\ (k.queue[u] \in Task => k.state[k.queue[u]] \notin Dead)

(* The coprocessor is the current task's unless that task is deleting      *)
(* itself and has given it up.                                             *)
FpuAgrees ==
  ~ k.ts => k.fpu = k.curr \/ (at[k.curr] = "released" /\ victim[k.curr] = k.curr)

IInv ==
  /\ TypeOK /\ DataSound
  /\ LoopsAgree /\ SwitchedDisabled /\ BlockedInside
  /\ InterruptFlag /\ PriorityScheduling
  /\ VictimsAgree /\ VictimsEmpty /\ GoneEmpty
  /\ FpuAgrees /\ TrueMeansGranted

-----------------------------------------------------------------------------
(* What a step makes of the kernel's data, the selection of a task         *)
(* included.  The TS bit is down only if it was for the same task.         *)
FpuMoves(d, e) ==
  ~ e.ts => e.fpu = e.curr \/ (e.curr = d.curr /\ ~ d.ts /\ e.fpu = d.fpu)

Moved(d, e, W, G, X) ==
  InUse(e) /\ Kept(d, e, W) /\ Ungranted(d, e, G, X) /\ FpuMoves(d, e)

(***************************************************************************)
(* mt_select_task, at the end of a call or an interrupt.                   *)
(***************************************************************************)
LEMMA SelectMoves ==
  ASSUME NEW d, InUse(d), NEW e, NEW W, NEW G, NEW X, Prepared(d, e, W, G, X)
  PROVE  LET s == Select(e)
         IN  /\ Moved(d, s, W, G, X) /\ SameDead(e, s) /\ Prioritised(s)
             /\ s.disint = d.disint /\ e.state[s.curr] \in Awake
<1> DEFINE s == Select(e)
<1>1. /\ Sound(s) /\ s.state[s.curr] = "Current" /\ Selected(e, s) /\ Prioritised(s)
  BY SelectEffect DEF Prepared
<1> HIDE DEF s
<1>2. InUse(s) /\ s.curr \in Task
  BY <1>1, CurrentFree DEF InUse
<1>3. Kept(d, s, W)
  BY <1>1, QueueKinds DEF Prepared, Kept, Selected
<1>4. Ungranted(d, s, G, X)
  BY <1>1 DEF Prepared, Ungranted, Selected, Awake
<1>5. FpuMoves(d, s)
  BY <1>1 DEF Prepared, Selected, FpuMoves
<1>6. SameDead(e, s)
  BY <1>1 DEF Selected, SameDead, Dead
<1>7. s.disint = d.disint /\ e.state[s.curr] \in Awake
  BY <1>1, <1>2 DEF Prepared, Selected, Awake
<1> QED BY <1>1, <1>2, <1>3, <1>4, <1>5, <1>6, <1>7 DEF Moved, s

(***************************************************************************)
(* A call that leaves the current task the CPU selects nobody.             *)
(***************************************************************************)
LEMMA PreparedMoves ==
  ASSUME NEW d, NEW e, NEW W, NEW G, NEW X, Prepared(d, e, W, G, X), e.state[d.curr] = "Current"
  PROVE  Moved(d, e, W, G, X)
BY DEF Prepared, Moved, FpuMoves, InUse

(* What the end of a call, of an exception or of an interrupt leaves the   *)
(* next task: t is the current task then, and d the data before the        *)
(* selection.                                                              *)
Ended(t, d, W, G, X) ==
  /\ Moved(k, k', W, G, X) /\ SameDead(d, k') /\ Prioritised(k')
  /\ iflag' \in BOOLEAN /\ eflags' \in [Task -> BOOLEAN]
  /\ iflag' <=> k'.disint[k'.curr] = 0
  /\ \A x \in Task : x # k'.curr => (eflags'[x] <=> k'.disint[x] = 0)
  /\ switched \subseteq switched' /\ switched' \subseteq switched \cup {t}
  /\ \A x \in switched' : k'.disint[x] > 0
  /\ d.state[t] \notin Awake => k'.curr # t /\ t \in switched'

(***************************************************************************)
(* RestoreInts.                                                            *)
(***************************************************************************)
LEMMA ReturnEnds ==
  ASSUME IInv, frames = <<>>, NEW t, t = k.curr, NEW d, NEW W, NEW G, NEW X,
         Prepared(k, d, W, G, X), d.state[t] = "Current", Prioritised(d), Return(t, d)
  PROVE  Ended(t, d, W, G, X)
<1>1. Moved(k, k', W, G, X) /\ SameDead(d, k') /\ Prioritised(k')
  BY PreparedMoves DEF Return, SameDead
<1>2. k'.disint = k.disint /\ k'.curr = t /\ switched' = switched /\ eflags' = eflags
  BY DEF Return, Prepared
<1>3. iflag' \in BOOLEAN /\ eflags' \in [Task -> BOOLEAN] /\ (iflag => k.disint[t] = 0)
  BY <1>2 DEF Return, IInv, TypeOK, InterruptFlag, LoopsAgree
<1>4. iflag' <=> k'.disint[k'.curr] = 0
  BY <1>2, <1>3 DEF Return
<1>5. \A x \in Task : x # k'.curr => (eflags'[x] <=> k'.disint[x] = 0)
  BY <1>2 DEF IInv, InterruptFlag
<1>6. \A x \in switched' : k'.disint[x] > 0
  BY <1>2 DEF IInv, SwitchedDisabled
<1> QED BY <1>1, <1>2, <1>3, <1>4, <1>5, <1>6 DEF Ended, Awake

(***************************************************************************)
(* scheduler() and RestoreInts.                                            *)
(***************************************************************************)
LEMMA RescheduleEnds ==
  ASSUME IInv, frames = <<>>, NEW t, t = k.curr, NEW d, NEW W, NEW G, NEW X,
         Prepared(k, d, W, G, X), Reschedule(t, d)
  PROVE  Ended(t, d, W, G, X)
<1> DEFINE s == Select(d)
<1>1. /\ Moved(k, s, W, G, X) /\ SameDead(d, s) /\ Prioritised(s)
      /\ s.disint = k.disint /\ d.state[s.curr] \in Awake
  BY SelectMoves DEF IInv, DataSound
<1>2. \/ s.curr = t /\ Return(t, s)
      \/ /\ s.curr # t
         /\ k' = [s EXCEPT !.disint[t] = @ + 1]
         /\ eflags' = [eflags EXCEPT ![t] = FALSE]
         /\ iflag' = eflags[s.curr]
         /\ switched' = switched \cup {t}
  BY DEF Reschedule
<1> HIDE DEF s
<1>3. /\ t \in Task /\ k.disint \in [Task -> Nat] /\ InUse(s)
      /\ s \in Records /\ s.curr \in Task /\ switched \subseteq Task
      /\ iflag \in BOOLEAN /\ eflags \in [Task -> BOOLEAN]
  BY <1>1, CurrentFree DEF IInv, DataSound, TypeOK, Moved
<1>4. (iflag => k.disint[t] = 0) /\ (\A x \in Task : x # t => (eflags[x] <=> k.disint[x] = 0))
  BY DEF IInv, InterruptFlag, LoopsAgree
<1>5. \A x \in switched : k.disint[x] > 0
  BY DEF IInv, SwitchedDisabled
<1>6. CASE s.curr = t /\ Return(t, s)
  <2>1. k' = s /\ iflag' = (iflag \/ k.disint[t] = 0) /\ eflags' = eflags /\ switched' = switched
    BY <1>6 DEF Return
  <2>2. iflag' \in BOOLEAN /\ (iflag' <=> k'.disint[k'.curr] = 0)
    BY <1>1, <1>3, <1>4, <1>6, <2>1
  <2>3. \A x \in Task : x # k'.curr => (eflags'[x] <=> k'.disint[x] = 0)
    BY <1>1, <1>4, <1>6, <2>1
  <2> QED BY <1>1, <1>3, <1>5, <1>6, <2>1, <2>2, <2>3 DEF Ended
<1>7. CASE /\ s.curr # t
           /\ k' = [s EXCEPT !.disint[t] = @ + 1]
           /\ eflags' = [eflags EXCEPT ![t] = FALSE]
           /\ iflag' = eflags[s.curr]
           /\ switched' = switched \cup {t}
  <2>1. /\ k' \in Records /\ k'.disint = [k.disint EXCEPT ![t] = @ + 1]
        /\ SameLists(s, k') /\ SameTimes(s, k') /\ SameStatus(s, k')
        /\ k'.curr = s.curr /\ k'.from = s.from /\ k'.fpu = s.fpu /\ k'.ts = s.ts
        /\ k'.atomic = s.atomic /\ k'.run = s.run
    <3> DEFINE m == [s.disint EXCEPT ![t] = @ + 1]
               e == [s EXCEPT !.disint = m]
    <3>1. k' = e /\ m \in [Task -> Nat] /\ m = [k.disint EXCEPT ![t] = @ + 1]
      BY <1>1, <1>3, <1>7 DEF Records
    <3> HIDE DEF m
    <3>2. /\ e \in Records /\ e.disint = m
          /\ SameLists(s, e) /\ SameTimes(s, e) /\ SameStatus(s, e)
          /\ e.curr = s.curr /\ e.from = s.from /\ e.fpu = s.fpu /\ e.ts = s.ts
          /\ e.atomic = s.atomic /\ e.run = s.run
      BY <1>3, <3>1 DEF Records, SameLists, SameTimes, SameStatus
    <3> HIDE DEF e
    <3> QED BY <3>1, <3>2
  <2>2. InUse(k')
    BY <1>3, <2>1, ScalarsPrepared
  <2>3. Moved(k, k', W, G, X) /\ SameDead(d, k')
    BY <1>1, <2>1, <2>2 DEF Moved, Kept, Ungranted, FpuMoves, SameDead, SameLists, SameStatus
  <2>4. Prioritised(k')
    BY <1>1, <2>1 DEF Prioritised, SameLists, SameStatus
  <2>5. iflag' \in BOOLEAN /\ (iflag' <=> k'.disint[k'.curr] = 0)
    BY <1>3, <1>4, <1>7, <2>1
  <2>6. \A x \in Task : x # k'.curr => (eflags'[x] <=> k'.disint[x] = 0)
    BY <1>3, <1>4, <1>7, <2>1
  <2>7. \A x \in switched' : k'.disint[x] > 0
    BY <1>3, <1>5, <1>7, <2>1
  <2>8. eflags' \in [Task -> BOOLEAN]
    BY <1>3, <1>7
  <2> QED BY <1>7, <2>1, <2>3, <2>4, <2>5, <2>6, <2>7, <2>8 DEF Ended
<1> QED BY <1>2, <1>6, <1>7

-----------------------------------------------------------------------------
(* What the history parts of the invariant need of a step: it makes tasks  *)
(* wait only in queues that nobody deletes, a task begins a deletion       *)
(* nowhere, and a task whose wait is granted is recorded.                  *)
Open(q) ==
  q \in Task \cup WaitQ =>
    /\ q \notin freed /\ (q \in Task => k.state[q] \notin Dead)
    /\ \A x \in Task : victim[x] # q

StaysOrWaits(x, X) ==
  \/ at'[x] = at[x]
  \/ /\ at[x] \notin Deleting /\ at'[x] \notin Deleting
     /\ at'[x] \in Blocking => x \in X /\ x \in switched'

Granted(x, G, X) ==
  /\ x \in G => signalled'[x]
  /\ x \notin G \cup X /\ signalled[x] => signalled'[x]

History == VictimsAgree /\ VictimsEmpty /\ GoneEmpty /\ FpuAgrees /\ TrueMeansGranted /\ BlockedInside

Follows(W, G, X) ==
  /\ victim' = victim /\ freed' \subseteq freed
  /\ \A q \in W : Open(q)
  /\ \A x \in Task : StaysOrWaits(x, X)
  /\ \A x \in switched' : Granted(x, G, X)
  /\ \A x \in switched \ switched' : at'[x] \notin Blocking
  /\ op.loop = "flush" => op' = op \/ \A u \in Task : k.queue[u] # op.queue

(***************************************************************************)
(* A step that moves the data and begins no deletion keeps the history     *)
(* parts of the invariant.                                                 *)
(***************************************************************************)
LEMMA MovedKeeps ==
  ASSUME IInv, NEW W, NEW G, NEW X, Moved(k, k', W, G, X), SameDead(k, k'), Follows(W, G, X),
         switched' \subseteq Task
  PROVE  History'
<1>1. /\ VictimsAgree /\ VictimsEmpty /\ GoneEmpty /\ FpuAgrees /\ TrueMeansGranted /\ BlockedInside
      /\ k.state \in [Task -> TaskState] /\ k.queue \in [Task -> Queue \cup {NoQueue}]
      /\ k.curr \in Task /\ freed \subseteq WaitQ
  BY CurrentFree DEF IInv, DataSound, TypeOK
<1>2. k'.curr \in Task /\ k'.queue \in [Task -> Queue \cup {NoQueue}]
  BY CurrentFree DEF Moved
<1>3. VictimsAgree'
  <2> SUFFICES ASSUME NEW t \in Task
               PROVE  /\ victim[t] # Null
                      /\ at'[t] \in {"flushed", "released"} /\ k'.state[t] \notin Dead => victim[t] \in Task
                      /\ at'[t] = "emptied" /\ k'.state[t] \notin Dead => victim[t] \in WaitQ
                      /\ at'[t] \notin Deleting => victim[t] = NoTask
    BY DEF VictimsAgree, Follows
  <2>1. k'.state[t] \notin Dead => k.state[t] \notin Dead
    BY DEF SameDead
  <2>2. at'[t] = at[t] \/ (at[t] \notin Deleting /\ at'[t] \notin Deleting)
    BY DEF Follows, StaysOrWaits
  <2> QED BY <1>1, <2>1, <2>2 DEF VictimsAgree, Deleting
<1>4. VictimsEmpty'
  <2> SUFFICES ASSUME NEW t \in Task, NEW u \in Task, victim[t] \in Task \cup WaitQ, k'.queue[u] = victim[t]
               PROVE  op'.loop = "flush" /\ op'.queue = victim[t]
    BY DEF VictimsEmpty, Flushing, Follows
  <2>1. k.queue[u] = victim[t]
    BY DEF Moved, Kept, Follows, Open
  <2>2. op.loop = "flush" /\ op.queue = victim[t]
    BY <1>1, <2>1 DEF VictimsEmpty, Flushing
  <2> QED BY <2>1, <2>2 DEF Follows
<1>5. GoneEmpty'
  <2> SUFFICES ASSUME NEW u \in Task
               PROVE  k'.queue[u] \notin freed' /\ (k'.queue[u] \in Task => k'.state[k'.queue[u]] \notin Dead)
    BY DEF GoneEmpty
  <2>1. CASE k'.queue[u] \in Task \cup WaitQ
    <3>1. CASE k'.queue[u] = k.queue[u]
      BY <1>1, <3>1 DEF GoneEmpty, Follows, SameDead
    <3>2. CASE k'.queue[u] \in W
      BY <2>1, <3>2 DEF Follows, Open, SameDead
    <3> QED BY <2>1, <3>1, <3>2 DEF Moved, Kept
  <2>2. CASE k'.queue[u] \notin Task \cup WaitQ
    BY <1>1, <2>2 DEF Follows
  <2> QED BY <2>1, <2>2
<1>6. FpuAgrees'
  <2> SUFFICES ASSUME ~ k'.ts, k'.fpu # k'.curr
               PROVE  at'[k'.curr] = "released" /\ victim[k'.curr] = k'.curr
    BY DEF FpuAgrees, Follows
  <2>1. k'.curr = k.curr /\ ~ k.ts /\ k'.fpu = k.fpu
    BY DEF Moved, FpuMoves
  <2>2. at[k.curr] = "released" /\ victim[k.curr] = k.curr
    BY <1>1, <2>1 DEF FpuAgrees
  <2>3. at'[k.curr] = at[k.curr]
    BY <1>1, <2>2 DEF Follows, StaysOrWaits, Deleting
  <2> QED BY <2>1, <2>2, <2>3
<1>7. TrueMeansGranted'
  <2> SUFFICES ASSUME NEW x \in switched', at'[x] \in Blocking, k'.state[x] \in Awake, k'.success[x]
               PROVE  signalled'[x]
    BY DEF TrueMeansGranted, Blocking, Awake
  <2>1. CASE x \in G
    BY <2>1 DEF Follows, Granted
  <2>2. CASE x \notin G
    <3>1. x \in Task /\ x \notin X /\ k.state[x] \in Awake /\ k.success[x]
      BY <2>2 DEF Moved, Ungranted
    <3>2. at[x] \in Blocking /\ x \in switched
      BY <1>1, <3>1 DEF Follows, StaysOrWaits, BlockedInside
    <3>3. signalled[x]
      BY <1>1, <3>1, <3>2 DEF TrueMeansGranted, Blocking, Awake
    <3> QED BY <2>2, <3>1, <3>3 DEF Follows, Granted
  <2> QED BY <2>1, <2>2
<1>8. BlockedInside'
  <2> SUFFICES ASSUME NEW x \in Task, at'[x] \in Blocking
               PROVE  x \in switched'
    BY DEF BlockedInside
  <2> QED BY <1>1 DEF Follows, StaysOrWaits, BlockedInside
<1> QED BY <1>3, <1>4, <1>5, <1>6, <1>7, <1>8 DEF History

(* The variables that no end of a call sets have their types.              *)
RestTyped ==
  /\ calls \in Uses
  /\ at \in [Task -> {"client", "wait", "send", "receive", "flushed", "released", "emptied"}]
  /\ victim \in [Task -> Task \cup WaitQ \cup {NoTask}] /\ freed \subseteq WaitQ
  /\ signalled \in [Task -> BOOLEAN]

Control == TypeOK /\ DataSound /\ LoopsAgree /\ SwitchedDisabled /\ InterruptFlag /\ PriorityScheduling

(***************************************************************************)
(* The end of a call or of an interrupt keeps the control part.            *)
(***************************************************************************)
LEMMA EndControls ==
  ASSUME IInv, NEW t \in Task, NEW d, NEW W, NEW G, NEW X, Ended(t, d, W, G, X),
         frames' = <<>>, op' = NoOp, RestTyped'
  PROVE  Control'
<1>1. InUse(k') /\ k' \in Records
  BY CurrentFree DEF Ended, Moved
<1>2. TypeOK'
  <2>1. switched' \subseteq Task
    BY DEF Ended, IInv, TypeOK
  <2>2. op' \in [loop : {"none", "flush", "clock"}, queue : Queue \cup {NoQueue}, success : BOOLEAN]
    BY DEF NoOp
  <2>3. iflag' \in BOOLEAN /\ eflags' \in [Task -> BOOLEAN]
    BY DEF Ended
  <2>4. frames' \in Seq({"clock", "device", "served"})
    OBVIOUS
  <2> QED BY <1>1, <2>1, <2>2, <2>3, <2>4 DEF TypeOK, RestTyped
<1>3. DataSound'
  BY <1>1 DEF DataSound
<1>4. LoopsAgree'
  BY DEF LoopsAgree, NoOp
<1>5. SwitchedDisabled'
  BY DEF SwitchedDisabled, Ended
<1>6. InterruptFlag'
  BY DEF InterruptFlag, Ended
<1>7. PriorityScheduling'
  BY DEF PriorityScheduling, Ended, Prioritised
<1> QED BY <1>2, <1>3, <1>4, <1>5, <1>6, <1>7 DEF Control

(***************************************************************************)
(* The end of a call or of an interrupt keeps the invariant.               *)
(***************************************************************************)
LEMMA EndKeeps ==
  ASSUME IInv, NEW t \in Task, NEW d, NEW W, NEW G, NEW X, SameDead(k, d), Ended(t, d, W, G, X),
         Follows(W, G, X), calls' = calls, frames' = <<>>, op' = NoOp,
         at' \in [Task -> {"client", "wait", "send", "receive", "flushed", "released", "emptied"}],
         signalled' \in [Task -> BOOLEAN]
  PROVE  IInv'
<1>1. RestTyped'
  BY DEF RestTyped, Follows, IInv, TypeOK
<1>2. Control'
  BY <1>1, EndControls
<1>3. Moved(k, k', W, G, X) /\ SameDead(k, k') /\ switched' \subseteq Task
  BY DEF Ended, SameDead, IInv, TypeOK
<1>4. History'
  BY <1>3, MovedKeeps
<1> QED BY <1>2, <1>4 DEF IInv, Control, History

-----------------------------------------------------------------------------
(***************************************************************************)
(* What a task that calls the kernel finds.                                *)
(***************************************************************************)
LEMMA Caller ==
  ASSUME IInv, NEW t \in Task, Running(t)
  PROVE  /\ InUse(k) /\ t = k.curr /\ t # Null /\ frames = <<>> /\ op = NoOp /\ op.loop # "flush"
         /\ k.state[t] = "Current" /\ Prioritised(k)
         /\ at \in [Task -> {"client", "wait", "send", "receive", "flushed", "released", "emptied"}]
         /\ signalled \in [Task -> BOOLEAN] /\ switched \subseteq Task
         /\ victim \in [Task -> Task \cup WaitQ \cup {NoTask}] /\ freed \subseteq WaitQ
BY DEF Running, IInv, TypeOK, DataSound, InUse, PriorityScheduling, Prioritised, NoOp

(***************************************************************************)
(* The end of a call that blocks nobody but with a wait already recorded,  *)
(* grants nothing and leaves the control state alone.                      *)
(***************************************************************************)
LEMMA PlainCallKeeps ==
  ASSUME IInv, NEW t \in Task, Running(t), NEW d, NEW X, SameDead(k, d),
         NEW W, W \cap (Task \cup WaitQ) = {}, NEW G, G = {}, Ended(t, d, W, G, X),
         calls' = calls, freed' \subseteq freed, UNCHANGED <<at, victim, frames, op, signalled>>
  PROVE  IInv'
<1>1. /\ frames = <<>> /\ op = NoOp /\ op.loop # "flush" /\ switched \subseteq switched'
  BY Caller DEF Ended
<1>2. Follows(W, G, X)
  BY <1>1, QueueKinds DEF Follows, Open, StaysOrWaits, Granted
<1>3. /\ at' \in [Task -> {"client", "wait", "send", "receive", "flushed", "released", "emptied"}]
      /\ signalled' \in [Task -> BOOLEAN] /\ frames' = <<>> /\ op' = NoOp
  BY Caller
<1> QED BY <1>2, <1>3, EndKeeps

(***************************************************************************)
(* The scheduler that Malloc and Free may call.                            *)
(***************************************************************************)
LEMMA AfterAtomicEnds ==
  ASSUME IInv, frames = <<>>, NEW t, t = k.curr, NEW d, NEW W, NEW G, NEW X,
         Prepared(k, d, W, G, X), d.state[t] = "Current", d.atomic = k.atomic, AfterAtomic(t, d)
  PROVE  Ended(t, d, W, G, X)
<1>1. CASE Reschedule(t, d)
  BY <1>1, RescheduleEnds
<1>2. CASE k.atomic[t] # 0 /\ Return(t, d)
  <2>1. Prioritised(d)
    BY <1>2 DEF Prioritised, Prepared
  <2> QED BY <1>2, <2>1, ReturnEnds
<1> QED BY <1>1, <1>2 DEF AfterAtomic

(***************************************************************************)
(* A call that makes no task ready and keeps the current task's priority   *)
(* leaves nobody waiting that should have the CPU.                         *)
(***************************************************************************)
LEMMA StaysPrioritised ==
  ASSUME NEW d, Prioritised(d), NEW e, e.curr = d.curr, e.run = d.run, e.atomic = d.atomic,
         e.prio[d.curr] = d.prio[d.curr],
         \A x \in Task : e.state[x] = "Ready" => d.state[x] = "Ready" /\ e.prio[x] = d.prio[x]
  PROVE  Prioritised(e)
BY DEF Prioritised

-----------------------------------------------------------------------------
(* Calls on tasks *)

(***************************************************************************)
(* CreateTask keeps the invariant.                                         *)
(***************************************************************************)
LEMMA CreateTaskKeeps ==
  ASSUME IInv, NEW t \in Task, NEW u \in Task, NEW p \in Priority,
         CreateTask(t, u, p), UNCHANGED <<calls, freed>>
  PROVE  IInv'
<1> DEFINE d == [FreeTerminated(k) EXCEPT !.state[u] = "Suspended", !.prio[u] = p]
<1>1. /\ Running(t) /\ k.state[u] = "Unborn" /\ AfterAtomic(t, d)
      /\ UNCHANGED <<at, victim, frames, op, signalled>>
  BY DEF CreateTask, Client
<1>2. InUse(k) /\ t = k.curr /\ frames = <<>>
  BY <1>1, Caller
<1>3. /\ Prepared(k, d, {}, {}, {}) /\ SameDead(k, d)
      /\ d.atomic = k.atomic /\ d.state[t] = "Current"
  BY <1>1, <1>2, CreatePrepared
<1> HIDE DEF d
<1>4. Ended(t, d, {}, {}, {})
  BY <1>1, <1>2, <1>3, AfterAtomicEnds
<1> QED BY <1>1, <1>3, <1>4, PlainCallKeeps

(***************************************************************************)
(* Suspend keeps the invariant.                                            *)
(***************************************************************************)
LEMMA SuspendKeeps ==
  ASSUME IInv, NEW t \in Task, NEW u \in Task, Suspend(t, u), UNCHANGED <<calls, freed>>
  PROVE  IInv'
<1> DEFINE d == Block(k, u, "Suspended")
<1>1. /\ Running(t) /\ u # Null /\ k.state[u] \notin Dead
      /\ IF u = t THEN Reschedule(t, d) ELSE Return(t, d)
      /\ UNCHANGED <<at, victim, frames, op, signalled>>
  BY DEF Suspend, Client, Handle, Dead
<1>2. InUse(k) /\ t = k.curr /\ frames = <<>> /\ k.state[t] = "Current" /\ Prioritised(k)
  BY <1>1, Caller
<1>3. /\ Prepared(k, d, {}, {}, {}) /\ SameDead(k, d)
      /\ d.state = [k.state EXCEPT ![u] = "Suspended"]
      /\ d.prio = k.prio /\ d.run = k.run /\ d.atomic = k.atomic
  BY <1>1, <1>2, BlockPrepared
<1>4. k.state \in [Task -> TaskState]
  BY <1>2, CurrentFree
<1> HIDE DEF d
<1>5. Ended(t, d, {}, {}, {})
  <2>1. CASE u = t
    BY <1>1, <1>2, <1>3, <2>1, RescheduleEnds
  <2>2. CASE u # t
    <3>1. d.state[t] = "Current" /\ \A x \in Task : d.state[x] = "Ready" => k.state[x] = "Ready"
      BY <1>2, <1>3, <1>4, <2>2
    <3>2. Prioritised(d)
      BY <1>2, <1>3, <3>1, StaysPrioritised DEF Prepared
    <3> QED BY <1>1, <1>2, <1>3, <2>2, <3>1, <3>2, ReturnEnds
  <2> QED BY <2>1, <2>2
<1> QED BY <1>1, <1>3, <1>5, PlainCallKeeps

(***************************************************************************)
(* Ready, and Yield, keep the invariant.                                   *)
(***************************************************************************)
LEMMA ReadyKeeps ==
  ASSUME IInv, NEW t \in Task, NEW u \in Task, Ready(t, u), UNCHANGED <<calls, freed>>
  PROVE  IInv'
<1> DEFINE d == MakeReady(k, u, FALSE)
<1>1. /\ Running(t) /\ k.state[u] \notin Dead /\ Reschedule(t, d)
      /\ UNCHANGED <<at, victim, frames, op, signalled>>
  BY DEF Ready, Client, Handle, Dead
<1>2. InUse(k) /\ t = k.curr /\ frames = <<>>
  BY <1>1, Caller
<1>3. Prepared(k, d, {}, {}, {}) /\ SameDead(k, d)
  BY <1>1, <1>2, ReadyPrepared
<1> HIDE DEF d
<1>4. Ended(t, d, {}, {}, {})
  BY <1>1, <1>2, <1>3, RescheduleEnds
<1> QED BY <1>1, <1>3, <1>4, PlainCallKeeps

(***************************************************************************)
(* SetPriority keeps the invariant.                                        *)
(***************************************************************************)
LEMMA SetPriorityKeeps ==
  ASSUME IInv, NEW t \in Task, NEW u \in Task, NEW p \in Priority,
         SetPriority(t, u, p), UNCHANGED <<calls, freed>>
  PROVE  IInv'
<1> DEFINE d == SetPrio(k, u, p)
<1>1. /\ Running(t)
      /\ IF u = t \/ k.state[u] = "Ready" THEN Reschedule(t, d) ELSE Return(t, d)
      /\ UNCHANGED <<at, victim, frames, op, signalled>>
  BY DEF SetPriority, SetPrio, Client
<1>2. InUse(k) /\ t = k.curr /\ frames = <<>> /\ k.state[t] = "Current" /\ Prioritised(k)
  BY <1>1, Caller
<1>3. /\ Prepared(k, d, {}, {}, {}) /\ SameDead(k, d) /\ d.state = k.state
      /\ d.prio = [k.prio EXCEPT ![u] = p] /\ d.run = k.run /\ d.atomic = k.atomic /\ d.curr = k.curr
  BY <1>2, SetPrioPrepared DEF Prepared
<1>4. k.prio \in [Task -> Priority]
  BY <1>2, CurrentFree, RecordsFields
<1> HIDE DEF d
<1>5. Ended(t, d, {}, {}, {})
  <2>1. CASE u = t \/ k.state[u] = "Ready"
    BY <1>1, <1>2, <1>3, <2>1, RescheduleEnds
  <2>2. CASE ~ (u = t \/ k.state[u] = "Ready")
    <3>1. d.prio[t] = k.prio[t] /\ \A x \in Task : k.state[x] = "Ready" => d.prio[x] = k.prio[x]
      BY <1>3, <1>4, <2>2
    <3>2. Prioritised(d)
      BY <1>2, <1>3, <3>1, StaysPrioritised, ZenonT(40)
    <3>3. Return(t, d)
      BY <1>1, <2>2
    <3> QED BY <1>2, <1>3, <3>2, <3>3, ReturnEnds
  <2> QED BY <2>1, <2>2
<1> QED BY <1>1, <1>3, <1>5, PlainCallKeeps

(***************************************************************************)
(* Delay keeps the invariant.                                              *)
(***************************************************************************)
LEMMA DelayKeeps ==
  ASSUME IInv, NEW t \in Task, NEW n \in Waits \cup {0}, Delay(t, n), UNCHANGED <<calls, freed>>
  PROVE  IInv'
<1>1. Running(t) /\ UNCHANGED <<at, victim, frames, op, signalled>>
  BY DEF Delay, Client
<1>2. InUse(k) /\ t = k.curr /\ t # Null /\ frames = <<>> /\ k.state[t] \notin Dead
  BY <1>1, Caller DEF Dead
<1>3. CASE n = 0
  <2> DEFINE d == MakeReady(k, t, FALSE)
  <2>1. Reschedule(t, d)
    BY <1>3 DEF Delay
  <2>2. Prepared(k, d, {}, {}, {}) /\ SameDead(k, d)
    BY <1>2, ReadyPrepared
  <2> HIDE DEF d
  <2>3. Ended(t, d, {}, {}, {})
    BY <1>2, <2>1, <2>2, RescheduleEnds
  <2> QED BY <1>1, <2>2, <2>3, PlainCallKeeps
<1>4. CASE n # 0
  <2> DEFINE d == Timed(Block(k, t, "Delaying"), t, n)
  <2>1. Reschedule(t, d) /\ n \in Waits
    BY <1>4 DEF Delay
  <2>2. Prepared(k, d, {NoQueue}, {}, {t}) /\ SameDead(k, d)
    BY <1>2, <2>1, DelayPrepared
  <2> HIDE DEF d
  <2>3. Ended(t, d, {NoQueue}, {}, {t})
    BY <1>2, <2>1, <2>2, RescheduleEnds
  <2>4. {NoQueue} \cap (Task \cup WaitQ) = {}
    BY QueueKinds
  <2> QED BY <1>1, <2>2, <2>3, <2>4, PlainCallKeeps
<1> QED BY <1>3, <1>4

(* Only the nesting levels of d differ in e.                               *)
SameButLevels(d, e) ==
  /\ e \in Records /\ SameLists(d, e) /\ SameTimes(d, e) /\ SameStatus(d, e)
  /\ e.curr = d.curr /\ e.from = d.from /\ e.fpu = d.fpu /\ e.ts = d.ts /\ e.run = d.run

(***************************************************************************)
(* A nesting level is set.                                                 *)
(***************************************************************************)
LEMMA AtomicSet ==
  ASSUME NEW d \in Records, NEW t \in Task, NEW n \in Nat
  PROVE  LET e == [d EXCEPT !.atomic[t] = n]
         IN  SameButLevels(d, e) /\ e.disint = d.disint /\ e.atomic = [d.atomic EXCEPT ![t] = n]
<1> DEFINE m == [d.atomic EXCEPT ![t] = n]
           e == [d EXCEPT !.atomic = m]
<1>1. [d EXCEPT !.atomic[t] = n] = e /\ m \in [Task -> Nat]
  BY DEF Records
<1> HIDE DEF m
<1>2. SameButLevels(d, e) /\ e.disint = d.disint /\ e.atomic = m
  BY <1>1 DEF Records, SameButLevels, SameLists, SameTimes, SameStatus
<1> HIDE DEF e
<1> QED BY <1>1, <1>2 DEF m

(***************************************************************************)
(* As AtomicSet, for the level of DisableInts.                             *)
(***************************************************************************)
LEMMA DisintSet ==
  ASSUME NEW d \in Records, NEW t \in Task, NEW n \in Nat
  PROVE  LET e == [d EXCEPT !.disint[t] = n]
         IN  SameButLevels(d, e) /\ e.atomic = d.atomic /\ e.disint = [d.disint EXCEPT ![t] = n]
<1> DEFINE m == [d.disint EXCEPT ![t] = n]
           e == [d EXCEPT !.disint = m]
<1>1. [d EXCEPT !.disint[t] = n] = e /\ m \in [Task -> Nat]
  BY DEF Records
<1> HIDE DEF m
<1>2. SameButLevels(d, e) /\ e.atomic = d.atomic /\ e.disint = m
  BY <1>1 DEF Records, SameButLevels, SameLists, SameTimes, SameStatus
<1> HIDE DEF e
<1> QED BY <1>1, <1>2 DEF m

(***************************************************************************)
(* A step of the current task that changes nothing but levels, and the     *)
(* interrupt flag with its own.                                            *)
(***************************************************************************)
LEMMA LevelsEnd ==
  ASSUME IInv, NEW t \in Task, Running(t), SameButLevels(k, k'), Prioritised(k'),
         iflag' \in BOOLEAN, iflag' <=> k'.disint[t] = 0,
         \A x \in Task \ {t} : k'.disint[x] = k.disint[x], eflags' = eflags, switched' = switched
  PROVE  Ended(t, k, {}, {}, {}) /\ SameDead(k, k)
<1>1. InUse(k) /\ t = k.curr /\ t \notin switched /\ switched \subseteq Task /\ k.state[t] = "Current"
  BY Caller DEF Running
<1>2. InUse(k')
  BY <1>1, ScalarsPrepared DEF SameButLevels
<1>3. Moved(k, k', {}, {}, {}) /\ SameDead(k, k') /\ SameDead(k, k)
  BY <1>1, <1>2 DEF Moved, Kept, Ungranted, FpuMoves, SameDead, SameButLevels, SameLists, SameStatus
<1>4. k'.curr = t /\ eflags' \in [Task -> BOOLEAN]
  BY <1>1 DEF SameButLevels, IInv, TypeOK
<1>5. \A x \in Task : x # t => (eflags'[x] <=> k'.disint[x] = 0)
  BY <1>1 DEF IInv, InterruptFlag
<1>6. \A x \in switched' : k'.disint[x] > 0
  BY <1>1 DEF IInv, SwitchedDisabled
<1> QED BY <1>1, <1>3, <1>4, <1>5, <1>6 DEF Ended, Awake

(***************************************************************************)
(* Atomic keeps the invariant.                                             *)
(***************************************************************************)
LEMMA AtomicKeeps ==
  ASSUME IInv, NEW t \in Task, Atomic(t), UNCHANGED <<calls, freed>>
  PROVE  IInv'
<1>1. Running(t) /\ k' = [k EXCEPT !.atomic[t] = @ + 1]
      /\ UNCHANGED <<iflag, eflags, switched, at, victim, frames, op, signalled>>
  BY DEF Atomic, Client, control
<1>2. InUse(k) /\ t = k.curr /\ frames = <<>> /\ op = NoOp
  BY <1>1, Caller
<1>3. k \in Records /\ k.atomic \in [Task -> Nat]
  BY <1>2, CurrentFree
<1>4. SameButLevels(k, k') /\ k'.disint = k.disint /\ k'.atomic = [k.atomic EXCEPT ![t] = @ + 1]
  <2> DEFINE n == k.atomic[t] + 1
  <2>1. n \in Nat /\ k' = [k EXCEPT !.atomic[t] = n]
    BY <1>1, <1>3
  <2> QED BY <1>3, <2>1, AtomicSet
<1>5. Prioritised(k')
  BY <1>2, <1>3, <1>4 DEF Prioritised, SameButLevels
<1>6. iflag' \in BOOLEAN /\ (iflag' <=> k'.disint[t] = 0)
  BY <1>1, <1>2, <1>4 DEF IInv, TypeOK, InterruptFlag
<1>7. Ended(t, k, {}, {}, {}) /\ SameDead(k, k)
  BY <1>1, <1>4, <1>5, <1>6, LevelsEnd
<1> QED BY <1>1, <1>7, PlainCallKeeps

(***************************************************************************)
(* Unatomic keeps the invariant.                                           *)
(***************************************************************************)
LEMMA UnatomicKeeps ==
  ASSUME IInv, NEW t \in Task, Unatomic(t), UNCHANGED <<calls, freed>>
  PROVE  IInv'
<1> DEFINE n == k.atomic[t] - 1
           d == [k EXCEPT !.atomic[t] = n]
<1>1. /\ Running(t) /\ k.atomic[t] > 0
      /\ UNCHANGED <<at, victim, frames, op, signalled>>
      /\ IF d.atomic[t] = 0 THEN Reschedule(t, d)
         ELSE k' = d /\ UNCHANGED <<iflag, eflags, switched>>
  BY DEF Unatomic, Client
<1>2. InUse(k) /\ t = k.curr /\ frames = <<>> /\ op = NoOp
  BY <1>1, Caller
<1>3. k \in Records /\ k.atomic \in [Task -> Nat]
  BY <1>2, CurrentFree
<1>4. SameButLevels(k, d) /\ d.disint = k.disint
  <2>1. n \in Nat
    BY <1>1, <1>3
  <2> HIDE DEF n
  <2> QED BY <1>3, <2>1, AtomicSet
<1> HIDE DEF n, d
<1>5. CASE d.atomic[t] = 0
  <2>1. Reschedule(t, d)
    BY <1>1, <1>5
  <2>2. Prepared(k, d, {}, {}, {}) /\ SameDead(k, d)
    BY <1>2, <1>4, ScalarsPrepared DEF SameButLevels, SameDead, SameStatus
  <2>3. Ended(t, d, {}, {}, {})
    BY <1>2, <2>1, <2>2, RescheduleEnds
  <2> QED BY <1>1, <2>2, <2>3, PlainCallKeeps
<1>6. CASE d.atomic[t] # 0
  <2>1. k' = d /\ UNCHANGED <<iflag, eflags, switched>>
    BY <1>1, <1>6
  <2>2. Prioritised(k')
    BY <1>2, <1>4, <1>6, <2>1 DEF Prioritised, SameButLevels
  <2>3. iflag' \in BOOLEAN /\ (iflag' <=> k'.disint[t] = 0)
    BY <1>2, <1>4, <2>1 DEF IInv, TypeOK, InterruptFlag
  <2>4. Ended(t, k, {}, {}, {}) /\ SameDead(k, k)
    BY <1>1, <1>4, <2>1, <2>2, <2>3, LevelsEnd
  <2> QED BY <1>1, <2>4, PlainCallKeeps
<1> QED BY <1>5, <1>6

(***************************************************************************)
(* DisableInts keeps the invariant.                                        *)
(***************************************************************************)
LEMMA DisableIntsKeeps ==
  ASSUME IInv, NEW t \in Task, DisableInts(t), UNCHANGED <<calls, freed>>
  PROVE  IInv'
<1>1. Running(t) /\ k' = [k EXCEPT !.disint[t] = @ + 1]
      /\ iflag' = (IF k.disint[t] = 0 THEN FALSE ELSE iflag)
      /\ UNCHANGED <<eflags, switched, at, victim, frames, op, signalled>>
  BY DEF DisableInts, Client, control
<1>2. InUse(k) /\ t = k.curr /\ frames = <<>> /\ op = NoOp /\ Prioritised(k)
  BY <1>1, Caller
<1>3. k \in Records /\ k.disint \in [Task -> Nat]
  BY <1>2, CurrentFree
<1>4. SameButLevels(k, k') /\ k'.atomic = k.atomic /\ k'.disint = [k.disint EXCEPT ![t] = @ + 1]
  <2> DEFINE n == k.disint[t] + 1
  <2>1. n \in Nat /\ k' = [k EXCEPT !.disint[t] = n]
    BY <1>1, <1>3
  <2> QED BY <1>3, <2>1, DisintSet
<1>5. Prioritised(k')
  BY <1>2, <1>4 DEF Prioritised, SameButLevels, SameLists, SameStatus
<1>6. iflag' \in BOOLEAN /\ (iflag' <=> k'.disint[t] = 0)
  <2>1. iflag \in BOOLEAN /\ (iflag <=> k.disint[t] = 0)
    BY <1>2 DEF IInv, TypeOK, InterruptFlag
  <2>2. k'.disint[t] # 0
    BY <1>3, <1>4
  <2>3. iflag' = FALSE
    BY <1>1, <2>1
  <2> QED BY <2>2, <2>3
<1>7. \A x \in Task \ {t} : k'.disint[x] = k.disint[x]
  BY <1>3, <1>4
<1>8. Ended(t, k, {}, {}, {}) /\ SameDead(k, k)
  BY <1>1, <1>4, <1>5, <1>6, <1>7, LevelsEnd
<1> QED BY <1>1, <1>8, PlainCallKeeps

(***************************************************************************)
(* RestoreInts keeps the invariant.                                        *)
(***************************************************************************)
LEMMA RestoreIntsKeeps ==
  ASSUME IInv, NEW t \in Task, RestoreInts(t), UNCHANGED <<calls, freed>>
  PROVE  IInv'
<1>1. Running(t) /\ k' = [k EXCEPT !.disint[t] = @ - 1] /\ k.disint[t] > 0
      /\ iflag' = (iflag \/ k.disint[t] = 1)
      /\ UNCHANGED <<eflags, switched, at, victim, frames, op, signalled>>
  BY DEF RestoreInts, Client, control
<1>2. InUse(k) /\ t = k.curr /\ frames = <<>> /\ op = NoOp /\ Prioritised(k)
  BY <1>1, Caller
<1>3. k \in Records /\ k.disint \in [Task -> Nat]
  BY <1>2, CurrentFree
<1>4. SameButLevels(k, k') /\ k'.atomic = k.atomic /\ k'.disint = [k.disint EXCEPT ![t] = @ - 1]
  <2> DEFINE n == k.disint[t] - 1
  <2>1. n \in Nat /\ k' = [k EXCEPT !.disint[t] = n]
    BY <1>1, <1>3
  <2> QED BY <1>3, <2>1, DisintSet
<1>5. Prioritised(k')
  BY <1>2, <1>4 DEF Prioritised, SameButLevels, SameLists, SameStatus
<1>6. iflag' \in BOOLEAN /\ (iflag' <=> k'.disint[t] = 0)
  <2>1. iflag \in BOOLEAN /\ (iflag <=> k.disint[t] = 0)
    BY <1>2 DEF IInv, TypeOK, InterruptFlag
  <2>2. k'.disint[t] = 0 <=> k.disint[t] = 1
    BY <1>3, <1>4
  <2>3. iflag' = (k.disint[t] = 1)
    BY <1>1, <2>1
  <2> QED BY <2>2, <2>3
<1>7. \A x \in Task \ {t} : k'.disint[x] = k.disint[x]
  BY <1>3, <1>4
<1>8. Ended(t, k, {}, {}, {}) /\ SameDead(k, k)
  BY <1>1, <1>4, <1>5, <1>6, <1>7, LevelsEnd
<1> QED BY <1>1, <1>8, PlainCallKeeps

-----------------------------------------------------------------------------
(* Exceptions, and calls on queues *)

(***************************************************************************)
(* The way out of an exception or of the outermost interrupt: the flags of *)
(* the task that loses the CPU are saved as they were in its code.         *)
(***************************************************************************)
LEMMA ExitEnds ==
  ASSUME IInv, NEW t \in Task, t = k.curr, NEW d, NEW W, NEW G, NEW X, NEW b \in BOOLEAN,
         b <=> k.disint[t] = 0, d.state[t] \in Awake,
         Moved(k, k', W, G, X), SameDead(d, k'), Prioritised(k'), k'.disint = k.disint,
         eflags' = [eflags EXCEPT ![t] = b], iflag' = eflags'[k'.curr], switched' = switched
  PROVE  Ended(t, d, W, G, X)
<1>1. eflags \in [Task -> BOOLEAN] /\ eflags' \in [Task -> BOOLEAN] /\ k'.curr \in Task
  BY CurrentFree DEF IInv, TypeOK, Moved
<1>2. \A x \in Task : x # t => (eflags[x] <=> k.disint[x] = 0)
  BY DEF IInv, InterruptFlag
<1>3. \A x \in Task : eflags'[x] <=> k'.disint[x] = 0
  BY <1>1, <1>2
<1>4. iflag' \in BOOLEAN /\ (iflag' <=> k'.disint[k'.curr] = 0)
  BY <1>1, <1>3
<1>5. \A x \in switched' : k'.disint[x] > 0
  BY DEF IInv, SwitchedDisabled
<1> QED BY <1>1, <1>3, <1>4, <1>5 DEF Ended

(***************************************************************************)
(* Memory for the state of the last owner of the coprocessor.              *)
(***************************************************************************)
LEMMA OwnerSaved ==
  ASSUME InUse(k)
  PROVE  LET m == IF k.fpu # NoTask /\ k.fpu \notin k.math
                  THEN [FreeTerminated(k) EXCEPT !.math = @ \cup {k.fpu}] ELSE k
         IN  InUse(m) /\ Prepared(k, m, {}, {}, {}) /\ SameDead(k, m)
<1> DEFINE f == FreeTerminated(k)
           a == f.math \cup {k.fpu}
           m == IF k.fpu # NoTask /\ k.fpu \notin k.math THEN [f EXCEPT !.math = a] ELSE k
<1>1. InUse(f) /\ Prepared(k, f, {}, {}, {}) /\ SameDead(k, f)
  BY FreeTerminatedPrepared
<1>2. k \in Records /\ k.fpu \in Task \cup {NoTask}
  BY CurrentFree, RecordsFields
<1> HIDE DEF f
<1>3. f \in Records /\ f.math \in SUBSET Task
  BY <1>1, CurrentFree, RecordsFields
<1>4. InUse(m) /\ Prepared(k, m, {}, {}, {}) /\ SameDead(k, m)
  <2>1. CASE ~ (k.fpu # NoTask /\ k.fpu \notin k.math)
    <3>1. m = k
      BY <2>1
    <3> HIDE DEF m
    <3> QED BY <3>1, NothingPrepared DEF SameDead
  <2>2. CASE k.fpu # NoTask /\ k.fpu \notin k.math
    <3> DEFINE g == [f EXCEPT !.math = a]
    <3>1. m = g /\ a \in SUBSET Task
      BY <1>2, <1>3, <2>2
    <3> HIDE DEF a
    <3>2. /\ g \in Records /\ SameLists(f, g) /\ SameTimes(f, g) /\ SameStatus(f, g)
          /\ g.curr = f.curr /\ g.from = f.from /\ g.disint = f.disint /\ g.fpu = f.fpu /\ g.ts = f.ts
      BY <1>3, <3>1 DEF Records, SameLists, SameTimes, SameStatus
    <3> HIDE DEF g, m
    <3>3. InUse(g) /\ Prepared(f, g, {}, {}, {})
      BY <1>1, <3>2, ScalarsPrepared
    <3>4. Prepared(k, g, {}, {}, {}) /\ SameDead(k, g)
      BY <1>1, <3>2, <3>3 DEF Prepared, Kept, Ungranted, SameDead, SameLists, SameStatus
    <3> QED BY <3>1, <3>3, <3>4
  <2> QED BY <2>1, <2>2
<1> QED BY <1>4 DEF f

(***************************************************************************)
(* A coprocessor instruction keeps the invariant.                          *)
(***************************************************************************)
LEMMA UseFpuKeeps ==
  ASSUME IInv, NEW t \in Task, UseFpu(t), UNCHANGED <<calls, freed>>
  PROVE  IInv'
<1> DEFINE f == FreeTerminated(k)
           m == IF k.fpu # NoTask /\ k.fpu \notin k.math
                THEN [f EXCEPT !.math = @ \cup {k.fpu}] ELSE k
           e == [m EXCEPT !.ts = FALSE, !.fpu = t]
           s == Select(e)
<1>1. /\ Running(t) /\ k' = s /\ eflags' = [eflags EXCEPT ![t] = iflag] /\ iflag' = eflags'[s.curr]
      /\ UNCHANGED <<switched, at, victim, frames, op, signalled>>
  BY DEF UseFpu, Client, control
<1>2. InUse(k) /\ t = k.curr /\ frames = <<>> /\ op = NoOp /\ k.state[t] = "Current"
  BY <1>1, Caller
<1>3. k \in Records /\ k.fpu \in Task \cup {NoTask}
  BY <1>2, CurrentFree, RecordsFields
<1> HIDE DEF s
<1>4. InUse(m) /\ Prepared(k, m, {}, {}, {}) /\ SameDead(k, m)
  BY <1>2, OwnerSaved
<1> HIDE DEF m
<1>5. m \in Records
  BY <1>4, CurrentFree
<1>6. /\ e \in Records /\ SameLists(m, e) /\ SameTimes(m, e) /\ SameStatus(m, e)
      /\ e.curr = m.curr /\ e.from = m.from /\ e.disint = m.disint /\ e.fpu = t
  BY <1>5 DEF Records, SameLists, SameTimes, SameStatus
<1> HIDE DEF e
<1>7. InUse(e) /\ Prepared(e, e, {}, {}, {})
  BY <1>4, <1>6, ScalarsPrepared, NothingPrepared
<1>8. /\ Moved(e, s, {}, {}, {}) /\ SameDead(e, s) /\ Prioritised(s) /\ s.disint = e.disint
  BY <1>7, SelectMoves DEF s
<1>9. SameDead(k, e)
  BY <1>4, <1>6 DEF SameDead, SameStatus
<1>10. Moved(k, s, {}, {}, {}) /\ s.disint = k.disint /\ e.state[t] \in Awake
  <2>1. FpuMoves(k, s)
    BY <1>2, <1>4, <1>6, <1>8 DEF Moved, FpuMoves, Prepared
  <2>2. Kept(k, s, {}) /\ Ungranted(k, s, {}, {})
    BY <1>4, <1>6, <1>8 DEF Moved, Prepared, Kept, Ungranted, SameLists, SameStatus
  <2>3. s.disint = k.disint
    BY <1>4, <1>6, <1>8 DEF Prepared
  <2>4. e.state[t] \in Awake
    BY <1>2, <1>4, <1>6, <1>7 DEF InUse, Prepared, Awake
  <2> QED BY <1>8, <2>1, <2>2, <2>3, <2>4 DEF Moved
<1>11. iflag \in BOOLEAN /\ (iflag <=> k.disint[t] = 0)
  BY <1>2 DEF IInv, TypeOK, InterruptFlag
<1>12. Ended(t, e, {}, {}, {})
  BY <1>1, <1>2, <1>8, <1>10, <1>11, ExitEnds
<1> QED BY <1>1, <1>9, <1>12, PlainCallKeeps

(***************************************************************************)
(* A call in which the current task comes to wait keeps the invariant if   *)
(* it waits in no queue or in one that nobody deletes.                     *)
(***************************************************************************)
LEMMA WaitingCallKeeps ==
  ASSUME IInv, NEW t \in Task, Running(t), at[t] = "client", NEW d, SameDead(k, d),
         NEW W, \A q \in W : Open(q), Ended(t, d, W, {}, {t}), d.state[t] \notin Awake,
         NEW c, c \in Blocking, at' = [at EXCEPT ![t] = c], Grant(t, FALSE),
         UNCHANGED <<calls, freed, victim, frames, op>>
  PROVE  IInv'
<1> DEFINE G == {}
           X == {t}
<1>1. Ended(t, d, W, G, X) /\ G = {} /\ X = {t}
  OBVIOUS
<1> HIDE DEF G, X
<1>2. /\ frames' = <<>> /\ op' = NoOp /\ op.loop # "flush" /\ switched \subseteq switched' /\ switched' \subseteq Task
      /\ t \in switched'
      /\ at \in [Task -> {"client", "wait", "send", "receive", "flushed", "released", "emptied"}]
      /\ signalled \in [Task -> BOOLEAN]
  BY <1>1, Caller DEF Ended
<1>3. \A x \in Task : StaysOrWaits(x, X)
  BY <1>1, <1>2 DEF StaysOrWaits, Deleting, Blocking
<1>4. signalled' = [signalled EXCEPT ![t] = FALSE]
  BY DEF Grant
<1>5. \A x \in switched' : Granted(x, G, X)
  BY <1>1, <1>2, <1>4 DEF Granted
<1>6. Follows(W, G, X)
  BY <1>2, <1>3, <1>5 DEF Follows
<1>7. /\ at' \in [Task -> {"client", "wait", "send", "receive", "flushed", "released", "emptied"}]
      /\ signalled' \in [Task -> BOOLEAN]
  BY <1>2, <1>4 DEF Blocking
<1> QED BY <1>1, <1>2, <1>6, <1>7, EndKeeps

(***************************************************************************)
(* A call that grants the wait of u keeps the invariant.                   *)
(***************************************************************************)
LEMMA GrantingCallKeeps ==
  ASSUME IInv, NEW t \in Task, Running(t), NEW d, SameDead(k, d),
         NEW u \in Task, Ended(t, d, {}, {u}, {}), Grant(u, TRUE),
         UNCHANGED <<calls, freed, at, victim, frames, op>>
  PROVE  IInv'
<1> DEFINE G == {u}
           X == {}
           W == {}
<1>1. Ended(t, d, W, G, X) /\ G = {u} /\ X = {} /\ W = {}
  OBVIOUS
<1> HIDE DEF G, X, W
<1>2. /\ frames' = <<>> /\ op' = NoOp /\ op.loop # "flush" /\ switched \subseteq switched' /\ switched' \subseteq Task
      /\ at \in [Task -> {"client", "wait", "send", "receive", "flushed", "released", "emptied"}]
      /\ signalled \in [Task -> BOOLEAN]
  BY <1>1, Caller DEF Ended
<1>3. \A x \in Task : StaysOrWaits(x, X)
  BY DEF StaysOrWaits
<1>4. signalled' = [signalled EXCEPT ![u] = TRUE]
  BY DEF Grant
<1>5. \A x \in switched' : Granted(x, G, X)
  BY <1>1, <1>2, <1>4 DEF Granted
<1>6. Follows(W, G, X)
  BY <1>1, <1>2, <1>3, <1>5 DEF Follows
<1>7. signalled' \in [Task -> BOOLEAN]
  BY <1>2, <1>4
<1> QED BY <1>1, <1>2, <1>6, <1>7, EndKeeps

(***************************************************************************)
(* WaitQueue keeps the invariant.                                          *)
(***************************************************************************)
LEMMA WaitQueueKeeps ==
  ASSUME IInv, NEW t \in Task, NEW q \in WaitQ, NEW n \in Waits,
         WaitQueue(t, q, n), UNCHANGED <<calls, freed>>
  PROVE  IInv'
<1> DEFINE d == Timed(Enqueue(Block(k, t, "Waiting"), t, q), t, n)
           c == "wait"
<1>1. /\ Running(t) /\ at[t] = "client" /\ Usable(q) /\ Reschedule(t, d)
      /\ at' = [at EXCEPT ![t] = c] /\ Grant(t, FALSE) /\ UNCHANGED <<victim, frames, op>>
  BY DEF WaitQueue, Client
<1>2. InUse(k) /\ t = k.curr /\ t # Null /\ frames = <<>>
  BY <1>1, Caller
<1>3. Prepared(k, d, {q}, {}, {t}) /\ SameDead(k, d) /\ d.state[t] \notin Awake
  BY <1>2, WaitQueuePrepared, ZenonT(40) DEF Awake
<1> HIDE DEF d
<1>4. Ended(t, d, {q}, {}, {t})
  BY <1>1, <1>2, <1>3, RescheduleEnds
<1>5. \A x \in {q} : Open(x)
  BY <1>1, QueueKinds DEF Open, Usable
<1>6. c \in Blocking
  BY DEF Blocking
<1> HIDE DEF c
<1> DEFINE W == {q}
<1>7. Ended(t, d, W, {}, {t}) /\ \A x \in W : Open(x)
  BY <1>4, <1>5
<1>8. /\ Running(t) /\ at[t] = "client" /\ at' = [at EXCEPT ![t] = c] /\ Grant(t, FALSE)
      /\ UNCHANGED <<victim, frames, op>> /\ SameDead(k, d) /\ d.state[t] \notin Awake
  BY <1>1, <1>3
<1> HIDE DEF W
<1> QED BY <1>6, <1>7, <1>8, WaitingCallKeeps

(***************************************************************************)
(* SignalQueue keeps the invariant.                                        *)
(***************************************************************************)
LEMMA SignalQueueKeeps ==
  ASSUME IInv, NEW t \in Task, NEW q \in WaitQ, SignalQueue(t, q), UNCHANGED <<calls, freed>>
  PROVE  IInv'
<1> DEFINE u == PeekLast(k, q)
           d == MakeReady(GetLast(k, q), u, TRUE)
<1>1. /\ Running(t) /\ k.list[q] # <<>> /\ Reschedule(t, d) /\ Grant(u, TRUE)
      /\ UNCHANGED <<at, victim, frames, op>>
  BY DEF SignalQueue, Client
<1>2. InUse(k) /\ t = k.curr /\ frames = <<>>
  BY <1>1, Caller
<1>3. u \in Task /\ Prepared(k, d, {}, {u}, {}) /\ SameDead(k, d)
  BY <1>1, <1>2, WakeLastPrepared
<1> HIDE DEF d
<1>4. PICK v \in Task : v = u
  BY <1>3
<1> HIDE DEF u
<1>5. Ended(t, d, {}, {v}, {})
  BY <1>1, <1>2, <1>3, <1>4, RescheduleEnds
<1>6. Grant(v, TRUE) /\ v \in Task
  BY <1>1, <1>4
<1> QED BY <1>1, <1>3, <1>5, <1>6, GrantingCallKeeps

(***************************************************************************)
(* CreateQueue keeps the invariant.                                        *)
(***************************************************************************)
LEMMA CreateQueueKeeps ==
  ASSUME IInv, NEW t \in Task, NEW q \in WaitQ, CreateQueue(t, q), UNCHANGED calls
  PROVE  IInv'
<1> DEFINE d == FreeTerminated(k)
<1>1. /\ Running(t) /\ freed' \subseteq freed /\ AfterAtomic(t, d)
      /\ UNCHANGED <<at, victim, frames, op, signalled>>
  BY DEF CreateQueue, Client
<1>2. InUse(k) /\ t = k.curr /\ frames = <<>>
  BY <1>1, Caller
<1>3. Prepared(k, d, {}, {}, {}) /\ SameDead(k, d) /\ InUse(d) /\ d.atomic = k.atomic
  BY <1>2, FreeTerminatedPrepared
<1> HIDE DEF d
<1>4. d.state[t] = "Current"
  BY <1>2, <1>3 DEF InUse, Prepared
<1>5. Ended(t, d, {}, {}, {})
  BY <1>1, <1>2, <1>3, <1>4, AfterAtomicEnds
<1> QED BY <1>1, <1>3, <1>5, PlainCallKeeps

-----------------------------------------------------------------------------
(* Messages *)

(***************************************************************************)
(* SendTimed keeps the invariant when the receiver is ready for it.        *)
(***************************************************************************)
LEMMA SendKeeps ==
  ASSUME IInv, NEW t \in Task, NEW u \in Task, Send(t, u), UNCHANGED <<calls, freed>>
  PROVE  IInv'
<1> DEFINE d == MakeReady([k EXCEPT !.from[u] = t], u, TRUE)
<1>1. /\ Running(t) /\ k.state[u] = "Receiving" /\ Reschedule(t, d) /\ Grant(u, TRUE)
      /\ UNCHANGED <<at, victim, frames, op>>
  BY DEF Send, Client, Awaits
<1>2. InUse(k) /\ t = k.curr /\ frames = <<>>
  BY <1>1, Caller
<1>3. Prepared(k, d, {}, {u}, {}) /\ SameDead(k, d)
  BY <1>1, <1>2, SendPrepared
<1> HIDE DEF d
<1>4. Ended(t, d, {}, {u}, {})
  BY <1>1, <1>2, <1>3, RescheduleEnds
<1> QED BY <1>1, <1>3, <1>4, GrantingCallKeeps

(***************************************************************************)
(* SendTimed keeps the invariant when it has to wait for the receiver.     *)
(***************************************************************************)
LEMMA SendWaitKeeps ==
  ASSUME IInv, NEW t \in Task, NEW u \in Task, NEW n \in Waits,
         SendWait(t, u, n), UNCHANGED <<calls, freed>>
  PROVE  IInv'
<1> DEFINE d == Timed(Enqueue([k EXCEPT !.state[t] = "Sending"], t, u), t, n)
           c == "send"
<1>1. /\ Running(t) /\ at[t] = "client" /\ Handle(u) /\ Reschedule(t, d)
      /\ ~ (k.state[u] = "Receiving" /\ k.from[u] \in {NoTask, t})
      /\ at' = [at EXCEPT ![t] = c] /\ Grant(t, FALSE) /\ UNCHANGED <<victim, frames, op>>
  BY DEF SendWait, Client, Awaits
<1>2. InUse(k) /\ t = k.curr /\ t # Null /\ frames = <<>> /\ freed \subseteq WaitQ
  BY <1>1, Caller
<1>3. Prepared(k, d, {u}, {}, {t}) /\ SameDead(k, d) /\ d.state[t] \notin Awake
  BY <1>1, <1>2, SendWaitPrepared DEF Awake
<1> HIDE DEF d
<1>4. Ended(t, d, {u}, {}, {t})
  BY <1>1, <1>2, <1>3, RescheduleEnds
<1>5. \A x \in {u} : Open(x)
  BY <1>1, <1>2, QueueKinds DEF Open, Handle, Dead
<1>6. c \in Blocking
  BY DEF Blocking
<1> HIDE DEF c
<1> DEFINE W == {u}
<1>7. Ended(t, d, W, {}, {t}) /\ \A x \in W : Open(x)
  BY <1>4, <1>5
<1>8. /\ Running(t) /\ at[t] = "client" /\ at' = [at EXCEPT ![t] = c] /\ Grant(t, FALSE)
      /\ UNCHANGED <<victim, frames, op>> /\ SameDead(k, d) /\ d.state[t] \notin Awake
  BY <1>1, <1>3
<1> HIDE DEF W
<1> QED BY <1>6, <1>7, <1>8, WaitingCallKeeps

(***************************************************************************)
(* The sender that ReceiveTimed finds is another task, and it is sending.  *)
(***************************************************************************)
LEMMA SenderFound ==
  ASSUME NEW t \in Task, InUse(k), NEW f \in Task \cup {NoTask}, NEW s \in Senders(t, f)
  PROVE  s \in Task /\ k.queue[s] = t /\ k.state[s] = "Sending"
<1>1. s \in Task /\ k.queue[s] = t
  <2>1. CASE f # NoTask
    BY <2>1 DEF Senders
  <2>2. CASE f = NoTask
    <3>1. k.list[t] # <<>> /\ s = PeekLast(k, t)
      BY <2>2 DEF Senders
    <3> QED BY <3>1, LastOfList, QueueKinds DEF InUse, Sound
  <2> QED BY <2>1, <2>2
<1> QED BY <1>1 DEF InUse, Sound, Placed, Fits

(* When it finds none, none of them waits.                                 *)
LEMMA NoSenders ==
  ASSUME NEW t \in Task, InUse(k), NEW f \in Task \cup {NoTask}, Senders(t, f) = {}
  PROVE  NobodySends(k, t, f)
<1>1. CASE f # NoTask
  BY <1>1 DEF Senders, NobodySends
<1>2. CASE f = NoTask
  <2>1. k.list[t] = <<>>
    BY <1>2 DEF Senders
  <2> QED BY <2>1, LastOfList, QueueKinds DEF InUse, Sound, NobodySends
<1> QED BY <1>1, <1>2

(***************************************************************************)
(* ReceiveTimed keeps the invariant when a sender waits.                   *)
(***************************************************************************)
LEMMA ReceiveKeeps ==
  ASSUME IInv, NEW t \in Task, NEW f \in Task \cup {NoTask}, Receive(t, f), UNCHANGED <<calls, freed>>
  PROVE  IInv'
<1>1. /\ Running(t) /\ UNCHANGED <<at, victim, frames, op>>
      /\ \E s \in Senders(t, f) : Reschedule(t, MakeReady(k, s, TRUE)) /\ Grant(s, TRUE)
  BY DEF Receive, Client
<1>2. InUse(k) /\ t = k.curr /\ frames = <<>>
  BY <1>1, Caller
<1>3. PICK s \in Senders(t, f) : Reschedule(t, MakeReady(k, s, TRUE)) /\ Grant(s, TRUE)
  BY <1>1
<1>4. s \in Task /\ k.queue[s] = t /\ k.state[s] = "Sending"
  BY <1>2, SenderFound
<1>5. k.state[s] \notin Dead
  BY <1>4 DEF Dead
<1> DEFINE d == MakeReady(k, s, TRUE)
<1>6. Prepared(k, d, {}, {s}, {}) /\ SameDead(k, d)
  BY <1>2, <1>4, <1>5, ReadyPrepared
<1>7. Reschedule(t, d)
  BY <1>3
<1> HIDE DEF d
<1>8. Ended(t, d, {}, {s}, {})
  BY <1>2, <1>6, <1>7, RescheduleEnds
<1>9. Grant(s, TRUE)
  BY <1>3
<1> QED BY <1>1, <1>4, <1>6, <1>8, <1>9, GrantingCallKeeps

(***************************************************************************)
(* ReceiveTimed keeps the invariant when no sender it asks for waits.      *)
(***************************************************************************)
LEMMA ReceiveWaitKeeps ==
  ASSUME IInv, NEW t \in Task, NEW f \in Task \cup {NoTask}, NEW n \in Waits,
         ReceiveWait(t, f, n), UNCHANGED <<calls, freed>>
  PROVE  IInv'
<1> DEFINE d == Timed([k EXCEPT !.from[t] = f, !.state[t] = "Receiving"], t, n)
           c == "receive"
<1>1. /\ Running(t) /\ at[t] = "client" /\ Senders(t, f) = {} /\ Reschedule(t, d)
      /\ at' = [at EXCEPT ![t] = c] /\ Grant(t, FALSE) /\ UNCHANGED <<victim, frames, op>>
  BY DEF ReceiveWait, Client
<1>2. InUse(k) /\ t = k.curr /\ t # Null /\ frames = <<>>
  BY <1>1, Caller
<1>3. NobodySends(k, t, f)
  BY <1>1, <1>2, NoSenders
<1>4. Prepared(k, d, {NoQueue}, {}, {t}) /\ SameDead(k, d) /\ d.state[t] \notin Awake
  BY <1>2, <1>3, ReceiveWaitPrepared DEF Awake
<1> HIDE DEF d
<1>5. Ended(t, d, {NoQueue}, {}, {t})
  BY <1>1, <1>2, <1>4, RescheduleEnds
<1>6. \A x \in {NoQueue} : Open(x)
  BY QueueKinds DEF Open
<1>7. c \in Blocking
  BY DEF Blocking
<1> HIDE DEF c
<1> DEFINE W == {NoQueue}
<1>8. Ended(t, d, W, {}, {t}) /\ \A x \in W : Open(x)
  BY <1>5, <1>6
<1>9. /\ Running(t) /\ at[t] = "client" /\ at' = [at EXCEPT ![t] = c] /\ Grant(t, FALSE)
      /\ UNCHANGED <<victim, frames, op>> /\ SameDead(k, d) /\ d.state[t] \notin Awake
  BY <1>1, <1>4
<1> HIDE DEF W
<1> QED BY <1>7, <1>8, <1>9, WaitingCallKeeps

-----------------------------------------------------------------------------
(* The loops, and deletions *)

(***************************************************************************)
(* Data that stays as it is.                                               *)
(***************************************************************************)
LEMMA NothingMoves ==
  ASSUME IInv, NEW G, k' = k
  PROVE  Moved(k, k', {}, G, {}) /\ SameDead(k, k')
<1>1. InUse(k) /\ k.state[k.curr] = "Current"
  BY DEF IInv, DataSound, InUse
<1>2. Moved(k, k, {}, G, {})
  BY <1>1, NothingPrepared, PreparedMoves
<1> QED BY <1>2 DEF SameDead

(***************************************************************************)
(* A step of the current task that changes only what it is doing keeps the *)
(* control part.                                                           *)
(***************************************************************************)
LEMMA QuietControls ==
  ASSUME IInv, NEW t \in Task, Running(t), UNCHANGED <<k, iflag, eflags, switched, frames, op>>, RestTyped'
  PROVE  Control'
<1>2. TypeOK'
  BY DEF IInv, TypeOK, RestTyped
<1>3. DataSound' /\ LoopsAgree' /\ SwitchedDisabled' /\ InterruptFlag' /\ PriorityScheduling'
  BY DEF IInv, DataSound, LoopsAgree, SwitchedDisabled, InterruptFlag, PriorityScheduling
<1> QED BY <1>2, <1>3 DEF Control

(***************************************************************************)
(* FlushQueue disables interrupts and starts its loop: the control part of *)
(* the invariant is kept.                                                  *)
(***************************************************************************)
LEMMA FlushControls ==
  ASSUME IInv, NEW t \in Task, Running(t), NEW q \in Task \cup WaitQ, NEW ok \in BOOLEAN,
         op' = [loop |-> "flush", queue |-> q, success |-> ok], iflag' = FALSE,
         UNCHANGED <<k, eflags, switched, frames>>, RestTyped'
  PROVE  Control'
<1>1. frames = <<>>
  BY Caller
<1>2. TypeOK'
  <2>1. op' \in [loop : {"none", "flush", "clock"}, queue : Queue \cup {NoQueue}, success : BOOLEAN]
    BY QueueKinds
  <2> QED BY <2>1 DEF IInv, TypeOK, RestTyped
<1>3. op'.loop = "flush" /\ op'.queue = q /\ op' # NoOp
  BY DEF NoOp
<1>4. LoopsAgree'
  BY <1>1, <1>3 DEF LoopsAgree
<1>5. DataSound' /\ SwitchedDisabled'
  BY DEF IInv, DataSound, SwitchedDisabled
<1>6. InterruptFlag' /\ PriorityScheduling'
  BY <1>3 DEF IInv, InterruptFlag, PriorityScheduling
<1> QED BY <1>2, <1>4, <1>5, <1>6 DEF Control

(***************************************************************************)
(* FlushQueue keeps the invariant.                                         *)
(***************************************************************************)
LEMMA FlushQueueKeeps ==
  ASSUME IInv, NEW t \in Task, NEW q \in WaitQ, NEW ok \in BOOLEAN,
         FlushQueue(t, q, ok), UNCHANGED <<calls, freed>>
  PROVE  IInv'
<1>1. /\ Running(t) /\ op' = [loop |-> "flush", queue |-> q, success |-> ok] /\ iflag' = FALSE
      /\ UNCHANGED <<k, eflags, switched, at, victim, frames, signalled>>
  BY DEF FlushQueue, Client
<1>2. RestTyped'
  BY <1>1 DEF RestTyped, IInv, TypeOK
<1>3. Control'
  BY <1>1, <1>2, FlushControls
<1>4. op.loop # "flush" /\ switched' \subseteq Task
  BY <1>1, Caller
<1>5. Follows({}, {}, {})
  BY <1>1, <1>4 DEF Follows, StaysOrWaits, Granted
<1>6. Moved(k, k', {}, {}, {}) /\ SameDead(k, k')
  BY <1>1, NothingMoves
<1>7. History'
  BY <1>4, <1>5, <1>6, MovedKeeps
<1> QED BY <1>3, <1>7 DEF IInv, Control, History

(***************************************************************************)
(* One turn of a loop keeps the control part if it leaves the current task *)
(* as it is.                                                               *)
(***************************************************************************)
LEMMA LoopControls ==
  ASSUME IInv, op # NoOp, InUse(k'), k'.curr = k.curr, k'.disint = k.disint,
         UNCHANGED <<iflag, eflags, switched, frames, op>>, RestTyped'
  PROVE  Control'
<1>1. k' \in Records
  BY CurrentFree
<1>2. TypeOK'
  BY <1>1 DEF IInv, TypeOK, RestTyped
<1>3. DataSound' /\ LoopsAgree' /\ SwitchedDisabled'
  BY DEF IInv, DataSound, LoopsAgree, SwitchedDisabled
<1>4. InterruptFlag' /\ PriorityScheduling'
  BY DEF IInv, InterruptFlag, PriorityScheduling
<1> QED BY <1>2, <1>3, <1>4 DEF Control

(***************************************************************************)
(* A step that sets the outcome of a wait of u and moves nobody else's     *)
(* keeps the history part.                                                 *)
(***************************************************************************)
LEMMA GrantFollows ==
  ASSUME IInv, NEW u \in Task, NEW ok \in BOOLEAN, Grant(u, ok), NEW G, NEW X,
         G = IF ok THEN {u} ELSE {}, X = IF ok THEN {} ELSE {u},
         UNCHANGED <<at, victim, switched, op, freed>>
  PROVE  Follows({}, G, X) /\ signalled' \in [Task -> BOOLEAN] /\ switched' \subseteq Task
<1>1. /\ signalled' = [signalled EXCEPT ![u] = ok] /\ signalled \in [Task -> BOOLEAN]
      /\ switched \subseteq Task
  BY DEF Grant, IInv, TypeOK
<1>2. \A x \in switched' : Granted(x, G, X)
  BY <1>1 DEF Granted
<1> QED BY <1>1, <1>2 DEF Follows, StaysOrWaits

(***************************************************************************)
(* A turn of FlushQueue keeps the invariant.                               *)
(***************************************************************************)
LEMMA FlushNextKeeps ==
  ASSUME IInv, FlushNext, UNCHANGED <<calls, freed>>
  PROVE  IInv'
<1> DEFINE q == op.queue
           u == PeekLast(k, q)
           ok == op.success
           d == MakeReady(GetLast(k, q), u, ok)
<1>1. /\ op.loop = "flush" /\ k.list[q] # <<>> /\ k' = d /\ Grant(u, ok)
      /\ UNCHANGED <<iflag, eflags, switched, at, victim, frames, op>>
  BY DEF FlushNext, control
<1>2. q \in Task \cup WaitQ /\ ok \in BOOLEAN /\ op # NoOp /\ InUse(k)
  BY <1>1 DEF IInv, LoopsAgree, TypeOK, DataSound, NoOp
<1> HIDE DEF q, ok
<1>3. /\ u \in Task /\ Prepared(k, d, {}, {u}, {}) /\ (~ ok => Prepared(k, d, {}, {}, {u}))
      /\ SameDead(k, d) /\ d.state[k.curr] = "Current"
  BY <1>1, <1>2, WakeLastPrepared
<1> HIDE DEF d
<1>4. PICK v \in Task : v = u
  BY <1>3
<1>5. Grant(v, ok) /\ Prepared(k, d, {}, {v}, {}) /\ (~ ok => Prepared(k, d, {}, {}, {v}))
  BY <1>1, <1>3, <1>4
<1> HIDE DEF u
<1> DEFINE G == IF ok THEN {v} ELSE {}
           X == IF ok THEN {} ELSE {v}
<1>6. Prepared(k, d, {}, G, X)
  BY <1>2, <1>5
<1>7. Follows({}, G, X) /\ signalled' \in [Task -> BOOLEAN] /\ switched' \subseteq Task
  BY <1>1, <1>2, <1>5, GrantFollows
<1> HIDE DEF G, X
<1>8. Moved(k, k', {}, G, X) /\ SameDead(k, k')
  BY <1>1, <1>3, <1>6, PreparedMoves
<1>9. InUse(k') /\ k'.curr = k.curr /\ k'.disint = k.disint
  BY <1>1, <1>6, <1>8 DEF Moved, Prepared
<1>10. RestTyped'
  BY <1>1, <1>7 DEF RestTyped, IInv, TypeOK
<1>11. Control'
  BY <1>1, <1>2, <1>9, <1>10, LoopControls
<1>12. History'
  BY <1>7, <1>8, MovedKeeps
<1> QED BY <1>11, <1>12 DEF IInv, Control, History

(***************************************************************************)
(* The end of FlushQueue keeps the invariant: the queue is empty.          *)
(***************************************************************************)
LEMMA FlushEndKeeps ==
  ASSUME IInv, FlushEnd, UNCHANGED <<calls, freed>>
  PROVE  IInv'
<1>1. /\ op.loop = "flush" /\ k.list[op.queue] = <<>> /\ Reschedule(k.curr, k) /\ op' = NoOp
      /\ UNCHANGED <<at, victim, frames, signalled>>
  BY DEF FlushEnd
<1>2. PICK t \in Task : t = k.curr
  BY CurrentFree DEF IInv, DataSound
<1>3. /\ InUse(k) /\ frames = <<>> /\ op.queue \in Queue
      /\ at \in [Task -> {"client", "wait", "send", "receive", "flushed", "released", "emptied"}]
      /\ signalled \in [Task -> BOOLEAN]
  BY <1>1, QueueKinds DEF IInv, DataSound, LoopsAgree, TypeOK
<1>4. Prepared(k, k, {}, {}, {}) /\ SameDead(k, k) /\ Reschedule(t, k)
  BY <1>1, <1>2, <1>3, NothingPrepared DEF SameDead
<1>5. Ended(t, k, {}, {}, {})
  BY <1>2, <1>3, <1>4, RescheduleEnds
<1>6. \A u \in Task : k.queue[u] # op.queue
  BY <1>1, <1>3, LastOfList DEF InUse, Sound
<1>7. Follows({}, {}, {})
  <2>1. switched \subseteq switched'
    BY <1>5 DEF Ended
  <2> QED BY <1>1, <1>6, <2>1 DEF Follows, StaysOrWaits, Granted
<1>8. frames' = <<>> /\ op' = NoOp
  BY <1>1, <1>3
<1> QED BY <1>1, <1>3, <1>4, <1>5, <1>7, <1>8, EndKeeps

(***************************************************************************)
(* What begins a deletion, of task or queue v: v is handed to the task     *)
(* that deletes it and its queue is flushed if anybody is in it.           *)
(***************************************************************************)
LEMMA DeletionBegins ==
  ASSUME IInv, NEW t \in Task, Running(t), at[t] = "client",
         NEW v \in Task \cup WaitQ, v # Null, Open(v), NEW c,
         (v \in Task /\ c = "flushed") \/ (v \in WaitQ /\ c = "emptied"),
         victim' = [victim EXCEPT ![t] = v], at' = [at EXCEPT ![t] = c],
         IF k.list[v] = <<>> THEN UNCHANGED <<op, iflag>>
         ELSE op' = [loop |-> "flush", queue |-> v, success |-> FALSE] /\ iflag' = FALSE,
         UNCHANGED <<calls, freed, k, eflags, switched, frames, signalled>>
  PROVE  IInv'
<1>1. /\ InUse(k) /\ t = k.curr /\ t # Null /\ frames = <<>> /\ op = NoOp /\ op.loop # "flush"
      /\ at \in [Task -> {"client", "wait", "send", "receive", "flushed", "released", "emptied"}]
      /\ victim \in [Task -> Task \cup WaitQ \cup {NoTask}] /\ switched \subseteq Task
  BY Caller
<1>2. RestTyped'
  BY <1>1 DEF RestTyped, IInv, TypeOK
<1>3. Control'
  <2>1. CASE k.list[v] = <<>>
    BY <1>2, <2>1, QuietControls
  <2>2. CASE k.list[v] # <<>>
    BY <1>2, <2>2, FlushControls
  <2> QED BY <2>1, <2>2
<1>4. /\ VictimsAgree /\ VictimsEmpty /\ GoneEmpty /\ FpuAgrees /\ TrueMeansGranted /\ BlockedInside
  BY DEF IInv
<1>5. VictimsAgree'
  <2> SUFFICES ASSUME NEW x \in Task
               PROVE  /\ victim'[x] # Null
                      /\ at'[x] \in {"flushed", "released"} /\ k.state[x] \notin Dead => victim'[x] \in Task
                      /\ at'[x] = "emptied" /\ k.state[x] \notin Dead => victim'[x] \in WaitQ
                      /\ at'[x] \notin Deleting => victim'[x] = NoTask
    BY DEF VictimsAgree
  <2>1. CASE x = t
    BY <1>1, <2>1 DEF Deleting
  <2>2. CASE x # t
    <3>1. at'[x] = at[x] /\ victim'[x] = victim[x]
      BY <1>1, <2>2
    <3> QED BY <1>4, <3>1 DEF VictimsAgree
  <2> QED BY <2>1, <2>2
<1>6. VictimsEmpty'
  <2> SUFFICES ASSUME NEW x \in Task, NEW u \in Task, victim'[x] \in Task \cup WaitQ, k.queue[u] = victim'[x]
               PROVE  op'.loop = "flush" /\ op'.queue = victim'[x]
    BY DEF VictimsEmpty, Flushing
  <2>1. CASE x = t
    <3>1. victim'[x] = v
      BY <1>1, <2>1
    <3>2. k.list[v] # <<>>
      BY <1>1, <3>1, LastOfList, QueueKinds DEF InUse, Sound
    <3> QED BY <3>1, <3>2
  <2>2. CASE x # t
    BY <1>1, <1>4, <2>2 DEF VictimsEmpty, Flushing
  <2> QED BY <2>1, <2>2
<1>7. GoneEmpty'
  BY <1>4 DEF GoneEmpty
<1>8. FpuAgrees'
  <2>1. ~ k.ts => k.fpu = k.curr
    BY <1>1, <1>4 DEF FpuAgrees
  <2> QED BY <2>1 DEF FpuAgrees
<1>9. TrueMeansGranted' /\ BlockedInside'
  <2>1. \A x \in Task : at'[x] \in Blocking => at[x] \in Blocking /\ at'[x] = at[x]
    BY <1>1 DEF Blocking
  <2> QED BY <1>1, <1>4, <2>1 DEF TrueMeansGranted, BlockedInside, Blocking
<1> QED BY <1>3, <1>5, <1>6, <1>7, <1>8, <1>9 DEF IInv, Control

(***************************************************************************)
(* DeleteQueue keeps the invariant when it begins.                         *)
(***************************************************************************)
LEMMA DeleteQueueKeeps ==
  ASSUME IInv, NEW t \in Task, NEW q \in WaitQ, DeleteQueue(t, q), UNCHANGED <<calls, freed>>
  PROVE  IInv'
<1> DEFINE c == "emptied"
<1>1. /\ Running(t) /\ at[t] = "client" /\ Usable(q)
      /\ victim' = [victim EXCEPT ![t] = q] /\ at' = [at EXCEPT ![t] = c]
      /\ IF k.list[q] = <<>> THEN UNCHANGED <<op, iflag>>
         ELSE op' = [loop |-> "flush", queue |-> q, success |-> FALSE] /\ iflag' = FALSE
      /\ UNCHANGED <<k, eflags, switched, frames, signalled>>
  BY DEF DeleteQueue, Client
<1>2. Open(q) /\ q # Null /\ c = "emptied"
  BY <1>1, QueueKinds DEF Open, Usable
<1> HIDE DEF c
<1> QED BY <1>1, <1>2, DeletionBegins

(***************************************************************************)
(* DeleteTask keeps the invariant when it begins.                          *)
(***************************************************************************)
LEMMA DeleteTaskKeeps ==
  ASSUME IInv, NEW t \in Task, NEW u \in Task, DeleteTask(t, u), UNCHANGED <<calls, freed>>
  PROVE  IInv'
<1> DEFINE c == "flushed"
<1>1. /\ Running(t) /\ at[t] = "client" /\ Handle(u)
      /\ victim' = [victim EXCEPT ![t] = u] /\ at' = [at EXCEPT ![t] = c]
      /\ IF k.list[u] = <<>> THEN UNCHANGED <<op, iflag>>
         ELSE op' = [loop |-> "flush", queue |-> u, success |-> FALSE] /\ iflag' = FALSE
      /\ UNCHANGED <<k, eflags, switched, frames, signalled>>
  BY DEF DeleteTask, Client
<1>2. Open(u) /\ u # Null /\ c = "flushed"
  <2>1. freed \subseteq WaitQ
    BY <1>1, Caller
  <2> QED BY <1>1, <2>1, QueueKinds DEF Open, Handle, Dead
<1> HIDE DEF c
<1> QED BY <1>1, <1>2, DeletionBegins

(***************************************************************************)
(* DeleteTask keeps the invariant when it takes the coprocessor.           *)
(***************************************************************************)
LEMMA ReleaseFpuKeeps ==
  ASSUME IInv, NEW t \in Task, ReleaseFpu(t), UNCHANGED <<calls, freed>>
  PROVE  IInv'
<1> DEFINE f == IF k.fpu = victim[t] THEN NoTask ELSE k.fpu
           d == [k EXCEPT !.fpu = f]
<1>1. /\ Running(t) /\ at[t] = "flushed" /\ k' = d /\ at' = [at EXCEPT ![t] = "released"]
      /\ UNCHANGED <<iflag, eflags, switched, victim, frames, op, signalled>>
  BY DEF ReleaseFpu
<1>2. /\ InUse(k) /\ t = k.curr /\ frames = <<>> /\ op = NoOp /\ k.state[t] = "Current" /\ Prioritised(k)
      /\ at \in [Task -> {"client", "wait", "send", "receive", "flushed", "released", "emptied"}]
      /\ switched \subseteq Task
  BY <1>1, Caller
<1>3. k \in Records /\ f \in Task \cup {NoTask}
  BY <1>2, CurrentFree, RecordsFields
<1>4. /\ d \in Records /\ SameLists(k, d) /\ SameTimes(k, d) /\ SameStatus(k, d) /\ d.curr = k.curr
      /\ d.from = k.from /\ d.disint = k.disint /\ d.atomic = k.atomic /\ d.run = k.run
      /\ d.ts = k.ts /\ d.fpu = f
  BY <1>3 DEF Records, SameLists, SameTimes, SameStatus
<1> HIDE DEF f, d
<1>5. InUse(k') /\ Prioritised(k')
  BY <1>1, <1>2, <1>4, ScalarsPrepared DEF Prioritised, SameLists, SameStatus
<1>6. RestTyped'
  BY <1>1, <1>2 DEF RestTyped, IInv, TypeOK
<1>7. Control'
  <2>1. TypeOK'
    BY <1>1, <1>4, <1>6 DEF IInv, TypeOK, RestTyped
  <2>2. DataSound' /\ LoopsAgree' /\ SwitchedDisabled' /\ InterruptFlag'
    BY <1>1, <1>4, <1>5 DEF IInv, DataSound, LoopsAgree, SwitchedDisabled, InterruptFlag
  <2>3. PriorityScheduling'
    BY <1>5 DEF PriorityScheduling, Prioritised
  <2> QED BY <2>1, <2>2, <2>3 DEF Control
<1>8. /\ VictimsAgree /\ VictimsEmpty /\ GoneEmpty /\ FpuAgrees /\ TrueMeansGranted /\ BlockedInside
  BY DEF IInv
<1>9. k'.queue = k.queue /\ k'.state = k.state /\ k'.success = k.success
  BY <1>1, <1>4 DEF SameLists, SameStatus
<1>10. VictimsAgree' /\ VictimsEmpty' /\ GoneEmpty'
  <2>1. \A x \in Task : /\ at'[x] \in {"flushed", "released"} <=> at[x] \in {"flushed", "released"}
                        /\ at'[x] = "emptied" <=> at[x] = "emptied"
                        /\ at'[x] \in Deleting <=> at[x] \in Deleting
    BY <1>1, <1>2 DEF Deleting
  <2>2. VictimsAgree'
    BY <1>1, <1>8, <1>9, <2>1 DEF VictimsAgree
  <2>3. VictimsEmpty' /\ GoneEmpty'
    BY <1>1, <1>8, <1>9 DEF VictimsEmpty, GoneEmpty, Flushing
  <2> QED BY <2>2, <2>3
<1>11. FpuAgrees'
  <2>1. at'[t] = "released" /\ k'.curr = t /\ k'.ts = k.ts
    BY <1>1, <1>2, <1>4
  <2>2. ~ k.ts => k.fpu = t
    BY <1>1, <1>2, <1>8 DEF FpuAgrees
  <2>3. ~ k.ts /\ victim[t] # t => k'.fpu = t
    BY <1>1, <1>4, <2>2 DEF f
  <2> QED BY <1>1, <2>1, <2>3 DEF FpuAgrees
<1>12. TrueMeansGranted' /\ BlockedInside'
  <2>1. \A x \in Task : at'[x] \in Blocking => at[x] \in Blocking /\ at'[x] = at[x]
    BY <1>1, <1>2 DEF Blocking
  <2> QED BY <1>1, <1>2, <1>8, <1>9, <2>1 DEF TrueMeansGranted, BlockedInside, Blocking
<1> QED BY <1>7, <1>10, <1>11, <1>12 DEF IInv, Control

(* The end of a deletion, of task or queue v by t: only v dies, and what   *)
(* it deletes itself is forgotten with it.                                 *)
Deletes(t, v, d) ==
  /\ at[t] \in Deleting /\ v = victim[t] /\ v \in Task \cup WaitQ
  /\ \A x \in Task : k.state[x] \in Dead => d.state[x] \in Dead
  /\ \A x \in Task : d.state[x] \in Dead => k.state[x] \in Dead \/ x = v
  /\ at[t] = "released" /\ v = t => d.state[t] \notin Awake
  /\ at' = [at EXCEPT ![t] = "client"] /\ victim'[t] = NoTask
  /\ victim' \in [Task -> Task \cup WaitQ \cup {NoTask}]
  /\ \A x \in Task : victim'[x] = victim[x] \/ victim'[x] = NoTask
  /\ \A x \in Task : victim'[x] # victim[x] => x = t \/ d.state[x] \in Dead
  /\ freed' \subseteq freed \cup {v} /\ freed' \subseteq WaitQ
  /\ UNCHANGED <<calls, frames, op, signalled>>

(***************************************************************************)
(* The end of a deletion keeps the invariant: nobody is in the queue of    *)
(* what is gone.                                                           *)
(***************************************************************************)
LEMMA DeletionEnds ==
  ASSUME IInv, NEW t \in Task, Running(t), NEW v, NEW d, Deletes(t, v, d), Ended(t, d, {}, {}, {})
  PROVE  IInv'
<1> USE DEF Deletes
<1>1. /\ InUse(k) /\ t = k.curr /\ t # Null /\ frames = <<>> /\ op = NoOp /\ op.loop # "flush"
      /\ at \in [Task -> {"client", "wait", "send", "receive", "flushed", "released", "emptied"}]
      /\ victim \in [Task -> Task \cup WaitQ \cup {NoTask}] /\ switched \subseteq Task
      /\ freed \subseteq WaitQ /\ frames' = <<>> /\ op' = NoOp
  BY Caller
<1>2. RestTyped'
  BY <1>1 DEF RestTyped, IInv, TypeOK
<1>3. Control'
  BY <1>1, <1>2, EndControls
<1>4. /\ VictimsAgree /\ VictimsEmpty /\ GoneEmpty /\ FpuAgrees /\ TrueMeansGranted /\ BlockedInside
  BY DEF IInv
<1>5. /\ Kept(k, k', {}) /\ Ungranted(k, k', {}, {}) /\ FpuMoves(k, k')
      /\ switched \subseteq switched' /\ switched' \subseteq switched \cup {t}
  BY DEF Ended, Moved
<1>6. \A x \in Task : /\ k.state[x] \in Dead => k'.state[x] \in Dead
                      /\ k'.state[x] \in Dead => k.state[x] \in Dead \/ x = v
                      /\ d.state[x] \in Dead <=> k'.state[x] \in Dead
  BY DEF Ended, SameDead
<1>7. \A x \in Task : x # t => at'[x] = at[x]
  BY <1>1
<1>8. at'[t] = "client"
  BY <1>1
<1>9. \A u \in Task : /\ k'.queue[u] # v
                      /\ k'.queue[u] \in Task \cup WaitQ => k'.queue[u] = k.queue[u]
  BY <1>1, <1>4, <1>5 DEF Kept, VictimsEmpty, Flushing
<1>10. VictimsAgree'
  <2> SUFFICES ASSUME NEW x \in Task
               PROVE  /\ victim'[x] # Null
                      /\ at'[x] \in {"flushed", "released"} /\ k'.state[x] \notin Dead => victim'[x] \in Task
                      /\ at'[x] = "emptied" /\ k'.state[x] \notin Dead => victim'[x] \in WaitQ
                      /\ at'[x] \notin Deleting => victim'[x] = NoTask
    BY DEF VictimsAgree
  <2>1. victim[x] # Null /\ NoTask # Null
    BY <1>4, QueueKinds DEF VictimsAgree
  <2>2. CASE x = t
    BY <1>8, <2>1, <2>2
  <2>3. CASE x # t
    <3>1. k'.state[x] \notin Dead => victim'[x] = victim[x] /\ k.state[x] \notin Dead
      BY <1>6, <2>3
    <3>2. at[x] \notin Deleting => victim'[x] = NoTask
      BY <1>4 DEF VictimsAgree
    <3> QED BY <1>4, <1>7, <2>1, <2>3, <3>1, <3>2 DEF VictimsAgree
  <2> QED BY <2>2, <2>3
<1>11. VictimsEmpty'
  <2> SUFFICES ASSUME NEW x \in Task, NEW u \in Task, victim'[x] \in Task \cup WaitQ, k'.queue[u] = victim'[x]
               PROVE  FALSE
    BY DEF VictimsEmpty
  <2>1. victim'[x] = victim[x] /\ k.queue[u] = victim[x]
    BY <1>9, QueueKinds
  <2> QED BY <1>1, <1>4, <2>1 DEF VictimsEmpty, Flushing
<1>12. GoneEmpty'
  <2> SUFFICES ASSUME NEW u \in Task
               PROVE  k'.queue[u] \notin freed' /\ (k'.queue[u] \in Task => k'.state[k'.queue[u]] \notin Dead)
    BY DEF GoneEmpty
  <2>1. CASE k'.queue[u] \in Task \cup WaitQ
    BY <1>4, <1>6, <1>9, <2>1 DEF GoneEmpty
  <2>2. CASE k'.queue[u] \notin Task \cup WaitQ
    BY <2>2
  <2> QED BY <2>1, <2>2
<1>13. FpuAgrees'
  <2> SUFFICES ASSUME ~ k'.ts, k'.fpu # k'.curr
               PROVE  FALSE
    BY DEF FpuAgrees
  <2>1. k'.curr = t /\ ~ k.ts /\ k.fpu # t
    BY <1>1, <1>5 DEF FpuMoves
  <2>2. at[t] = "released" /\ v = t
    BY <1>1, <1>4, <2>1 DEF FpuAgrees
  <2> QED BY <2>1, <2>2 DEF Ended
<1>14. TrueMeansGranted'
  <2> SUFFICES ASSUME NEW x \in switched', at'[x] \in Blocking, k'.state[x] \in Awake, k'.success[x]
               PROVE  signalled[x]
    BY DEF TrueMeansGranted, Blocking, Awake
  <2>1. x \in switched /\ x \in Task /\ x # t
    BY <1>1, <1>5, <1>8 DEF Blocking
  <2>2. k.state[x] \in Awake /\ k.success[x]
    BY <1>5, <2>1 DEF Ungranted
  <2> QED BY <1>4, <1>7, <2>1, <2>2 DEF TrueMeansGranted, Blocking, Awake
<1>15. BlockedInside'
  BY <1>4, <1>5, <1>7, <1>8 DEF BlockedInside, Blocking
<1> QED BY <1>3, <1>10, <1>11, <1>12, <1>13, <1>14, <1>15 DEF IInv, Control

(***************************************************************************)
(* DeleteQueue keeps the invariant when it gives the memory back.          *)
(***************************************************************************)
LEMMA FreeQueueKeeps ==
  ASSUME IInv, NEW t \in Task, FreeQueue(t), UNCHANGED calls
  PROVE  IInv'
<1> DEFINE v == victim[t]
<1>1. /\ Running(t) /\ at[t] = "emptied" /\ freed' = freed \cup {v} /\ victim' = [victim EXCEPT ![t] = NoTask]
      /\ at' = [at EXCEPT ![t] = "client"] /\ AfterAtomic(t, k) /\ UNCHANGED <<frames, op, signalled>>
  BY DEF FreeQueue
<1>2. /\ InUse(k) /\ t = k.curr /\ frames = <<>> /\ k.state[t] = "Current" /\ freed \subseteq WaitQ
      /\ victim \in [Task -> Task \cup WaitQ \cup {NoTask}]
  BY <1>1, Caller
<1>3. v \in WaitQ
  BY <1>1, <1>2 DEF IInv, VictimsAgree, Dead
<1>4. Prepared(k, k, {}, {}, {})
  BY <1>2, NothingPrepared
<1>5. Ended(t, k, {}, {}, {})
  BY <1>1, <1>2, <1>4, AfterAtomicEnds
<1>6. /\ victim'[t] = NoTask /\ victim' \in [Task -> Task \cup WaitQ \cup {NoTask}]
      /\ \A x \in Task : x # t => victim'[x] = victim[x]
      /\ freed' \subseteq WaitQ /\ at[t] \in Deleting /\ at[t] # "released"
  BY <1>1, <1>2, <1>3 DEF Deleting
<1>7. v = victim[t]
  OBVIOUS
<1> HIDE DEF v
<1>8. Deletes(t, v, k)
  BY <1>1, <1>3, <1>6, <1>7 DEF Deletes
<1> QED BY <1>1, <1>5, <1>8, DeletionEnds

(***************************************************************************)
(* The end of DeleteTask, or of Exit, keeps the invariant.                 *)
(***************************************************************************)
LEMMA TerminateKeeps ==
  ASSUME IInv, NEW t \in Task, Terminate(t), UNCHANGED <<calls, freed>>
  PROVE  IInv'
<1> DEFINE v == victim[t]
           e == Enqueue([k EXCEPT !.state[t] = "Terminated"], t, TerminatedQ)
           f == Block(k, v, "Freed")
           d == IF v = t THEN e ELSE f
<1>1. /\ Running(t) /\ at[t] = "released" /\ victim' = [victim EXCEPT ![t] = NoTask, ![v] = NoTask]
      /\ IF v = t THEN Reschedule(t, e) ELSE Return(t, f)
      /\ at' = [at EXCEPT ![t] = "client"] /\ UNCHANGED <<frames, op, signalled>>
  BY DEF Terminate
<1>2. /\ InUse(k) /\ t = k.curr /\ t # Null /\ frames = <<>> /\ k.state[t] = "Current" /\ Prioritised(k)
      /\ freed \subseteq WaitQ /\ victim \in [Task -> Task \cup WaitQ \cup {NoTask}]
  BY <1>1, Caller
<1>3. v \in Task /\ v # Null
  BY <1>1, <1>2 DEF IInv, VictimsAgree, Dead
<1>4. k.state \in [Task -> TaskState]
  BY <1>2, CurrentFree
<1>5. /\ victim'[t] = NoTask /\ victim' \in [Task -> Task \cup WaitQ \cup {NoTask}]
      /\ \A x \in Task : victim'[x] = victim[x] \/ (victim'[x] = NoTask /\ (x = t \/ x = v))
  BY <1>1, <1>2, <1>3
<1>6. v = victim[t]
  OBVIOUS
<1> HIDE DEF v
<1>7. /\ Ended(t, d, {}, {}, {})
      /\ \A x \in Task : x # v => d.state[x] = k.state[x]
      /\ d.state[v] \in Dead
  <2>1. CASE v = t
    <3>1. d = e /\ Reschedule(t, e)
      BY <1>1, <2>1
    <3>2. Prepared(k, e, {}, {}, {}) /\ e.state = [k.state EXCEPT ![t] = "Terminated"]
      BY <1>2, EndPrepared
    <3> HIDE DEF e, d
    <3>3. Ended(t, e, {}, {}, {})
      BY <1>2, <3>1, <3>2, RescheduleEnds
    <3> QED BY <1>4, <2>1, <3>1, <3>2, <3>3 DEF Dead
  <2>2. CASE v # t
    <3>1. d = f /\ Return(t, f)
      BY <1>1, <2>2
    <3>2. /\ Prepared(k, f, {}, {}, {}) /\ f.state = [k.state EXCEPT ![v] = "Freed"]
          /\ f.prio = k.prio /\ f.run = k.run /\ f.atomic = k.atomic
      BY <1>2, <1>3, <2>2, FreePrepared
    <3> HIDE DEF f, d
    <3>3. f.state[t] = "Current" /\ \A x \in Task : f.state[x] = "Ready" => k.state[x] = "Ready"
      BY <1>2, <1>3, <1>4, <2>2, <3>2
    <3>4. Prioritised(f)
      BY <1>2, <3>2, <3>3, StaysPrioritised DEF Prepared
    <3>5. Ended(t, f, {}, {}, {})
      BY <1>2, <3>1, <3>2, <3>3, <3>4, ReturnEnds
    <3> QED BY <1>3, <1>4, <3>1, <3>2, <3>5 DEF Dead
  <2> QED BY <2>1, <2>2
<1> HIDE DEF d
<1>8. /\ \A x \in Task : k.state[x] \in Dead => d.state[x] \in Dead
      /\ \A x \in Task : d.state[x] \in Dead => k.state[x] \in Dead \/ x = v
      /\ v = t => d.state[t] \notin Awake
      /\ \A x \in Task : victim'[x] # victim[x] => x = t \/ d.state[x] \in Dead
  BY <1>5, <1>7 DEF Dead, Awake
<1>9. at[t] \in Deleting /\ v \in Task \cup WaitQ /\ freed' \subseteq freed \cup {v} /\ freed' \subseteq WaitQ
  BY <1>1, <1>2, <1>3 DEF Deleting
<1>10. Deletes(t, v, d)
  BY <1>1, <1>5, <1>6, <1>8, <1>9 DEF Deletes
<1> QED BY <1>1, <1>7, <1>10, DeletionEnds

-----------------------------------------------------------------------------
(* The context switch, and interrupts *)

(***************************************************************************)
(* The return of the context switch into a task keeps the invariant.       *)
(***************************************************************************)
LEMMA ResumeKeeps ==
  ASSUME IInv, NEW t \in Task, Resume(t), UNCHANGED <<calls, freed>>
  PROVE  IInv'
<1>1. /\ k.curr = t /\ t \in switched /\ frames = <<>> /\ op = NoOp
      /\ switched' = switched \ {t}
      /\ k' = [k EXCEPT !.disint[t] = @ - 1]
      /\ iflag' = (iflag \/ k.disint[t] = 1)
      /\ at' = [at EXCEPT ![t] = IF @ \in Blocking THEN "client" ELSE @]
      /\ Grant(t, FALSE)
      /\ UNCHANGED <<eflags, victim, frames, op>>
  BY DEF Resume, Blocking
<1>2. /\ InUse(k) /\ k.state[t] = "Current" /\ Prioritised(k) /\ k \in Records /\ k.disint \in [Task -> Nat]
      /\ at \in [Task -> {"client", "wait", "send", "receive", "flushed", "released", "emptied"}]
      /\ signalled \in [Task -> BOOLEAN] /\ switched \subseteq Task /\ k.disint[t] > 0
  BY <1>1, CurrentFree DEF IInv, DataSound, TypeOK, InUse, SwitchedDisabled, PriorityScheduling, Prioritised
<1>3. SameButLevels(k, k') /\ k'.atomic = k.atomic /\ k'.disint = [k.disint EXCEPT ![t] = @ - 1]
  <2> DEFINE n == k.disint[t] - 1
  <2>1. n \in Nat /\ k' = [k EXCEPT !.disint[t] = n]
    BY <1>1, <1>2
  <2> QED BY <1>2, <2>1, DisintSet
<1>4. InUse(k') /\ Moved(k, k', {}, {}, {}) /\ SameDead(k, k') /\ Prioritised(k')
  <2>1. InUse(k')
    BY <1>2, <1>3, ScalarsPrepared DEF SameButLevels
  <2>2. Moved(k, k', {}, {}, {}) /\ SameDead(k, k')
    BY <1>3, <2>1 DEF Moved, Kept, Ungranted, FpuMoves, SameDead, SameButLevels, SameLists, SameStatus, InUse
  <2>3. Prioritised(k')
    BY <1>2, <1>3 DEF Prioritised, SameButLevels, SameLists, SameStatus
  <2> QED BY <2>1, <2>2, <2>3
<1>5. iflag' \in BOOLEAN /\ (iflag' <=> k'.disint[t] = 0)
  <2>1. iflag \in BOOLEAN /\ (iflag <=> k.disint[t] = 0)
    BY <1>1 DEF IInv, TypeOK, InterruptFlag
  <2>2. k'.disint[t] = 0 <=> k.disint[t] = 1
    BY <1>2, <1>3
  <2>3. iflag' = (k.disint[t] = 1)
    BY <1>1, <1>2, <2>1
  <2> QED BY <2>2, <2>3
<1>6. k'.curr = t /\ \A x \in Task : x # t => k'.disint[x] = k.disint[x]
  BY <1>1, <1>2, <1>3 DEF SameButLevels
<1>7. signalled' = [signalled EXCEPT ![t] = FALSE]
  BY <1>1 DEF Grant
<1>8. at' \in [Task -> {"client", "wait", "send", "receive", "flushed", "released", "emptied"}]
  BY <1>1, <1>2
<1>9. Control'
  <2>1. TypeOK'
    BY <1>1, <1>2, <1>3, <1>5, <1>7, <1>8 DEF IInv, TypeOK, SameButLevels
  <2>2. DataSound' /\ LoopsAgree'
    BY <1>1, <1>4 DEF IInv, DataSound, LoopsAgree
  <2>3. SwitchedDisabled'
    BY <1>1, <1>2, <1>6 DEF IInv, SwitchedDisabled
  <2>4. InterruptFlag'
    BY <1>1, <1>5, <1>6 DEF IInv, InterruptFlag
  <2>5. PriorityScheduling'
    BY <1>4 DEF PriorityScheduling, Prioritised
  <2> QED BY <2>1, <2>2, <2>3, <2>4, <2>5 DEF Control
<1>10. Follows({}, {}, {})
  <2>1. \A x \in Task : StaysOrWaits(x, {})
    BY <1>1, <1>2 DEF StaysOrWaits, Deleting, Blocking
  <2>2. \A x \in switched' : Granted(x, {}, {})
    BY <1>1, <1>2, <1>7 DEF Granted
  <2>3. \A x \in switched \ switched' : at'[x] \notin Blocking
    BY <1>1, <1>2 DEF Blocking
  <2> QED BY <1>1, <2>1, <2>2, <2>3 DEF Follows
<1>11. History'
  BY <1>1, <1>2, <1>4, <1>10, MovedKeeps
<1> QED BY <1>9, <1>11 DEF IInv, Control, History

(***************************************************************************)
(* A step that leaves a handler on the internal stack keeps the control    *)
(* part, if the task that was interrupted stays current.                   *)
(***************************************************************************)
LEMMA NestedControls ==
  ASSUME IInv, InUse(k'), k'.curr = k.curr, k'.disint = k.disint, k.disint[k.curr] = 0,
         frames' \in Seq({"clock", "device", "served"}), frames' # <<>>, iflag' \in BOOLEAN,
         op' = NoOp \/ (op' = [NoOp EXCEPT !.loop = "clock"] /\ iflag' = FALSE),
         UNCHANGED <<eflags, switched>>, RestTyped'
  PROVE  Control'
<1>1. k' \in Records
  BY CurrentFree
<1>2. /\ op' \in [loop : {"none", "flush", "clock"}, queue : Queue \cup {NoQueue}, success : BOOLEAN]
      /\ op'.loop = "none" => op' = NoOp
      /\ op'.loop # "flush"
      /\ op' # NoOp => ~ iflag'
  <2>1. CASE op' = NoOp
    <3>1. op' = [loop |-> "none", queue |-> NoQueue, success |-> FALSE]
      BY <2>1 DEF NoOp
    <3>2. /\ op' \in [loop : {"none", "flush", "clock"}, queue : Queue \cup {NoQueue}, success : BOOLEAN]
          /\ op'.loop # "flush"
      BY <3>1
    <3> QED BY <2>1, <3>2
  <2>2. CASE op' = [NoOp EXCEPT !.loop = "clock"] /\ iflag' = FALSE
    <3>1. op' = [loop |-> "clock", queue |-> NoQueue, success |-> FALSE]
      BY <2>2 DEF NoOp
    <3>2. /\ op' \in [loop : {"none", "flush", "clock"}, queue : Queue \cup {NoQueue}, success : BOOLEAN]
          /\ op'.loop # "flush" /\ op'.loop # "none"
      BY <3>1
    <3>3. ~ iflag'
      BY <2>2
    <3> QED BY <3>2, <3>3
  <2> QED BY <2>1, <2>2
<1>3. TypeOK'
  BY <1>1, <1>2 DEF IInv, TypeOK, RestTyped
<1>4. DataSound' /\ LoopsAgree' /\ SwitchedDisabled'
  BY <1>2 DEF IInv, DataSound, LoopsAgree, SwitchedDisabled
<1>5. InterruptFlag' /\ PriorityScheduling'
  BY DEF IInv, InterruptFlag, PriorityScheduling
<1> QED BY <1>3, <1>4, <1>5 DEF Control

(***************************************************************************)
(* What a handler finds.                                                   *)
(***************************************************************************)
LEMMA Handler ==
  ASSUME IInv, (iflag /\ op = NoOp) \/ frames # <<>>
  PROVE  /\ InUse(k) /\ k.curr \in Task /\ k.disint[k.curr] = 0 /\ k.state[k.curr] = "Current"
         /\ op.loop # "flush" /\ frames \in Seq({"clock", "device", "served"})
         /\ at \in [Task -> {"client", "wait", "send", "receive", "flushed", "released", "emptied"}]
         /\ signalled \in [Task -> BOOLEAN] /\ switched \subseteq Task
<1>1. k.curr \in Task
  BY CurrentFree DEF IInv, DataSound
<1>2. k.disint[k.curr] = 0 /\ op.loop # "flush"
  BY DEF IInv, InterruptFlag, LoopsAgree, NoOp
<1> QED BY <1>1, <1>2 DEF IInv, TypeOK, DataSound, InUse

(***************************************************************************)
(* Front takes one element away.                                           *)
(***************************************************************************)
LEMMA FrontShorter ==
  ASSUME NEW S, NEW q \in Seq(S), q # <<>>
  PROVE  /\ Len(q) \in Nat /\ Len(q) # 0
         /\ Front(q) \in Seq(S) /\ Len(Front(q)) = Len(q) - 1
<1>1. Len(q) \in Nat /\ Len(q) # 0 /\ \A i \in 1 .. Len(q) : q[i] \in S
  BY LenProperties, ElementOfSeq, EmptySeq
<1>2. Front(q) = [i \in 1 .. Len(q) - 1 |-> q[i]]
  BY <1>1 DEF Front
<1> QED BY <1>1, <1>2

(***************************************************************************)
(* The way out of an interrupt keeps the invariant.                        *)
(***************************************************************************)
LEMMA IntExitKeeps ==
  ASSUME IInv, frames # <<>>, NEW d, InUse(d), Prepared(k, d, {}, {}, {}), SameDead(k, d),
         IntExit(frames, d), op' = NoOp, UNCHANGED <<calls, freed, switched, at, victim, signalled>>
  PROVE  IInv'
<1>1. /\ InUse(k) /\ k.curr \in Task /\ k.disint[k.curr] = 0 /\ k.state[k.curr] = "Current"
      /\ op.loop # "flush" /\ frames \in Seq({"clock", "device", "served"})
      /\ at \in [Task -> {"client", "wait", "send", "receive", "flushed", "released", "emptied"}]
      /\ signalled \in [Task -> BOOLEAN] /\ switched \subseteq Task
  BY Handler
<1>2. /\ Len(frames) \in Nat /\ Len(frames) # 0
      /\ Front(frames) \in Seq({"clock", "device", "served"}) /\ Len(Front(frames)) = Len(frames) - 1
  BY <1>1, FrontShorter
<1>3. Follows({}, {}, {})
  BY <1>1 DEF Follows, StaysOrWaits, Granted
<1>4. d.curr = k.curr /\ d.state[k.curr] = "Current" /\ d.disint = k.disint
  BY DEF InUse, Prepared
<1>5. CASE Len(frames) = 1
  <2> DEFINE s == Select(d)
             b == TRUE
  <2>1. /\ frames' = Front(frames) /\ k' = s
        /\ eflags' = [eflags EXCEPT ![k.curr] = b] /\ iflag' = eflags'[s.curr] /\ b \in BOOLEAN
    BY <1>5 DEF IntExit
  <2>2. /\ Moved(k, s, {}, {}, {}) /\ SameDead(d, s) /\ Prioritised(s) /\ s.disint = k.disint
    BY <1>1, SelectMoves
  <2>3. b <=> k.disint[k.curr] = 0
    BY <1>1
  <2> HIDE DEF s, b
  <2>4. PICK t \in Task : t = k.curr
    BY <1>1
  <2>5. Ended(t, d, {}, {}, {})
    <3>1. /\ b <=> k.disint[t] = 0
          /\ d.state[t] \in Awake
          /\ eflags' = [eflags EXCEPT ![t] = b] /\ iflag' = eflags'[k'.curr]
      BY <1>4, <2>1, <2>3, <2>4 DEF Awake
    <3>2. /\ Moved(k, k', {}, {}, {}) /\ SameDead(d, k') /\ Prioritised(k') /\ k'.disint = k.disint
      BY <2>1, <2>2
    <3> QED BY <2>1, <2>4, <3>1, <3>2, ExitEnds
  <2>6. frames' = <<>>
    BY <1>2, <1>5, <2>1
  <2> QED BY <1>1, <1>3, <2>5, <2>6, EndKeeps
<1>6. CASE Len(frames) # 1
  <2>1. frames' = Front(frames) /\ k' = d /\ iflag' = TRUE /\ UNCHANGED eflags
    BY <1>6 DEF IntExit
  <2>2. frames' \in Seq({"clock", "device", "served"}) /\ frames' # <<>>
    BY <1>2, <1>6, <2>1
  <2>3. RestTyped'
    BY DEF RestTyped, IInv, TypeOK
  <2>4. Control'
    BY <1>1, <1>4, <2>1, <2>2, <2>3, NestedControls
  <2>5. Moved(k, k', {}, {}, {}) /\ SameDead(k, k')
    BY <1>4, <2>1, PreparedMoves
  <2>6. History'
    BY <1>1, <1>3, <2>5, MovedKeeps
  <2> QED BY <2>4, <2>6 DEF IInv, Control, History
<1> QED BY <1>5, <1>6

(***************************************************************************)
(* An interrupt of the clock keeps the invariant: it interrupts only a     *)
(* task that lets it.                                                      *)
(***************************************************************************)
LEMMA ClockIntKeeps ==
  ASSUME IInv, ClockInt, UNCHANGED <<calls, freed>>
  PROVE  IInv'
<1> DEFINE n == IF k.run > 0 THEN k.run - 1 ELSE 0
           d == [k EXCEPT !.run = n]
<1>1. /\ iflag /\ op = NoOp /\ iflag' = FALSE /\ frames' = Append(frames, "clock")
      /\ op' = [NoOp EXCEPT !.loop = "clock"] /\ k' = d
      /\ UNCHANGED <<eflags, switched, at, victim, signalled>>
  BY DEF ClockInt
<1>2. /\ InUse(k) /\ k.disint[k.curr] = 0 /\ op.loop # "flush"
      /\ frames \in Seq({"clock", "device", "served"}) /\ switched \subseteq Task
  BY <1>1, Handler
<1>3. n \in 0 .. QUANTUM /\ k \in Records
  BY <1>2, CurrentFree, RecordsFields, KernelStateAssumption
<1> HIDE DEF n
<1>4. /\ d \in Records /\ SameLists(k, d) /\ SameTimes(k, d) /\ SameStatus(k, d)
      /\ d.curr = k.curr /\ d.from = k.from /\ d.disint = k.disint /\ d.fpu = k.fpu /\ d.ts = k.ts
  BY <1>3 DEF Records, SameLists, SameTimes, SameStatus
<1> HIDE DEF d
<1>5. InUse(d) /\ Prepared(k, d, {}, {}, {}) /\ SameDead(k, d)
  BY <1>2, <1>4, ScalarsPrepared DEF SameDead, SameStatus
<1>6. frames' \in Seq({"clock", "device", "served"}) /\ frames' # <<>>
  BY <1>1, <1>2
<1>7. RestTyped'
  BY <1>1 DEF RestTyped, IInv, TypeOK
<1>8. Control'
  BY <1>1, <1>2, <1>4, <1>5, <1>6, <1>7, NestedControls
<1>9. Moved(k, k', {}, {}, {}) /\ SameDead(k, k')
  BY <1>1, <1>4, <1>5, PreparedMoves DEF InUse
<1>10. Follows({}, {}, {})
  BY <1>1, <1>2 DEF Follows, StaysOrWaits, Granted
<1>11. History'
  BY <1>1, <1>2, <1>9, <1>10, MovedKeeps
<1> QED BY <1>8, <1>11 DEF IInv, Control, History

(***************************************************************************)
(* clockint wakes the head of the time queue, without success.             *)
(***************************************************************************)
LEMMA WakeHeadStepKeeps ==
  ASSUME IInv, WakeHead, UNCHANGED <<calls, freed>>
  PROVE  IInv'
<1> DEFINE u == Head(k.time_q)
           d == MakeReady([k EXCEPT !.time_q = Tail(@)], u, FALSE)
<1>1. /\ op.loop = "clock" /\ k.time_q # <<>> /\ k' = d
      /\ UNCHANGED <<iflag, eflags, switched, at, victim, frames, op, signalled>>
  BY DEF WakeHead, HeadIsDue, control
<1>2. op # NoOp /\ InUse(k) /\ op.loop # "flush" /\ switched \subseteq Task
  BY <1>1 DEF IInv, DataSound, NoOp, TypeOK
<1>3. /\ u \in Task /\ k.state[u] \in TimedStates
      /\ Sound(d) /\ SameScalars(k, d)
      /\ d.queue = [k.queue EXCEPT ![u] = ReadyQ]
      /\ d.state = [k.state EXCEPT ![u] = "Ready"]
      /\ d.success = [k.success EXCEPT ![u] = FALSE]
  BY <1>1, <1>2, WakeHeadKeeps DEF InUse
<1>4. /\ k.state \in [Task -> TaskState] /\ k.queue \in [Task -> Queue \cup {NoQueue}]
      /\ k.success \in [Task -> BOOLEAN] /\ k.curr \in Task
  BY <1>2, CurrentFree
<1> HIDE DEF d, u
<1>5. /\ d.curr = k.curr /\ d.disint = k.disint /\ d.fpu = k.fpu /\ d.ts = k.ts
      /\ d.state[k.curr] = "Current"
  BY <1>2, <1>3, <1>4 DEF SameScalars, InUse, TimedStates
<1>6. InUse(d) /\ GaveWay(d)
  BY <1>3, <1>5 DEF InUse, GaveWay
<1>7. Kept(k, d, {})
  BY <1>3, <1>4, QueueKinds DEF Kept
<1>8. Ungranted(k, d, {}, {})
  BY <1>3, <1>4 DEF Ungranted
<1>9. SameDead(k, d)
  BY <1>3, <1>4 DEF SameDead, Dead, TimedStates
<1>10. Moved(k, k', {}, {}, {}) /\ SameDead(k, k')
  BY <1>1, <1>3, <1>5, <1>6, <1>7, <1>8, <1>9, PreparedMoves DEF Prepared
<1>11. RestTyped'
  BY <1>1 DEF RestTyped, IInv, TypeOK
<1>12. Control'
  BY <1>1, <1>2, <1>5, <1>6, <1>11, LoopControls
<1>13. Follows({}, {}, {})
  BY <1>1, <1>2 DEF Follows, StaysOrWaits, Granted
<1>14. History'
  BY <1>1, <1>2, <1>10, <1>13, MovedKeeps
<1> QED BY <1>12, <1>14 DEF IInv, Control, History

(***************************************************************************)
(* The end of clockint counts the time queue down and leaves the handler.  *)
(***************************************************************************)
LEMMA ClockEndKeeps ==
  ASSUME IInv, ClockEnd, UNCHANGED <<calls, freed>>
  PROVE  IInv'
<1> DEFINE d == [k EXCEPT !.left = [t \in Task |-> IF t \in ToSet(k.time_q) THEN @[t] - 1 ELSE @[t]]]
<1>1. /\ op.loop = "clock" /\ IntExit(frames, d) /\ op' = NoOp
      /\ UNCHANGED <<switched, at, victim, signalled>>
      /\ k.time_q # <<>> => k.left[Head(k.time_q)] # 0
  BY DEF ClockEnd, HeadIsDue
<1>2. frames # <<>> /\ InUse(k)
  BY <1>1 DEF IInv, LoopsAgree, DataSound
<1>3. Sound(d) /\ SameScalars(k, d) /\ SameStatus(k, d) /\ SameLists(k, d)
  BY <1>1, <1>2, CountDownKeeps DEF InUse
<1> HIDE DEF d
<1>4. /\ d.curr = k.curr /\ d.disint = k.disint /\ d.fpu = k.fpu /\ d.ts = k.ts
      /\ d.queue = k.queue /\ d.state = k.state /\ d.success = k.success
  BY <1>3 DEF SameScalars, SameStatus, SameLists
<1>5. InUse(d) /\ GaveWay(d)
  BY <1>2, <1>3, <1>4 DEF InUse, GaveWay
<1>6. Prepared(k, d, {}, {}, {}) /\ SameDead(k, d)
  BY <1>4, <1>5 DEF Prepared, InUse, Kept, Ungranted, SameDead
<1> QED BY <1>1, <1>2, <1>5, <1>6, IntExitKeeps

(***************************************************************************)
(* A device handler that signals a queue keeps the invariant.              *)
(***************************************************************************)
LEMMA DeviceIntKeeps ==
  ASSUME IInv, NEW q \in WaitQ, DeviceInt(q), UNCHANGED <<calls, freed>>
  PROVE  IInv'
<1> DEFINE u == PeekLast(k, q)
           ok == TRUE
           d == MakeReady(GetLast(k, q), u, ok)
<1>1. /\ iflag /\ op = NoOp /\ frames' = Append(frames, "device")
      /\ IF k.list[q] = <<>> THEN UNCHANGED <<k, signalled>> ELSE k' = d /\ Grant(u, ok)
      /\ iflag' = (k.disint[k.curr] = 0)
      /\ UNCHANGED <<eflags, switched, at, victim, op>>
  BY DEF DeviceInt
<1>2. /\ InUse(k) /\ k.disint[k.curr] = 0 /\ op.loop # "flush"
      /\ frames \in Seq({"clock", "device", "served"}) /\ switched \subseteq Task
      /\ q \in Task \cup WaitQ /\ ok \in BOOLEAN /\ ok
  BY <1>1, Handler
<1>3. frames' \in Seq({"clock", "device", "served"}) /\ frames' # <<>> /\ iflag' \in BOOLEAN
  BY <1>1, <1>2
<1>4. CASE k.list[q] = <<>>
  <2>1. UNCHANGED <<k, signalled>>
    BY <1>1, <1>4
  <2>2. RestTyped'
    BY <1>1, <2>1 DEF RestTyped, IInv, TypeOK
  <2>3. Control'
    BY <1>1, <1>2, <1>3, <2>1, <2>2, NestedControls
  <2>4. Moved(k, k', {}, {}, {}) /\ SameDead(k, k')
    BY <2>1, NothingMoves
  <2>5. Follows({}, {}, {})
    BY <1>1, <1>2, <2>1 DEF Follows, StaysOrWaits, Granted
  <2>6. History'
    BY <1>1, <1>2, <2>4, <2>5, MovedKeeps
  <2> QED BY <2>3, <2>6 DEF IInv, Control, History
<1>5. CASE k.list[q] # <<>>
  <2>1. k' = d /\ Grant(u, ok)
    BY <1>1, <1>5
  <2> HIDE DEF ok
  <2>2. /\ u \in Task /\ Prepared(k, d, {}, {u}, {})
        /\ SameDead(k, d) /\ d.state[k.curr] = "Current"
    BY <1>2, <1>5, WakeLastPrepared
  <2> HIDE DEF d
  <2>3. PICK v \in Task : v = u
    BY <2>2
  <2>4. Grant(v, ok) /\ Prepared(k, d, {}, {v}, {})
    BY <2>1, <2>2, <2>3
  <2> HIDE DEF u
  <2> DEFINE G == {v}
             X == {}
  <2>5. G = (IF ok THEN {v} ELSE {}) /\ X = (IF ok THEN {} ELSE {v}) /\ Prepared(k, d, {}, G, X)
    BY <1>2, <2>4
  <2> HIDE DEF G, X
  <2>6. Follows({}, G, X) /\ signalled' \in [Task -> BOOLEAN] /\ switched' \subseteq Task
    BY <1>1, <1>2, <2>4, <2>5, GrantFollows
  <2>7. Moved(k, k', {}, G, X) /\ SameDead(k, k')
    BY <2>1, <2>2, <2>5, PreparedMoves
  <2>8. InUse(k') /\ k'.curr = k.curr /\ k'.disint = k.disint
    BY <2>1, <2>5, <2>7 DEF Moved, Prepared
  <2>9. RestTyped'
    BY <1>1, <2>6 DEF RestTyped, IInv, TypeOK
  <2>10. Control'
    BY <1>1, <1>2, <1>3, <2>8, <2>9, NestedControls
  <2>11. History'
    BY <1>1, <1>2, <2>6, <2>7, MovedKeeps
  <2> QED BY <2>10, <2>11 DEF IInv, Control, History
<1> QED BY <1>4, <1>5

(***************************************************************************)
(* The end of interrupt in a device handler keeps the invariant.           *)
(***************************************************************************)
LEMMA DeviceEoiKeeps ==
  ASSUME IInv, DeviceEoi, UNCHANGED <<calls, freed>>
  PROVE  IInv'
<1>1. /\ op = NoOp /\ frames # <<>> /\ frames' = Append(Front(frames), "served")
      /\ UNCHANGED <<k, iflag, eflags, switched, at, victim, op, signalled>>
  BY DEF DeviceEoi
<1>2. /\ InUse(k) /\ k.disint[k.curr] = 0 /\ op.loop # "flush"
      /\ frames \in Seq({"clock", "device", "served"}) /\ switched \subseteq Task
  BY <1>1, Handler
<1>3. Front(frames) \in Seq({"clock", "device", "served"})
  BY <1>1, <1>2, FrontShorter
<1>4. frames' \in Seq({"clock", "device", "served"}) /\ frames' # <<>>
  BY <1>1, <1>3
<1>5. RestTyped' /\ iflag' \in BOOLEAN
  BY <1>1 DEF RestTyped, IInv, TypeOK
<1>6. Control'
  BY <1>1, <1>2, <1>4, <1>5, NestedControls
<1>7. Moved(k, k', {}, {}, {}) /\ SameDead(k, k')
  BY <1>1, NothingMoves
<1>8. Follows({}, {}, {})
  BY <1>1, <1>2 DEF Follows, StaysOrWaits, Granted
<1>9. History'
  BY <1>1, <1>2, <1>7, <1>8, MovedKeeps
<1> QED BY <1>6, <1>9 DEF IInv, Control, History

(***************************************************************************)
(* The end of a device handler keeps the invariant.                        *)
(***************************************************************************)
LEMMA DeviceEndKeeps ==
  ASSUME IInv, DeviceEnd, UNCHANGED <<calls, freed>>
  PROVE  IInv'
<1>1. /\ op = NoOp /\ frames # <<>> /\ IntExit(frames, k)
      /\ UNCHANGED <<switched, at, victim, op, signalled>>
  BY DEF DeviceEnd
<1>2. PICK d : d = k
  OBVIOUS
<1>3. InUse(k)
  BY DEF IInv, DataSound
<1>4. InUse(d) /\ Prepared(k, d, {}, {}, {}) /\ SameDead(k, d)
  BY <1>2, <1>3, NothingPrepared DEF SameDead
<1> QED BY <1>1, <1>2, <1>4, IntExitKeeps

-----------------------------------------------------------------------------
(***************************************************************************)
(* mt_main leaves the kernel's data sound: the main task is current and    *)
(* the null task alone in the ready queue.                                 *)
(***************************************************************************)
LEMMA BootSound ==
  /\ InUse(Boot) /\ Prioritised(Boot)
  /\ Boot.curr = Main /\ Boot.disint = [t \in Task |-> 0] /\ Boot.ts
  /\ \A t \in Task : Boot.queue[t] \in {ReadyQ, NoQueue} /\ Boot.state[t] # "Terminated"
<1> DEFINE d == Boot
<1>1. /\ d.state = [t \in Task |-> CASE t = Main -> "Current" [] t = Null -> "Ready" [] OTHER -> "Unborn"]
      /\ d.prio = [t \in Task |-> IF t = Main THEN DEFAULT_PRIO ELSE MIN_PRIO]
      /\ d.queue = [t \in Task |-> IF t = Null THEN ReadyQ ELSE NoQueue]
      /\ d.list = [q \in Queue |-> IF q = ReadyQ THEN <<Null>> ELSE <<>>]
      /\ d.time_q = <<>> /\ d.left = [t \in Task |-> 0]
      /\ d.success = [t \in Task |-> FALSE] /\ d.from = [t \in Task |-> NoTask]
      /\ d.atomic = [t \in Task |-> 0] /\ d.disint = [t \in Task |-> 0]
      /\ d.curr = Main /\ d.run = QUANTUM /\ d.fpu = NoTask /\ d.ts = TRUE /\ d.math = {}
  BY DEF Boot
<1>2. /\ Main \in Task /\ Null \in Task /\ Main # Null /\ QUANTUM \in Nat \ {0}
      /\ MIN_PRIO \in Priority /\ DEFAULT_PRIO \in Priority /\ Priority \subseteq Nat
      /\ ReadyQ \in Queue /\ TerminatedQ \in Queue /\ NoQueue \notin Queue
      /\ ReadyQ # TerminatedQ /\ ReadyQ \notin Task /\ ReadyQ \notin WaitQ
      /\ WaitQ \subseteq Queue /\ Task \subseteq Queue
  BY KernelStateAssumption, QueueKinds
<1>3. \A t \in Task : /\ d.state[t] \in {"Current", "Ready", "Unborn"}
                      /\ d.state[t] = "Current" <=> t = Main
                      /\ d.state[t] = "Ready" <=> t = Null
  BY <1>1, <1>2
<1>4. d \in Records
  <2>1. d.state \in [Task -> TaskState]
    <3>1. {"Current", "Ready", "Unborn"} \subseteq TaskState
      BY DEF TaskState
    <3> DEFINE f == d.state
    <3>2. f = [t \in Task |-> f[t]]
      BY <1>1
    <3>3. \A t \in Task : f[t] \in TaskState
      BY <1>3, <3>1
    <3> HIDE DEF f
    <3>4. f \in [Task -> TaskState]
      BY <3>2, <3>3
    <3> QED BY <3>4 DEF f
  <2>2. /\ d.prio \in [Task -> Priority] /\ d.queue \in [Task -> Queue \cup {NoQueue}]
        /\ d.left \in [Task -> Nat] /\ d.success \in [Task -> BOOLEAN]
        /\ d.from \in [Task -> Task \cup {NoTask}] /\ d.atomic \in [Task -> Nat]
        /\ d.disint \in [Task -> Nat]
    BY <1>1, <1>2
  <2>3. /\ d.list \in [Queue -> Seq(Task)] /\ d.time_q \in Seq(Task)
    BY <1>1, <1>2
  <2>4. /\ d.curr \in Task /\ d.run \in 0 .. QUANTUM /\ d.fpu \in Task \cup {NoTask}
        /\ d.ts \in BOOLEAN /\ d.math \in SUBSET Task
    <3>1. QUANTUM \in 0 .. QUANTUM
      BY <1>2
    <3>2. d.run \in 0 .. QUANTUM
      BY <1>1, <3>1
    <3>3. d.curr \in Task /\ d.fpu \in Task \cup {NoTask} /\ d.math \in SUBSET Task
      BY <1>1, <1>2
    <3>4. d.ts \in BOOLEAN
      BY <1>1
    <3> QED BY <3>2, <3>3, <3>4
  <2>5. d = [state |-> d.state, prio |-> d.prio, queue |-> d.queue, list |-> d.list,
             time_q |-> d.time_q, left |-> d.left, success |-> d.success, from |-> d.from,
             atomic |-> d.atomic, disint |-> d.disint, curr |-> d.curr, run |-> d.run,
             fpu |-> d.fpu, ts |-> d.ts, math |-> d.math]
    BY DEF Boot
  <2> HIDE DEF d
  <2> QED BY <2>1, <2>2, <2>3, <2>4, <2>5 DEF Records
<1> HIDE DEF d
<1>5. \A t \in Task, q \in Queue : t \in ToSet(d.list[q]) <=> d.queue[t] = q
  <2> SUFFICES ASSUME NEW t \in Task, NEW q \in Queue
               PROVE  t \in ToSet(d.list[q]) <=> d.queue[t] = q
    OBVIOUS
  <2>1. ToSet(<<Null>>) = {Null} /\ ToSet(<<>>) = {}
    BY DEF ToSet
  <2>2. ToSet(d.list[q]) = IF q = ReadyQ THEN {Null} ELSE {}
    BY <1>1, <2>1
  <2>3. d.queue[t] = IF t = Null THEN ReadyQ ELSE NoQueue
    BY <1>1
  <2> QED BY <1>2, <2>2, <2>3
<1>6. \A q \in Queue : NoRepetition(d.list[q]) /\ IsOrdered(d.list[q], d.prio)
  <2> SUFFICES ASSUME NEW q \in Queue
               PROVE  NoRepetition(d.list[q]) /\ IsOrdered(d.list[q], d.prio)
    OBVIOUS
  <2>1. d.list[q] = <<Null>> \/ d.list[q] = <<>>
    BY <1>1
  <2> QED BY <2>1 DEF NoRepetition, IsOrdered
<1>7. TimeOrdered(d) /\ Timing(d) = {}
  BY <1>1 DEF TimeOrdered, Timing, ToSet, NoRepetition, IsOrdered
<1>8. Linked(d)
  BY <1>4, <1>5, <1>6, <1>7 DEF Linked, ListsAgree
<1>9. \A t \in Task : d.queue[t] = (IF t = Null THEN ReadyQ ELSE NoQueue)
  BY <1>1
<1>10. Placed(d)
  <2>1. \A t \in Task : Fits(d.state[t], d.queue[t])
    BY <1>2, <1>3, <1>9 DEF Fits
  <2> QED BY <1>1, <1>2, <1>3, <1>7, <2>1 DEF Placed
<1>11. Met(d)
  BY <1>2, <1>9 DEF Met
<1>12. Prioritised(d)
  <2>1. d.prio[Null] = 0 /\ d.prio[Main] \in Nat /\ d.run > 0
    BY <1>1, <1>2 DEF MIN_PRIO
  <2> QED BY <1>1, <1>2, <1>3, <2>1 DEF Prioritised
<1>13. InUse(d)
  BY <1>1, <1>2, <1>3, <1>8, <1>10, <1>11 DEF InUse, Sound
<1>14. \A t \in Task : d.queue[t] \in {ReadyQ, NoQueue} /\ d.state[t] # "Terminated"
  BY <1>3, <1>9
<1> QED BY <1>1, <1>12, <1>13, <1>14 DEF d

(***************************************************************************)
(* The state in which mt_main calls the shell satisfies the invariant.     *)
(***************************************************************************)
LEMMA InitKeeps == Init => IInv
<1> SUFFICES ASSUME Init PROVE IInv
  OBVIOUS
<1>1. /\ calls \in Uses /\ k = Boot /\ iflag = TRUE /\ eflags = [t \in Task |-> TRUE]
      /\ switched = {} /\ at = [t \in Task |-> "client"] /\ victim = [t \in Task |-> NoTask]
      /\ freed = {} /\ frames = <<>> /\ op = NoOp /\ signalled = [t \in Task |-> FALSE]
  BY DEF Init
<1>2. /\ InUse(k) /\ Prioritised(k) /\ k.curr = Main /\ k.disint = [t \in Task |-> 0] /\ k.ts
      /\ \A t \in Task : k.queue[t] \in {ReadyQ, NoQueue} /\ k.state[t] # "Terminated"
  BY <1>1, BootSound
<1>3. Main \in Task /\ Null \in Task /\ NoTask \notin Task /\ NoTask \notin WaitQ
  BY KernelStateAssumption DEF Queue
<1>4. op = [loop |-> "none", queue |-> NoQueue, success |-> FALSE]
  BY <1>1 DEF NoOp
<1>5. TypeOK
  <2>1. k \in Records
    BY <1>2, CurrentFree
  <2>2. /\ eflags \in [Task -> BOOLEAN] /\ signalled \in [Task -> BOOLEAN]
        /\ victim \in [Task -> Task \cup WaitQ \cup {NoTask}]
        /\ at \in [Task -> {"client", "wait", "send", "receive", "flushed", "released", "emptied"}]
    BY <1>1
  <2>3. op \in [loop : {"none", "flush", "clock"}, queue : Queue \cup {NoQueue}, success : BOOLEAN]
    BY <1>4
  <2>4. frames \in Seq({"clock", "device", "served"}) /\ iflag \in BOOLEAN /\ switched \subseteq Task
        /\ freed \subseteq WaitQ
    BY <1>1
  <2> QED BY <1>1, <2>1, <2>2, <2>3, <2>4 DEF TypeOK
<1>6. DataSound /\ PriorityScheduling
  BY <1>2 DEF DataSound, PriorityScheduling, Prioritised
<1>7. LoopsAgree
  <2>1. op.loop = "none"
    BY <1>4
  <2> QED BY <1>1, <2>1 DEF LoopsAgree
<1>8. SwitchedDisabled /\ BlockedInside
  BY <1>1 DEF SwitchedDisabled, BlockedInside, Blocking
<1>9. InterruptFlag
  BY <1>1, <1>2, <1>3 DEF InterruptFlag
<1>10. VictimsAgree
  <2>1. NoTask # Null
    BY <1>3
  <2> QED BY <1>1, <2>1 DEF VictimsAgree
<1>11. VictimsEmpty
  BY <1>1, <1>3 DEF VictimsEmpty
<1>12. GoneEmpty
  BY <1>1, <1>2, QueueKinds DEF GoneEmpty
<1>13. FpuAgrees /\ TrueMeansGranted
  BY <1>1, <1>2 DEF FpuAgrees, TrueMeansGranted
<1> QED BY <1>5, <1>6, <1>7, <1>8, <1>9, <1>10, <1>11, <1>12, <1>13 DEF IInv

(***************************************************************************)
(* Every call of a task keeps the invariant.                               *)
(***************************************************************************)
LEMMA TaskCallKeeps ==
  ASSUME IInv, NEW t \in Task, TaskCall(t), UNCHANGED <<calls, freed>>
  PROVE  IInv'
<1>1. ASSUME NEW u \in Task, NEW p \in Priority, CreateTask(t, u, p) PROVE IInv'
  BY <1>1, CreateTaskKeeps
<1>2. ASSUME NEW u \in Task, NEW p \in Priority, SetPriority(t, u, p) PROVE IInv'
  BY <1>2, SetPriorityKeeps
<1>3. ASSUME NEW u \in Task, Suspend(t, u) PROVE IInv'
  BY <1>3, SuspendKeeps
<1>4. ASSUME NEW u \in Task, Ready(t, u) PROVE IInv'
  BY <1>4, ReadyKeeps
<1>5. ASSUME NEW u \in Task, DeleteTask(t, u) PROVE IInv'
  BY <1>5, DeleteTaskKeeps
<1>6. ASSUME NEW u \in Task, Send(t, u) PROVE IInv'
  BY <1>6, SendKeeps
<1>7. ASSUME NEW u \in Task, NEW n \in Waits, SendWait(t, u, n) PROVE IInv'
  BY <1>7, SendWaitKeeps
<1>8. ASSUME NEW n \in Waits \cup {0}, Delay(t, n) PROVE IInv'
  BY <1>8, DelayKeeps
<1>9. ASSUME NEW q \in WaitQ, NEW n \in Waits, WaitQueue(t, q, n) PROVE IInv'
  BY <1>9, WaitQueueKeeps
<1>10. ASSUME NEW q \in WaitQ, SignalQueue(t, q) PROVE IInv'
  BY <1>10, SignalQueueKeeps
<1>11. ASSUME NEW q \in WaitQ, DeleteQueue(t, q) PROVE IInv'
  BY <1>11, DeleteQueueKeeps
<1>12. ASSUME NEW q \in WaitQ, NEW ok \in BOOLEAN, FlushQueue(t, q, ok) PROVE IInv'
  BY <1>12, FlushQueueKeeps
<1>13. ASSUME NEW from \in Task \cup {NoTask}, Receive(t, from) PROVE IInv'
  BY <1>13, ReceiveKeeps
<1>14. ASSUME NEW from \in Task \cup {NoTask}, NEW n \in Waits, ReceiveWait(t, from, n) PROVE IInv'
  BY <1>14, ReceiveWaitKeeps
<1>15. ASSUME Atomic(t) PROVE IInv'
  BY <1>15, AtomicKeeps
<1>16. ASSUME Unatomic(t) PROVE IInv'
  BY <1>16, UnatomicKeeps
<1>17. ASSUME DisableInts(t) PROVE IInv'
  BY <1>17, DisableIntsKeeps
<1>18. ASSUME RestoreInts(t) PROVE IInv'
  BY <1>18, RestoreIntsKeeps
<1>19. ASSUME UseFpu(t) PROVE IInv'
  BY <1>19, UseFpuKeeps
<1> QED BY <1>1, <1>2, <1>3, <1>4, <1>5, <1>6, <1>7, <1>8, <1>9, <1>10, <1>11, <1>12, <1>13,
           <1>14, <1>15, <1>16, <1>17, <1>18, <1>19 DEF TaskCall

(***************************************************************************)
(* A stuttering step keeps the invariant.                                  *)
(***************************************************************************)
LEMMA StutterKeeps ==
  ASSUME IInv, UNCHANGED vars
  PROVE  IInv'
<1>1. UNCHANGED <<calls, k, iflag, eflags, switched, at, victim, freed, frames, op, signalled>>
  BY DEF vars
<1>2. TypeOK' /\ DataSound'
  BY <1>1 DEF IInv, TypeOK, DataSound
<1>3. LoopsAgree' /\ SwitchedDisabled' /\ BlockedInside' /\ InterruptFlag' /\ PriorityScheduling'
  BY <1>1 DEF IInv, LoopsAgree, SwitchedDisabled, BlockedInside, InterruptFlag, PriorityScheduling
<1>4. VictimsAgree' /\ VictimsEmpty' /\ GoneEmpty' /\ FpuAgrees' /\ TrueMeansGranted'
  BY <1>1 DEF IInv, VictimsAgree, VictimsEmpty, Flushing, GoneEmpty, FpuAgrees, TrueMeansGranted
<1> QED BY <1>2, <1>3, <1>4 DEF IInv

(***************************************************************************)
(* The invariant is inductive.                                             *)
(***************************************************************************)
LEMMA NextKeeps == IInv /\ [Next]_vars => IInv'
<1> SUFFICES ASSUME IInv, [Next]_vars PROVE IInv'
  OBVIOUS
<1>1. ASSUME NEW t \in Task, TaskCall(t), UNCHANGED <<calls, freed>> PROVE IInv'
  BY <1>1, TaskCallKeeps
<1>2. ASSUME NEW t \in Task, GoesOn(t) PROVE IInv'
  <2>1. ASSUME Resume(t), UNCHANGED <<calls, freed>> PROVE IInv'
    BY <2>1, ResumeKeeps
  <2>2. ASSUME ReleaseFpu(t), UNCHANGED <<calls, freed>> PROVE IInv'
    BY <2>2, ReleaseFpuKeeps
  <2>3. ASSUME Terminate(t), UNCHANGED <<calls, freed>> PROVE IInv'
    BY <2>3, TerminateKeeps
  <2>4. ASSUME FreeQueue(t), UNCHANGED calls PROVE IInv'
    BY <2>4, FreeQueueKeeps
  <2> QED BY <1>2, <2>1, <2>2, <2>3, <2>4 DEF GoesOn
<1>3. ASSUME NEW t \in Task, NEW q \in WaitQ, CreateQueue(t, q), UNCHANGED calls PROVE IInv'
  BY <1>3, CreateQueueKeeps
<1>4. ASSUME KernelStep PROVE IInv'
  <2>1. UNCHANGED <<calls, freed>>
    BY <1>4 DEF KernelStep
  <2>2. CASE FlushNext
    BY <2>1, <2>2, FlushNextKeeps
  <2>3. CASE FlushEnd
    BY <2>1, <2>3, FlushEndKeeps
  <2>4. CASE WakeHead
    BY <2>1, <2>4, WakeHeadStepKeeps
  <2>5. CASE ClockEnd
    BY <2>1, <2>5, ClockEndKeeps
  <2>6. CASE DeviceEoi
    BY <2>1, <2>6, DeviceEoiKeeps
  <2>7. CASE DeviceEnd
    BY <2>1, <2>7, DeviceEndKeeps
  <2> QED BY <1>4, <2>2, <2>3, <2>4, <2>5, <2>6, <2>7 DEF KernelStep
<1>5. ASSUME TimerInt PROVE IInv'
  BY <1>5, ClockIntKeeps DEF TimerInt
<1>6. ASSUME NEW q \in WaitQ, DeviceInt(q), UNCHANGED <<calls, freed>> PROVE IInv'
  BY <1>6, DeviceIntKeeps
<1>7. ASSUME UNCHANGED vars PROVE IInv'
  BY <1>7, StutterKeeps
<1> QED BY <1>1, <1>2, <1>3, <1>4, <1>5, <1>6, <1>7 DEF Next

-----------------------------------------------------------------------------
(***************************************************************************)
(* The inductive invariant holds in every reachable state.                 *)
(***************************************************************************)
THEOREM IInvHolds == Spec => []IInv
BY InitKeeps, NextKeeps, PTL DEF Spec

(***************************************************************************)
(* Every variable keeps its type; in particular no nesting level of Atomic *)
(* or DisableInts is ever decremented below zero.                          *)
(***************************************************************************)
THEOREM TypeCorrect == Spec => []TypeOK
<1>1. IInv => TypeOK
  BY DEF IInv
<1> QED BY <1>1, IInvHolds, PTL

(***************************************************************************)
(* The queue field of a task names the one list it is linked in, and every *)
(* list stays ordered by priority, the time queue by the time left.        *)
(***************************************************************************)
THEOREM QueuesAgreeHolds == Spec => []QueuesAgree
<1>1. IInv => QueuesAgree
  BY DEF IInv, DataSound, InUse, Sound, Linked, ListsAgree, TimeOrdered, QueuesAgree
<1> QED BY <1>1, IInvHolds, PTL

(***************************************************************************)
(* The state of every task agrees with the queue it is in; exactly one is  *)
(* current and it is mt_curr_task; only tasks in a timed wait are in the   *)
(* time queue; the null task can always run.                               *)
(***************************************************************************)
THEOREM StatesAgreeHolds == Spec => []StatesAgree
<1>1. IInv => StatesAgree
  <2> SUFFICES ASSUME IInv PROVE StatesAgree
    OBVIOUS
  <2>1. Placed(k) /\ k.state[k.curr] = "Current"
    BY DEF IInv, DataSound, InUse, Sound
  <2>2. \A t \in Task : Fits(k.state[t], k.queue[t]) /\ (k.state[t] = "Current" <=> t = k.curr)
    BY <2>1 DEF Placed
  <2>3. \A t \in ToSet(k.time_q) : k.state[t] \in {"Delaying", "Waiting", "Sending", "Receiving"}
    BY <2>1 DEF Placed, Timing, TimedStates
  <2>4. k.state[Null] \in {"Ready", "Current"}
    BY <2>1 DEF Placed
  <2> QED BY <2>2, <2>3, <2>4 DEF StatesAgree, Fits
<1> QED BY <1>1, IInvHolds, PTL

(***************************************************************************)
(* While a task's own code runs in preemptive mode no task of higher       *)
(* priority is ready, nor one of the same priority after its time slice,   *)
(* however many interrupts and nested sections came in between.            *)
(***************************************************************************)
THEOREM PrioritySchedulingHolds == Spec => []PriorityScheduling
<1>1. IInv => PriorityScheduling
  BY DEF IInv
<1> QED BY <1>1, IInvHolds, PTL

(***************************************************************************)
(* Interrupts are enabled in a task's code exactly when its own level of   *)
(* DisableInts is zero, through any number of task switches.               *)
(***************************************************************************)
THEOREM InterruptFlagHolds == Spec => []InterruptFlag
<1>1. IInv => InterruptFlag
  BY DEF IInv
<1> QED BY <1>1, IInvHolds, PTL

(***************************************************************************)
(* Nobody is left in the queue of a task that ended or in one whose memory *)
(* was given back, though others run between the flush and the end.        *)
(***************************************************************************)
THEOREM NobodyStrandedHolds == Spec => []NobodyStranded
<1>1. IInv => NobodyStranded
  <2> SUFFICES ASSUME IInv, NEW q \in Gone PROVE k.list[q] = <<>>
    BY DEF NobodyStranded
  <2>1. Linked(k) /\ freed \subseteq WaitQ
    BY DEF IInv, DataSound, InUse, Sound, TypeOK
  <2>2. q \in Queue /\ \A u \in Task : k.queue[u] # q
    BY <2>1, QueueKinds DEF IInv, GoneEmpty, Gone, Dead
  <2> QED BY <2>1, <2>2, LastOfList
<1> QED BY <1>1, IInvHolds, PTL

(***************************************************************************)
(* The TS bit is down only while the owner of the coprocessor has the CPU: *)
(* no other task can change its registers unnoticed.                       *)
(***************************************************************************)
THEOREM LazyFpuHolds == Spec => []LazyFpu
<1>1. IInv => LazyFpu
  BY DEF IInv, FpuAgrees, LazyFpu
<1> QED BY <1>1, IInvHolds, PTL

(***************************************************************************)
(* A blocking call returns true only if its wait was granted by a signal,  *)
(* a flush with true or the other end of a rendezvous.                     *)
(***************************************************************************)
THEOREM TrueMeansGrantedHolds == Spec => []TrueMeansGranted
<1>1. IInv => TrueMeansGranted
  BY DEF IInv
<1> QED BY <1>1, IInvHolds, PTL

(***************************************************************************)
(* A sender and a receiver that match are never both left waiting.         *)
(***************************************************************************)
THEOREM RendezvousMeetsHolds == Spec => []RendezvousMeets
<1>1. IInv => RendezvousMeets
  BY DEF IInv, DataSound, InUse, Sound, Met, RendezvousMeets
<1> QED BY <1>1, IInvHolds, PTL
-----------------------------------------------------------------------------
(* Cooperative mode.  A call of the current task that makes d of the data  *)
(* does not put the task back in the ready queue.                          *)

Unyielding(d) == Sound(d) /\ GaveWay(d) /\ d.curr = k.curr /\ d.state[k.curr] # "Ready"

StaysOrBlocks(t) == k'.atomic[t] > 0 /\ k'.curr # t => k'.state[t] # "Ready"

(***************************************************************************)
(* The selection leaves a current task in an Atomic section the CPU, and   *)
(* does not wake one that has blocked.                                     *)
(***************************************************************************)
LEMMA SelectStays ==
  ASSUME NEW t \in Task, t = k.curr, NEW d, Unyielding(d), NEW s, s = Select(d), s.atomic[t] > 0, s.curr # t
  PROVE  s.state[t] # "Ready"
<1>1. /\ Selected(d, s)
      /\ d.state[d.curr] = "Current" /\ d.atomic[d.curr] > 0 => s = d
  BY SelectEffect DEF Unyielding
<1>2. d.state[t] # "Current"
  BY <1>1 DEF Unyielding, Selected
<1> QED BY <1>1, <1>2 DEF Unyielding, Selected

(***************************************************************************)
(* A step that selects nobody.                                             *)
(***************************************************************************)
LEMMA SameCurrStays ==
  ASSUME NEW t, k'.curr = t
  PROVE  StaysOrBlocks(t)
BY DEF StaysOrBlocks

(***************************************************************************)
(* The end of a call that did not yield.                                   *)
(***************************************************************************)
LEMMA RescheduleStays ==
  ASSUME IInv, NEW t \in Task, t = k.curr, NEW d, Unyielding(d), Reschedule(t, d) \/ Return(t, d)
  PROVE  StaysOrBlocks(t)
<1> DEFINE s == Select(d)
<1>1. s = Select(d)
  OBVIOUS
<1>2. Reschedule(t, d) => \/ s.curr = t /\ Return(t, s)
                          \/ s.curr # t /\ k' = [s EXCEPT !.disint[t] = @ + 1]
  BY DEF Reschedule
<1>3. s \in Records
  BY SelectEffect DEF Unyielding, Sound, Linked
<1> HIDE DEF s
<1>4. CASE Return(t, d)
  BY <1>4, SameCurrStays DEF Return, Unyielding
<1>5. CASE Reschedule(t, d) /\ s.curr = t
  BY <1>2, <1>5, SameCurrStays DEF Return
<1>6. CASE Reschedule(t, d) /\ s.curr # t
  <2> DEFINE m == s.disint[t] + 1
             e == [s EXCEPT !.disint[t] = m]
  <2>1. k' = e
    BY <1>2, <1>6
  <2> HIDE DEF m
  <2>2. e.state = s.state /\ e.atomic = s.atomic
    BY <1>3 DEF Records
  <2> HIDE DEF e
  <2>3. k'.atomic[t] > 0 => k'.state[t] # "Ready"
    BY <1>1, <1>6, <2>1, <2>2, SelectStays
  <2> QED BY <2>3 DEF StaysOrBlocks
<1> QED BY <1>4, <1>5, <1>6

(***************************************************************************)
(* What a call prepares, with the current task not ready.                  *)
(***************************************************************************)
LEMMA PreparedStays ==
  ASSUME IInv, NEW t \in Task, t = k.curr, NEW d, NEW W, NEW G, NEW X, Prepared(k, d, W, G, X),
         d.state[t] # "Ready", Reschedule(t, d) \/ Return(t, d) \/ AfterAtomic(t, d)
  PROVE  StaysOrBlocks(t)
<1>1. Unyielding(d)
  BY DEF Unyielding, Prepared
<1>2. Reschedule(t, d) \/ Return(t, d)
  BY DEF AfterAtomic
<1> QED BY <1>1, <1>2, RescheduleStays

(***************************************************************************)
(* Calls on tasks.                                                         *)
(***************************************************************************)
LEMMA CreateTaskStays ==
  ASSUME IInv, NEW t \in Task, NEW u \in Task, NEW p \in Priority, CreateTask(t, u, p)
  PROVE  StaysOrBlocks(t)
<1> DEFINE d == [FreeTerminated(k) EXCEPT !.state[u] = "Suspended", !.prio[u] = p]
<1>1. Running(t) /\ k.state[u] = "Unborn" /\ AfterAtomic(t, d)
  BY DEF CreateTask, Client
<1>2. InUse(k) /\ t = k.curr
  BY <1>1, Caller
<1>3. Prepared(k, d, {}, {}, {}) /\ d.state[t] = "Current"
  BY <1>1, <1>2, CreatePrepared
<1> HIDE DEF d
<1> QED BY <1>1, <1>2, <1>3, PreparedStays

(***************************************************************************)
(* Suspend.                                                                *)
(***************************************************************************)
LEMMA SuspendStays ==
  ASSUME IInv, NEW t \in Task, NEW u \in Task, Suspend(t, u)
  PROVE  StaysOrBlocks(t)
<1> DEFINE d == Block(k, u, "Suspended")
<1>1. Running(t) /\ u # Null /\ k.state[u] \notin Dead /\ (Reschedule(t, d) \/ Return(t, d))
  BY DEF Suspend, Client, Handle, Dead
<1>2. InUse(k) /\ t = k.curr /\ k.state[t] = "Current" /\ k.state \in [Task -> TaskState]
  BY <1>1, Caller, CurrentFree
<1>3. Prepared(k, d, {}, {}, {}) /\ d.state = [k.state EXCEPT ![u] = "Suspended"]
  BY <1>1, <1>2, BlockPrepared
<1> HIDE DEF d
<1>4. d.state[t] # "Ready"
  BY <1>2, <1>3
<1> QED BY <1>1, <1>2, <1>3, <1>4, PreparedStays

(***************************************************************************)
(* Ready, on another task than the caller.                                 *)
(***************************************************************************)
LEMMA ReadyStays ==
  ASSUME IInv, NEW t \in Task, NEW u \in Task, Ready(t, u), u # t
  PROVE  StaysOrBlocks(t)
<1> DEFINE d == MakeReady(k, u, FALSE)
<1>1. Running(t) /\ k.state[u] \notin Dead /\ Reschedule(t, d)
  BY DEF Ready, Client, Handle, Dead
<1>2. InUse(k) /\ t = k.curr /\ k.state[t] = "Current" /\ k.state \in [Task -> TaskState]
  BY <1>1, Caller, CurrentFree
<1>3. Prepared(k, d, {}, {}, {}) /\ d.state = [k.state EXCEPT ![u] = "Ready"]
  BY <1>1, <1>2, ReadyPrepared
<1> HIDE DEF d
<1>4. d.state[t] # "Ready"
  BY <1>2, <1>3
<1> QED BY <1>1, <1>2, <1>3, <1>4, PreparedStays

(***************************************************************************)
(* SetPriority.                                                            *)
(***************************************************************************)
LEMMA SetPriorityStays ==
  ASSUME IInv, NEW t \in Task, NEW u \in Task, NEW p \in Priority, SetPriority(t, u, p)
  PROVE  StaysOrBlocks(t)
<1> DEFINE d == SetPrio(k, u, p)
<1>1. Running(t) /\ (Reschedule(t, d) \/ Return(t, d))
  BY DEF SetPriority, SetPrio, Client
<1>2. InUse(k) /\ t = k.curr /\ k.state[t] = "Current"
  BY <1>1, Caller
<1>3. Prepared(k, d, {}, {}, {}) /\ d.state = k.state
  BY <1>2, SetPrioPrepared
<1> HIDE DEF d
<1>4. d.state[t] # "Ready"
  BY <1>2, <1>3
<1> QED BY <1>1, <1>2, <1>3, <1>4, PreparedStays

(***************************************************************************)
(* Delay, other than Delay(0), which is Yield.                             *)
(***************************************************************************)
LEMMA DelayStays ==
  ASSUME IInv, NEW t \in Task, NEW n \in Waits, n # 0, Delay(t, n)
  PROVE  StaysOrBlocks(t)
<1> DEFINE d == Timed(Block(k, t, "Delaying"), t, n)
<1>1. Running(t) /\ Reschedule(t, d)
  BY DEF Delay, Client
<1>2. InUse(k) /\ t = k.curr /\ t # Null
  BY <1>1, Caller
<1>3. Prepared(k, d, {NoQueue}, {}, {t}) /\ d.state[t] = "Delaying"
  BY <1>2, DelayPrepared
<1> HIDE DEF d
<1>4. d.state[t] # "Ready"
  BY <1>3
<1> QED BY <1>1, <1>2, <1>3, <1>4, PreparedStays

(***************************************************************************)
(* Unatomic, which here leaves an outer section open.                      *)
(***************************************************************************)
LEMMA UnatomicStays ==
  ASSUME IInv, NEW t \in Task, Unatomic(t)
  PROVE  StaysOrBlocks(t)
<1> DEFINE n == k.atomic[t] - 1
           d == [k EXCEPT !.atomic[t] = n]
<1>1. Running(t) /\ k.atomic[t] > 0 /\ (Reschedule(t, d) \/ k' = d)
  BY DEF Unatomic, Client
<1>2. InUse(k) /\ t = k.curr /\ k.state[t] = "Current" /\ k.atomic \in [Task -> Nat] /\ k \in Records
  BY <1>1, Caller, CurrentFree
<1>3. n \in Nat
  BY <1>1, <1>2
<1> HIDE DEF n
<1>4. SameButLevels(k, d)
  BY <1>2, <1>3, AtomicSet
<1> HIDE DEF d
<1>5. InUse(d)
  BY <1>2, <1>4, ScalarsPrepared DEF SameButLevels
<1>6. Unyielding(d)
  BY <1>2, <1>4, <1>5, CurrentFree DEF Unyielding, InUse, SameButLevels
<1>7. CASE Reschedule(t, d)
  BY <1>2, <1>6, <1>7, RescheduleStays
<1>8. CASE k' = d
  BY <1>2, <1>6, <1>8, SameCurrStays DEF Unyielding
<1> QED BY <1>1, <1>7, <1>8

(***************************************************************************)
(* Calls on queues.                                                        *)
(***************************************************************************)
LEMMA WaitQueueStays ==
  ASSUME IInv, NEW t \in Task, NEW q \in WaitQ, NEW n \in Waits, WaitQueue(t, q, n)
  PROVE  StaysOrBlocks(t)
<1> DEFINE d == Timed(Enqueue(Block(k, t, "Waiting"), t, q), t, n)
<1>1. Running(t) /\ Reschedule(t, d)
  BY DEF WaitQueue, Client
<1>2. InUse(k) /\ t = k.curr /\ t # Null
  BY <1>1, Caller
<1>3. Prepared(k, d, {q}, {}, {t}) /\ SameDead(k, d) /\ d.state[t] \notin Awake
  BY <1>2, WaitQueuePrepared DEF Awake
<1> HIDE DEF d
<1>4. d.state[t] # "Ready"
  BY <1>3 DEF Awake
<1> QED BY <1>1, <1>2, <1>3, <1>4, PreparedStays

(***************************************************************************)
(* SignalQueue.                                                            *)
(***************************************************************************)
LEMMA SignalQueueStays ==
  ASSUME IInv, NEW t \in Task, NEW q \in WaitQ, SignalQueue(t, q)
  PROVE  StaysOrBlocks(t)
<1> DEFINE u == PeekLast(k, q)
           ok == TRUE
           d == MakeReady(GetLast(k, q), u, ok)
<1>1. Running(t) /\ k.list[q] # <<>> /\ Reschedule(t, d) /\ ok \in BOOLEAN
  BY DEF SignalQueue, Client
<1>2. InUse(k) /\ t = k.curr /\ q \in Task \cup WaitQ
  BY <1>1, Caller
<1> HIDE DEF ok
<1>3. Prepared(k, d, {}, {u}, {}) /\ d.state[t] = "Current"
  BY <1>1, <1>2, WakeLastPrepared
<1> HIDE DEF d, u
<1>4. d.state[t] # "Ready"
  BY <1>3
<1> QED BY <1>1, <1>2, <1>3, <1>4, PreparedStays

(***************************************************************************)
(* Free and Malloc, at the end of DeleteQueue and in CreateQueue.          *)
(***************************************************************************)
LEMMA QueueMemoryStays ==
  ASSUME IInv, NEW t \in Task,
         FreeQueue(t) \/ \E q \in WaitQ : CreateQueue(t, q)
  PROVE  StaysOrBlocks(t)
<1> DEFINE f == FreeTerminated(k)
<1>1. Running(t) /\ (AfterAtomic(t, k) \/ AfterAtomic(t, f))
  BY DEF FreeQueue, CreateQueue, Client
<1>2. InUse(k) /\ t = k.curr /\ k.state[t] = "Current"
  BY <1>1, Caller
<1>3. Prepared(k, k, {}, {}, {}) /\ Prepared(k, f, {}, {}, {}) /\ InUse(f)
  BY <1>2, NothingPrepared, FreeTerminatedPrepared
<1> HIDE DEF f
<1>4. f.state[t] # "Ready" /\ k.state[t] # "Ready"
  BY <1>2, <1>3 DEF InUse, Prepared
<1>5. CASE AfterAtomic(t, k)
  BY <1>2, <1>3, <1>4, <1>5, PreparedStays
<1>6. CASE AfterAtomic(t, f)
  BY <1>2, <1>3, <1>4, <1>6, PreparedStays
<1> QED BY <1>1, <1>5, <1>6

(***************************************************************************)
(* The two ends of SendTimed.                                              *)
(***************************************************************************)
LEMMA SendStays ==
  ASSUME IInv, NEW t \in Task, NEW u \in Task, Send(t, u) \/ \E n \in Waits : SendWait(t, u, n)
  PROVE  StaysOrBlocks(t)
<1>1. CASE Send(t, u)
  <2> DEFINE d == MakeReady([k EXCEPT !.from[u] = t], u, TRUE)
  <2>1. Running(t) /\ k.state[u] = "Receiving" /\ Reschedule(t, d)
    BY <1>1 DEF Send, Client, Awaits
  <2>2. InUse(k) /\ t = k.curr /\ k.state[t] = "Current" /\ k.state \in [Task -> TaskState]
    BY <2>1, Caller, CurrentFree
  <2>3. Prepared(k, d, {}, {u}, {}) /\ SameDead(k, d) /\ d.state[t] # "Ready"
    <3>1. Prepared(k, d, {}, {u}, {}) /\ SameDead(k, d) /\ Readied(k, d, u)
      BY <2>1, <2>2, SendPrepared
    <3> HIDE DEF d
    <3> QED BY <2>1, <2>2, <3>1 DEF Readied
  <2> HIDE DEF d
  <2> QED BY <2>1, <2>2, <2>3, PreparedStays
<1>2. ASSUME NEW n \in Waits, SendWait(t, u, n) PROVE StaysOrBlocks(t)
  <2> DEFINE d == Timed(Enqueue([k EXCEPT !.state[t] = "Sending"], t, u), t, n)
  <2>1. /\ Running(t) /\ Reschedule(t, d)
        /\ ~ (k.state[u] = "Receiving" /\ k.from[u] \in {NoTask, t})
    BY <1>2 DEF SendWait, Client, Awaits
  <2>2. InUse(k) /\ t = k.curr /\ t # Null
    BY <2>1, Caller
  <2>3. Prepared(k, d, {u}, {}, {t}) /\ SameDead(k, d) /\ d.state[t] \notin Awake
    BY <2>1, <2>2, SendWaitPrepared DEF Awake
  <2> HIDE DEF d
  <2>4. d.state[t] # "Ready"
    BY <2>3 DEF Awake
  <2> QED BY <2>1, <2>2, <2>3, <2>4, PreparedStays
<1> QED BY <1>1, <1>2

(***************************************************************************)
(* The two ends of ReceiveTimed.                                           *)
(***************************************************************************)
LEMMA ReceiveStays ==
  ASSUME IInv, NEW t \in Task, NEW f \in Task \cup {NoTask},
         Receive(t, f) \/ \E n \in Waits : ReceiveWait(t, f, n)
  PROVE  StaysOrBlocks(t)
<1>1. CASE Receive(t, f)
  <2>1. Running(t) /\ \E s \in Senders(t, f) : Reschedule(t, MakeReady(k, s, TRUE))
    BY <1>1 DEF Receive, Client
  <2>2. InUse(k) /\ t = k.curr /\ k.state[t] = "Current" /\ k.state \in [Task -> TaskState]
    BY <2>1, Caller, CurrentFree
  <2>3. PICK s \in Senders(t, f) : Reschedule(t, MakeReady(k, s, TRUE))
    BY <2>1
  <2>4. s \in Task /\ k.state[s] = "Sending" /\ k.state[s] \notin Dead
    BY <2>2, SenderFound DEF Dead
  <2> DEFINE d == MakeReady(k, s, TRUE)
  <2>5. Prepared(k, d, {}, {s}, {}) /\ d.state = [k.state EXCEPT ![s] = "Ready"]
    BY <2>2, <2>4, ReadyPrepared
  <2>6. Reschedule(t, d)
    BY <2>3
  <2> HIDE DEF d
  <2>7. d.state[t] # "Ready"
    BY <2>2, <2>4, <2>5
  <2> QED BY <2>2, <2>5, <2>6, <2>7, PreparedStays
<1>2. ASSUME NEW n \in Waits, ReceiveWait(t, f, n) PROVE StaysOrBlocks(t)
  <2> DEFINE d == Timed([k EXCEPT !.from[t] = f, !.state[t] = "Receiving"], t, n)
  <2>1. Running(t) /\ Senders(t, f) = {} /\ Reschedule(t, d)
    BY <1>2 DEF ReceiveWait, Client
  <2>2. InUse(k) /\ t = k.curr /\ t # Null
    BY <2>1, Caller
  <2>3. NobodySends(k, t, f)
    BY <2>1, <2>2, NoSenders
  <2>4. Prepared(k, d, {NoQueue}, {}, {t}) /\ SameDead(k, d) /\ d.state[t] \notin Awake
    BY <2>2, <2>3, ReceiveWaitPrepared DEF Awake
  <2> HIDE DEF d
  <2>5. d.state[t] # "Ready"
    BY <2>4 DEF Awake
  <2> QED BY <2>1, <2>2, <2>4, <2>5, PreparedStays
<1> QED BY <1>1, <1>2
(***************************************************************************)
(* A coprocessor instruction: the owner that loses it keeps the CPU.       *)
(***************************************************************************)
LEMMA UseFpuStays ==
  ASSUME IInv, NEW t \in Task, UseFpu(t)
  PROVE  StaysOrBlocks(t)
<1> DEFINE f == FreeTerminated(k)
           m == IF k.fpu # NoTask /\ k.fpu \notin k.math
                THEN [f EXCEPT !.math = @ \cup {k.fpu}] ELSE k
           e == [m EXCEPT !.ts = FALSE, !.fpu = t]
           s == Select(e)
<1>1. Running(t) /\ k' = s
  BY DEF UseFpu, Client
<1>2. InUse(k) /\ t = k.curr
  BY <1>1, Caller
<1>3. s = Select(e)
  OBVIOUS
<1>4. InUse(m) /\ Prepared(k, m, {}, {}, {})
  BY <1>2, OwnerSaved
<1> HIDE DEF m, s
<1>5. m \in Records
  BY <1>4, CurrentFree
<1>6. /\ e \in Records /\ SameLists(m, e) /\ SameTimes(m, e) /\ SameStatus(m, e)
      /\ e.curr = m.curr /\ e.from = m.from
  BY <1>5 DEF Records, SameLists, SameTimes, SameStatus
<1> HIDE DEF e
<1>7. InUse(e) /\ e.curr = k.curr
  BY <1>4, <1>6, ScalarsPrepared DEF Prepared
<1>8. Unyielding(e)
  BY <1>7, CurrentFree DEF Unyielding, InUse
<1>9. s.atomic[t] > 0 /\ s.curr # t => s.state[t] # "Ready"
  BY <1>2, <1>3, <1>8, SelectStays
<1> QED BY <1>1, <1>9 DEF StaysOrBlocks

(***************************************************************************)
(* The end of DeleteTask, or of Exit.                                      *)
(***************************************************************************)
LEMMA TerminateStays ==
  ASSUME IInv, NEW t \in Task, Terminate(t)
  PROVE  StaysOrBlocks(t)
<1> DEFINE v == victim[t]
           e == Enqueue([k EXCEPT !.state[t] = "Terminated"], t, TerminatedQ)
           f == Block(k, v, "Freed")
<1>1. Running(t) /\ at[t] = "released" /\ (IF v = t THEN Reschedule(t, e) ELSE Return(t, f))
  BY DEF Terminate
<1>2. /\ InUse(k) /\ t = k.curr /\ t # Null /\ k.state[t] = "Current" /\ k.state \in [Task -> TaskState]
      /\ victim \in [Task -> Task \cup WaitQ \cup {NoTask}]
  BY <1>1, Caller, CurrentFree
<1>3. v \in Task /\ v # Null
  BY <1>1, <1>2 DEF IInv, VictimsAgree, Dead
<1> HIDE DEF v
<1>4. CASE v = t
  <2>1. Reschedule(t, e)
    BY <1>1, <1>4
  <2>2. Prepared(k, e, {}, {}, {}) /\ e.state = [k.state EXCEPT ![t] = "Terminated"]
    BY <1>2, EndPrepared
  <2> HIDE DEF e
  <2>3. e.state[t] # "Ready"
    BY <1>2, <2>2
  <2> QED BY <1>2, <2>1, <2>2, <2>3, PreparedStays
<1>5. CASE v # t
  <2>1. Return(t, f)
    BY <1>1, <1>5
  <2>2. Prepared(k, f, {}, {}, {}) /\ f.state = [k.state EXCEPT ![v] = "Freed"]
    BY <1>2, <1>3, <1>5, FreePrepared
  <2> HIDE DEF f
  <2>3. f.state[t] # "Ready"
    BY <1>2, <1>3, <1>5, <2>2
  <2> QED BY <1>2, <2>1, <2>2, <2>3, PreparedStays
<1> QED BY <1>4, <1>5

(***************************************************************************)
(* The return of the context switch, and the calls that set a level or one *)
(* field, or begin something.                                              *)
(***************************************************************************)
LEMMA QuietStays ==
  ASSUME IInv, NEW t \in Task, t = k.curr,
         \/ Atomic(t) \/ DisableInts(t) \/ RestoreInts(t) \/ Resume(t) \/ ReleaseFpu(t)
         \/ \E u \in Task : DeleteTask(t, u)
         \/ \E q \in WaitQ : DeleteQueue(t, q) \/ \E ok \in BOOLEAN : FlushQueue(t, q, ok)
  PROVE  StaysOrBlocks(t)
<1>1. k \in Records
  BY DEF IInv, TypeOK
<1>2. CASE Atomic(t)
  <2>1. k' = [k EXCEPT !.atomic[t] = @ + 1]
    BY <1>2 DEF Atomic
  <2> QED BY <1>1, <2>1, SameCurrStays DEF Records
<1>3. CASE DisableInts(t)
  <2>1. k' = [k EXCEPT !.disint[t] = @ + 1]
    BY <1>3 DEF DisableInts
  <2> QED BY <1>1, <2>1, SameCurrStays DEF Records
<1>4. CASE RestoreInts(t) \/ Resume(t)
  <2>1. k' = [k EXCEPT !.disint[t] = @ - 1]
    BY <1>4 DEF RestoreInts, Resume
  <2> QED BY <1>1, <2>1, SameCurrStays DEF Records
<1>5. CASE ReleaseFpu(t)
  <2>1. k' = [k EXCEPT !.fpu = IF @ = victim[t] THEN NoTask ELSE @]
    BY <1>5 DEF ReleaseFpu
  <2> QED BY <1>1, <2>1, SameCurrStays DEF Records
<1>6. CASE \/ \E u \in Task : DeleteTask(t, u)
           \/ \E q \in WaitQ : DeleteQueue(t, q) \/ \E ok \in BOOLEAN : FlushQueue(t, q, ok)
  <2>1. k' = k
    BY <1>6 DEF DeleteTask, DeleteQueue, FlushQueue
  <2> QED BY <2>1, SameCurrStays
<1> QED BY <1>2, <1>3, <1>4, <1>5, <1>6

(***************************************************************************)
(* What a task may do to another that has the CPU: nothing, for only the   *)
(* current task makes calls.                                               *)
(***************************************************************************)
LEMMA OnlyCurrentCalls ==
  ASSUME NEW t \in Task, TaskCall(t) \/ GoesOn(t) \/ \E q \in WaitQ : CreateQueue(t, q)
  PROVE  t = k.curr
<1>1. ASSUME NEW call, Client(t, call) PROVE t = k.curr
  BY <1>1 DEF Client, Running
<1>2. CASE GoesOn(t)
  BY <1>2, Zenon DEF GoesOn, Resume, ReleaseFpu, Terminate, FreeQueue, Running
<1>3. CASE \E q \in WaitQ : CreateQueue(t, q)
  BY <1>1, <1>3 DEF CreateQueue
<1>4. CASE TaskCall(t)
  BY <1>1, <1>4, Zenon DEF TaskCall, CreateTask, SetPriority, Suspend, Ready, DeleteTask, Send, SendWait,
     Delay, WaitQueue, SignalQueue, DeleteQueue, FlushQueue, Receive, ReceiveWait, Atomic, Unatomic,
     DisableInts, RestoreInts, UseFpu
<1> QED BY <1>2, <1>3, <1>4

(***************************************************************************)
(* A call in cooperative mode, unless the caller yields.                   *)
(***************************************************************************)
LEMMA TaskCallStays ==
  ASSUME IInv, NEW t \in Task, TaskCall(t), ~ Yields(t)
  PROVE  StaysOrBlocks(t)
<1>1. t = k.curr
  BY OnlyCurrentCalls
<1>2. ASSUME NEW u \in Task, NEW p \in Priority, CreateTask(t, u, p) \/ SetPriority(t, u, p)
      PROVE StaysOrBlocks(t)
  BY <1>2, CreateTaskStays, SetPriorityStays
<1>3. ASSUME NEW u \in Task, Suspend(t, u) PROVE StaysOrBlocks(t)
  BY <1>3, SuspendStays
<1>4. ASSUME NEW u \in Task, Ready(t, u) PROVE StaysOrBlocks(t)
  BY <1>4, ReadyStays DEF Yields
<1>5. ASSUME NEW u \in Task, Send(t, u) \/ \E n \in Waits : SendWait(t, u, n) PROVE StaysOrBlocks(t)
  BY <1>5, SendStays
<1>6. ASSUME NEW n \in Waits \cup {0}, Delay(t, n) PROVE StaysOrBlocks(t)
  BY <1>6, DelayStays DEF Yields
<1>7. ASSUME NEW q \in WaitQ, NEW n \in Waits, WaitQueue(t, q, n) PROVE StaysOrBlocks(t)
  BY <1>7, WaitQueueStays
<1>8. ASSUME NEW q \in WaitQ, SignalQueue(t, q) PROVE StaysOrBlocks(t)
  BY <1>8, SignalQueueStays
<1>9. ASSUME NEW f \in Task \cup {NoTask}, Receive(t, f) \/ \E n \in Waits : ReceiveWait(t, f, n)
      PROVE StaysOrBlocks(t)
  BY <1>9, ReceiveStays
<1>10. ASSUME Unatomic(t) PROVE StaysOrBlocks(t)
  BY <1>10, UnatomicStays
<1>11. ASSUME UseFpu(t) PROVE StaysOrBlocks(t)
  BY <1>11, UseFpuStays
<1>12. ASSUME \/ Atomic(t) \/ DisableInts(t) \/ RestoreInts(t)
              \/ \E u \in Task : DeleteTask(t, u)
              \/ \E q \in WaitQ : DeleteQueue(t, q) \/ \E ok \in BOOLEAN : FlushQueue(t, q, ok)
       PROVE StaysOrBlocks(t)
  BY <1>1, <1>12, QuietStays
<1> QED BY <1>2, <1>3, <1>4, <1>5, <1>6, <1>7, <1>8, <1>9, <1>10, <1>11, <1>12 DEF TaskCall

(***************************************************************************)
(* The way out of an interrupt gives the CPU back to a current task in     *)
(* cooperative mode, whoever was woken inside.                             *)
(***************************************************************************)
LEMMA IntExitStays ==
  ASSUME IInv, NEW t \in Task, t = k.curr, NEW d, InUse(d), d.curr = k.curr, IntExit(frames, d)
  PROVE  StaysOrBlocks(t)
<1>1. Unyielding(d)
  BY CurrentFree DEF Unyielding, InUse
<1>2. k' = Select(d) \/ k' = d
  BY DEF IntExit
<1> DEFINE s == Select(d)
<1>3. s = Select(d)
  OBVIOUS
<1> HIDE DEF s
<1>4. s.atomic[t] > 0 /\ s.curr # t => s.state[t] # "Ready"
  BY <1>1, <1>3, SelectStays
<1> QED BY <1>2, <1>3, <1>4, SameCurrStays DEF StaysOrBlocks

(***************************************************************************)
(* The kernel's own steps, and interrupts.                                 *)
(***************************************************************************)
LEMMA KernelStays ==
  ASSUME IInv, NEW t \in Task, t = k.curr, KernelStep \/ TimerInt \/ \E q \in WaitQ : DeviceInt(q)
  PROVE  StaysOrBlocks(t)
<1>1. InUse(k) /\ k \in Records
  BY DEF IInv, DataSound, TypeOK
<1>2. CASE FlushNext
  <2> DEFINE q == op.queue
             u == PeekLast(k, q)
             ok == op.success
             d == MakeReady(GetLast(k, q), u, ok)
  <2>1. op.loop = "flush" /\ k.list[q] # <<>> /\ k' = d
    BY <1>2 DEF FlushNext
  <2>2. q \in Task \cup WaitQ /\ ok \in BOOLEAN
    BY <2>1 DEF IInv, LoopsAgree, TypeOK
  <2> HIDE DEF q, ok
  <2>3. Prepared(k, d, {}, {u}, {})
    BY <1>1, <2>1, <2>2, WakeLastPrepared
  <2> HIDE DEF d, u
  <2> QED BY <2>1, <2>3, SameCurrStays DEF Prepared
<1>3. CASE FlushEnd
  <2>1. Reschedule(t, k)
    BY <1>3 DEF FlushEnd
  <2>2. Unyielding(k)
    BY <1>1, CurrentFree DEF Unyielding, InUse
  <2> QED BY <2>1, <2>2, RescheduleStays
<1>4. CASE WakeHead
  <2> DEFINE u == Head(k.time_q)
             d == MakeReady([k EXCEPT !.time_q = Tail(@)], u, FALSE)
  <2>1. k.time_q # <<>> /\ k' = d
    BY <1>4 DEF WakeHead, HeadIsDue
  <2>2. SameScalars(k, d)
    BY <1>1, <2>1, WakeHeadKeeps DEF InUse
  <2> HIDE DEF d
  <2> QED BY <2>1, <2>2, SameCurrStays DEF SameScalars
<1>5. CASE ClockEnd
  <2> DEFINE d == [k EXCEPT !.left = [x \in Task |-> IF x \in ToSet(k.time_q) THEN @[x] - 1 ELSE @[x]]]
  <2>1. IntExit(frames, d) /\ (k.time_q # <<>> => k.left[Head(k.time_q)] # 0)
    BY <1>5 DEF ClockEnd, HeadIsDue
  <2>2. Sound(d) /\ SameScalars(k, d) /\ SameStatus(k, d)
    BY <1>1, <2>1, CountDownKeeps DEF InUse
  <2> HIDE DEF d
  <2>3. InUse(d) /\ d.curr = k.curr
    BY <1>1, <2>2 DEF InUse, SameScalars, SameStatus
  <2> QED BY <2>1, <2>3, IntExitStays
<1>6. CASE DeviceEoi
  BY <1>6, SameCurrStays DEF DeviceEoi
<1>7. CASE DeviceEnd
  BY <1>1, <1>7, IntExitStays DEF DeviceEnd
<1>8. CASE ClockInt
  <2>1. k' = [k EXCEPT !.run = IF @ > 0 THEN @ - 1 ELSE 0]
    BY <1>8 DEF ClockInt
  <2> QED BY <1>1, <2>1, SameCurrStays DEF Records
<1>9. ASSUME NEW q \in WaitQ, DeviceInt(q) PROVE StaysOrBlocks(t)
  <2> DEFINE u == PeekLast(k, q)
             ok == TRUE
             d == MakeReady(GetLast(k, q), u, ok)
  <2>1. (k.list[q] = <<>> /\ k' = k) \/ (k.list[q] # <<>> /\ k' = d)
    BY <1>9 DEF DeviceInt
  <2>2. q \in Task \cup WaitQ /\ ok \in BOOLEAN
    OBVIOUS
  <2> HIDE DEF ok
  <2>3. k.list[q] # <<>> => Prepared(k, d, {}, {u}, {})
    BY <1>1, <2>2, WakeLastPrepared
  <2> HIDE DEF d, u
  <2> QED BY <2>1, <2>3, SameCurrStays DEF Prepared
<1> QED BY <1>2, <1>3, <1>4, <1>5, <1>6, <1>7, <1>8, <1>9 DEF KernelStep, TimerInt

(***************************************************************************)
(* A task in cooperative mode loses the CPU only by a call of its own that *)
(* blocks it, ends it or yields: no wakeup, interrupt, time slice or       *)
(* change of priority takes it.                                            *)
(***************************************************************************)
THEOREM AtomicKeepsCPUHolds == Spec => AtomicKeepsCPU
<1>1. IInv /\ [Next]_vars => [k.atomic[k.curr] > 0 /\ k'.atomic[k.curr] > 0 => KeepsOrYields(k.curr)]_vars
  <2> SUFFICES ASSUME IInv, Next, k'.atomic[k.curr] > 0, k'.curr # k.curr, ~ Yields(k.curr)
               PROVE  k'.state[k.curr] # "Ready"
    BY DEF KeepsOrYields
  <2> DEFINE t == k.curr
  <2>1. t \in Task
    BY CurrentFree DEF IInv, DataSound
  <2>2. t = k.curr /\ k'.atomic[t] > 0 /\ k'.curr # t /\ ~ Yields(t)
    OBVIOUS
  <2> HIDE DEF t
  <2>3. ASSUME NEW c \in Task, TaskCall(c) PROVE StaysOrBlocks(t)
    BY <2>2, <2>3, OnlyCurrentCalls, TaskCallStays
  <2>4. ASSUME NEW c \in Task, GoesOn(c) PROVE StaysOrBlocks(t)
    <3>1. c = t
      BY <2>2, <2>4, OnlyCurrentCalls
    <3>2. Resume(t) \/ ReleaseFpu(t) \/ Terminate(t) \/ FreeQueue(t)
      BY <2>4, <3>1 DEF GoesOn
    <3> QED BY <2>1, <2>2, <3>2, QuietStays, TerminateStays, QueueMemoryStays
  <2>5. ASSUME NEW c \in Task, NEW q \in WaitQ, CreateQueue(c, q) PROVE StaysOrBlocks(t)
    BY <2>2, <2>5, OnlyCurrentCalls, QueueMemoryStays
  <2>6. ASSUME KernelStep \/ TimerInt PROVE StaysOrBlocks(t)
    BY <2>1, <2>2, <2>6, KernelStays
  <2>7. ASSUME NEW q \in WaitQ, DeviceInt(q) PROVE StaysOrBlocks(t)
    BY <2>1, <2>2, <2>7, KernelStays
  <2>8. StaysOrBlocks(t)
    BY <2>3, <2>4, <2>5, <2>6, <2>7 DEF Next
  <2> QED BY <2>2, <2>8 DEF StaysOrBlocks
<1> QED BY <1>1, IInvHolds, PTL DEF Spec, AtomicKeepsCPU
-----------------------------------------------------------------------------
(* First come, first served.  The tasks of M enter a queue on the way from *)
(* d to e, or get a priority: the others come from the same queue, in the  *)
(* order they had there, and in front of those of M of their priority.     *)
LinesUp(d, e, M) ==
  /\ \A x \in Task \ M : e.prio[x] = d.prio[x]
  /\ \A q \in Queue : \A x \in Task \ M : x \in ToSet(e.list[q]) =>
       /\ x \in ToSet(d.list[q])
       /\ \A y \in Task : y # x /\ y \in ToSet(e.list[q]) =>
            /\ y \notin M => (Precedes(d.list[q], y, x) => Precedes(e.list[q], y, x))
            /\ y \in M /\ e.prio[y] = e.prio[x] => Precedes(e.list[q], y, x)

(* So it is with some M that have come from another queue or from none,    *)
(* but for those of U.                                                     *)
InOrder(d, e, U) ==
  \E M \in SUBSET Task :
    /\ LinesUp(d, e, M)
    /\ \A x \in M \ U : e.queue[x] \in Queue => e.queue[x] # d.queue[x]

(***************************************************************************)
(* One operation after another.                                            *)
(***************************************************************************)
LEMMA LinesUpBoth ==
  ASSUME NEW d, NEW e, NEW f, NEW M, NEW N, LinesUp(d, e, M), LinesUp(e, f, N)
  PROVE  LinesUp(d, f, M \cup N)
<1>1. \A x \in Task \ (M \cup N) : f.prio[x] = d.prio[x]
  BY DEF LinesUp
<1>2. ASSUME NEW q \in Queue, NEW x \in Task \ (M \cup N), x \in ToSet(f.list[q])
      PROVE  /\ x \in ToSet(d.list[q])
             /\ \A y \in Task : y # x /\ y \in ToSet(f.list[q]) =>
                  /\ y \notin M \cup N => (Precedes(d.list[q], y, x) => Precedes(f.list[q], y, x))
                  /\ y \in M \cup N /\ f.prio[y] = f.prio[x] => Precedes(f.list[q], y, x)
  <2>1. x \in ToSet(e.list[q]) /\ x \in ToSet(d.list[q]) /\ f.prio[x] = e.prio[x]
    BY <1>2 DEF LinesUp
  <2>2. ASSUME NEW y \in Task, y # x, y \in ToSet(f.list[q])
        PROVE  /\ y \notin M \cup N => (Precedes(d.list[q], y, x) => Precedes(f.list[q], y, x))
               /\ y \in M \cup N /\ f.prio[y] = f.prio[x] => Precedes(f.list[q], y, x)
    <3>1. CASE y \in N
      BY <1>2, <2>2, <3>1 DEF LinesUp
    <3>2. CASE y \notin N
      <4>1. /\ y \in ToSet(e.list[q]) /\ f.prio[y] = e.prio[y]
            /\ Precedes(e.list[q], y, x) => Precedes(f.list[q], y, x)
        BY <1>2, <2>2, <3>2 DEF LinesUp
      <4>2. /\ y \notin M => (Precedes(d.list[q], y, x) => Precedes(e.list[q], y, x))
            /\ y \in M /\ e.prio[y] = e.prio[x] => Precedes(e.list[q], y, x)
        BY <2>1, <2>2, <4>1 DEF LinesUp
      <4> QED BY <2>1, <3>2, <4>1, <4>2
    <3> QED BY <3>1, <3>2
  <2> QED BY <2>1, <2>2
<1> QED BY <1>1, <1>2 DEF LinesUp

(* Operations that touch no list and no priority.                          *)
LEMMA LinesUpSame ==
  ASSUME NEW d, NEW e, e.list = d.list, e.prio = d.prio
  PROVE  LinesUp(d, e, {})
BY DEF LinesUp

(* The same at either end of others.                                       *)
LEMMA LinesUpByFields ==
  ASSUME NEW d, NEW e, NEW M, LinesUp(d, e, M), NEW f, f.list = e.list, f.prio = e.prio
  PROVE  LinesUp(d, f, M)
BY DEF LinesUp

(***************************************************************************)
(* A task that enters a queue goes behind those of its priority.           *)
(***************************************************************************)
LEMMA EnqueueLinesUp ==
  ASSUME NEW d, Linked(d), NEW t \in Task, NEW q \in Queue, d.queue[t] = NoQueue
  PROVE  LinesUp(d, Enqueue(d, t, q), {t})
<1> DEFINE e == Enqueue(d, t, q)
           a == d.list[q]
           p == d.prio
           l == OrderedInsert(a, p, t, p[t])
<1>1. /\ d \in Records /\ a \in Seq(Task) /\ p \in [Task -> Nat] /\ p[t] \in Nat
      /\ d.list \in [Queue -> Seq(Task)]
  BY RecordsFields DEF Linked
<1>2. e = [d EXCEPT !.list[q] = l, !.queue[t] = q]
  BY DEF Enqueue
<1>3. t \notin ToSet(a)
  BY OffAllLists
<1>4. p = d.prio /\ a = d.list[q]
  OBVIOUS
<1>5. ToSet(l) = ToSet(a) \cup {t}
  <2> DEFINE v == p[t]
  <2> HIDE DEF a, p, v
  <2>2. /\ a \in Seq(Task) /\ v \in Nat /\ p \in [Task -> Nat]
        /\ p[t] = v /\ t \notin ToSet(a) /\ NoRepetition(a) /\ IsOrdered(a, p)
    BY <1>1, <1>3 DEF Linked, ListsAgree, a, p, v
  <2>1. /\ OrderedInsert(a, p, t, v) \in Seq(Task)
        /\ ToSet(OrderedInsert(a, p, t, v)) = ToSet(a) \cup {t}
        /\ NoRepetition(OrderedInsert(a, p, t, v))
        /\ IsOrdered(OrderedInsert(a, p, t, v), p)
    BY <2>2, OrderedInsertProperties
  <2> QED BY <2>1 DEF v
<1>6. ASSUME NEW x, NEW y, Precedes(a, x, y) PROVE Precedes(l, x, y)
  <2> DEFINE v == p[t]
  <2>1. v \in Nat
    BY <1>1
  <2> HIDE DEF a, p, v
  <2>2. Precedes(OrderedInsert(a, p, t, v), x, y)
    BY <1>1, <1>6, <2>1, InsertKeepsOrder
  <2> QED BY <2>2 DEF v
<1>7. ASSUME NEW y \in ToSet(a), p[t] <= p[y] PROVE Precedes(l, t, y)
  <2> DEFINE v == p[t]
  <2>1. v \in Nat /\ v <= p[y]
    BY <1>1, <1>7
  <2> HIDE DEF a, p, v
  <2>2. Precedes(OrderedInsert(a, p, t, v), t, y)
    BY <1>1, <1>7, <2>1, InsertedBefore
  <2> QED BY <2>2 DEF v
<1> HIDE DEF l, e
<1>8. e.list = [d.list EXCEPT ![q] = l] /\ e.prio = p
  BY <1>1, <1>2 DEF Records
<1> HIDE DEF a, p
<1>9. ASSUME NEW r \in Queue, NEW x \in Task \ {t}, x \in ToSet(e.list[r])
      PROVE  /\ x \in ToSet(d.list[r])
             /\ \A y \in Task : y # x /\ y \in ToSet(e.list[r]) =>
                  /\ y \notin {t} => (Precedes(d.list[r], y, x) => Precedes(e.list[r], y, x))
                  /\ y \in {t} /\ e.prio[y] = e.prio[x] => Precedes(e.list[r], y, x)
  <2>1. CASE r = q
    <3>1. e.list[r] = l /\ d.list[r] = a
      BY <1>1, <1>4, <1>8, <2>1
    <3>2. x \in ToSet(a)
      BY <1>5, <1>9, <3>1
    <3>3. p[x] = p[t] => Precedes(l, t, x)
      BY <1>1, <1>7, <3>2
    <3> QED BY <1>6, <1>8, <3>1, <3>2, <3>3
  <2>2. CASE r # q
    <3>1. e.list[r] = d.list[r]
      BY <1>1, <1>8, <2>2
    <3>2. t \notin ToSet(d.list[r])
      BY OffAllLists
    <3> QED BY <1>9, <3>1, <3>2
  <2> QED BY <2>1, <2>2
<1> QED BY <1>4, <1>8, <1>9 DEF LinesUp, e

(***************************************************************************)
(* A task that leaves a queue.                                             *)
(***************************************************************************)
LEMMA UnlinkedLinesUp ==
  ASSUME NEW d, NEW e, NEW q \in Queue, NEW t, NEW l, d.list \in [Queue -> Seq(Task)],
         e.list = [d.list EXCEPT ![q] = l], e.prio = d.prio, ToSet(l) = ToSet(d.list[q]) \ {t},
         \A x, y : x # t /\ y # t /\ Precedes(d.list[q], x, y) => Precedes(l, x, y)
  PROVE  LinesUp(d, e, {})
<1>1. \A r \in Queue : e.list[r] = IF r = q THEN l ELSE d.list[r]
  OBVIOUS
<1> QED BY <1>1 DEF LinesUp

(* mt_dequeue.                                                             *)
LEMMA DequeueLinesUp ==
  ASSUME NEW d, Linked(d), NEW t \in Task
  PROVE  LinesUp(d, Dequeue(d, t), {})
<1>1. /\ d \in Records /\ d.list \in [Queue -> Seq(Task)] /\ d.queue \in [Task -> Queue \cup {NoQueue}]
  BY RecordsFields DEF Linked
<1>2. CASE d.queue[t] = NoQueue
  BY <1>2, LinesUpSame DEF Dequeue
<1>3. CASE d.queue[t] # NoQueue
  <2> DEFINE q == d.queue[t]
             a == d.list[q]
             l == Unlink(a, t)
             e == Dequeue(d, t)
  <2>1. q \in Queue /\ a \in Seq(Task) /\ t \in ToSet(a) /\ NoRepetition(a)
    BY <1>1, <1>3 DEF Linked, ListsAgree
  <2>2. e = [d EXCEPT !.list[q] = l, !.queue[t] = NoQueue] /\ a = d.list[q]
    BY <1>3 DEF Dequeue
  <2> HIDE DEF a, e
  <2>3. ToSet(l) = ToSet(a) \ {t}
    BY <2>1, UnlinkProperties
  <2>4. \A x, y : x # t /\ y # t /\ Precedes(a, x, y) => Precedes(l, x, y)
    BY <2>1, UnlinkKeepsOrder
  <2> HIDE DEF l, q
  <2>5. e.list = [d.list EXCEPT ![q] = l] /\ e.prio = d.prio
    BY <1>1, <2>2 DEF Records
  <2> QED BY <1>1, <2>1, <2>2, <2>3, <2>4, <2>5, UnlinkedLinesUp DEF e
<1> QED BY <1>2, <1>3

(* mt_getlast.                                                             *)
LEMMA GetLastLinesUp ==
  ASSUME NEW d, Linked(d), NEW q \in Queue, d.list[q] # <<>>
  PROVE  LinesUp(d, GetLast(d, q), {})
<1> DEFINE a == d.list[q]
           t == PeekLast(d, q)
           l == Front(a)
           e == GetLast(d, q)
<1>1. /\ d \in Records /\ d.list \in [Queue -> Seq(Task)] /\ d.queue \in [Task -> Queue \cup {NoQueue}]
      /\ a \in Seq(Task) /\ a # <<>> /\ NoRepetition(a) /\ a = d.list[q]
  BY RecordsFields DEF Linked, ListsAgree
<1>2. e = [d EXCEPT !.list[q] = l, !.queue[t] = NoQueue] /\ t = Last(a)
  BY DEF GetLast, PeekLast
<1> HIDE DEF a, e, t
<1>3. ToSet(l) = ToSet(a) \ {t}
  BY <1>1, <1>2, FrontProperties
<1>4. \A x, y : x # t /\ y # t /\ Precedes(a, x, y) => Precedes(l, x, y)
  BY <1>1, <1>2, FrontKeepsOrder
<1> HIDE DEF l
<1>5. e.list = [d.list EXCEPT ![q] = l] /\ e.prio = d.prio
  BY <1>1, <1>2 DEF Records
<1> QED BY <1>1, <1>3, <1>4, <1>5, UnlinkedLinesUp DEF e

(* free_terminated.                                                        *)
LEMMA FreeTerminatedLinesUp ==
  ASSUME NEW d \in Records
  PROVE  LinesUp(d, FreeTerminated(d), {})
<1> DEFINE e == FreeTerminated(d)
<1>1. d.list \in [Queue -> Seq(Task)] /\ TerminatedQ \in Queue
  BY RecordsFields, QueueKinds
<1>2. e.list = [d.list EXCEPT ![TerminatedQ] = <<>>] /\ e.prio = d.prio
  BY DEF FreeTerminated, Records
<1>3. ToSet(<<>>) = {}
  BY DEF ToSet
<1> HIDE DEF e
<1>4. \A q \in Queue : e.list[q] = IF q = TerminatedQ THEN <<>> ELSE d.list[q]
  BY <1>1, <1>2
<1>5. LinesUp(d, e, {})
  BY <1>2, <1>3, <1>4 DEF LinesUp
<1> QED BY <1>5 DEF e

(* block().                                                                *)
LEMMA BlockLinesUp ==
  ASSUME NEW d, Linked(d), NEW t \in Task, NEW s \in TaskState
  PROVE  LinesUp(d, Block(d, t, s), {})
<1> DEFINE a == Dequeue(d, t)
           b == DequeueTime(a, t)
           e == [b EXCEPT !.state[t] = s]
<1>1. LinesUp(d, a, {}) /\ Linked(a)
  BY DequeueLinesUp, DequeueEffect
<1> HIDE DEF a
<1>2. SameLists(a, b) /\ b \in Records
  BY <1>1, DequeueTimeEffect DEF Linked
<1> HIDE DEF b
<1>3. e.list = a.list /\ e.prio = a.prio
  BY <1>2 DEF Records, SameLists
<1> HIDE DEF e
<1>4. LinesUp(d, e, {})
  BY <1>1, <1>3, LinesUpByFields
<1> QED BY <1>4 DEF Block, e, b, a

(* ready(), on a task that is not ready.                                   *)
LEMMA MakeReadyLinesUp ==
  ASSUME NEW d, Linked(d), NEW t \in Task, NEW ok \in BOOLEAN, d.state[t] # "Ready"
  PROVE  LinesUp(d, MakeReady(d, t, ok), {t})
<1> DEFINE a == Dequeue(d, t)
           b == DequeueTime(a, t)
           c == Enqueue(b, t, ReadyQ)
           e == [c EXCEPT !.success[t] = ok, !.state[t] = "Ready"]
<1>1. LinesUp(d, a, {}) /\ Linked(a) /\ a.queue = [d.queue EXCEPT ![t] = NoQueue]
  BY DequeueLinesUp, DequeueEffect
<1> HIDE DEF a
<1>2. SameLists(a, b) /\ Linked(b)
  BY <1>1, DequeueTimeEffect
<1> HIDE DEF b
<1>3. b.queue[t] = NoQueue
  BY <1>1, <1>2, RecordsFields DEF SameLists, Linked
<1>4. LinesUp(b, c, {t}) /\ c \in Records
  BY <1>2, <1>3, QueueKinds, EnqueueLinesUp, EnqueueEffect DEF Linked
<1> HIDE DEF c
<1>5. e.list = c.list /\ e.prio = c.prio
  BY <1>4 DEF Records
<1>6. MakeReady(d, t, ok) = e
  BY DEF MakeReady, a, b, c
<1> HIDE DEF e
<1>7. LinesUp(d, b, {})
  BY <1>1, <1>2, LinesUpByFields DEF SameLists
<1>8. LinesUp(b, e, {t})
  BY <1>4, <1>5, LinesUpByFields
<1>9. LinesUp(d, e, {} \cup {t}) /\ {} \cup {t} = {t}
  BY <1>7, <1>8, LinesUpBoth
<1> QED BY <1>6, <1>9

(***************************************************************************)
(* The scheduler takes the last ready task, and may put the current one    *)
(* back before it does.                                                    *)
(***************************************************************************)
LEMMA TakeNextLinesUp ==
  ASSUME NEW d, Sound(d), d.state[d.curr] # "Current"
  PROVE  LET s == TakeNext(d)
         IN  /\ LinesUp(d, s, {})
             /\ \A x \in Task : s.queue[x] \in {d.queue[x], NoQueue}
<1> DEFINE n == PeekLast(d, ReadyQ)
           g == GetLast(d, ReadyQ)
           s == TakeNext(d)
<1>1. Linked(d) /\ d \in Records /\ d.queue \in [Task -> Queue \cup {NoQueue}] /\ d.curr \in Task
  BY RecordsFields DEF Sound, Linked
<1>2. d.state[Null] = "Ready"
  BY <1>1, QueueKinds DEF Sound, Placed
<1>3. d.list[ReadyQ] # <<>>
  BY <1>1, <1>2, QueueKinds, LastOfList DEF Sound, Placed, Fits
<1>4. LinesUp(d, g, {}) /\ g \in Records /\ g.queue = [d.queue EXCEPT ![n] = NoQueue]
  BY <1>1, <1>3, QueueKinds, GetLastLinesUp, GetLastEffect DEF Linked
<1>5. s = [g EXCEPT !.curr = n, !.state[n] = "Current",
                    !.ts = IF n = d.curr THEN @ ELSE n # d.fpu,
                    !.run = IF n = d.curr THEN @ ELSE QUANTUM]
  BY DEF TakeNext
<1> HIDE DEF g, s
<1>6. s.list = g.list /\ s.prio = g.prio /\ s.queue = g.queue
  BY <1>4, <1>5 DEF Records
<1>7. LinesUp(d, s, {})
  BY <1>4, <1>6, LinesUpByFields
<1>8. \A x \in Task : s.queue[x] \in {d.queue[x], NoQueue}
  BY <1>1, <1>4, <1>6
<1> QED BY <1>7, <1>8 DEF s

(* mt_select_task.                                                         *)
LEMMA SelectLinesUp ==
  ASSUME NEW d, Sound(d)
  PROVE  LET s == Select(d)
         IN  \E N \in SUBSET {d.curr} :
               /\ LinesUp(d, s, N)
               /\ \A x \in Task \ {d.curr} : s.queue[x] \in {d.queue[x], NoQueue}
<1> DEFINE s == Select(d)
<1>1. Linked(d) /\ d \in Records /\ d.queue \in [Task -> Queue \cup {NoQueue}] /\ d.curr \in Task
  BY RecordsFields DEF Sound, Linked
<1>2. CASE KeepsCPU(d)
  <2>1. s = d
    BY <1>2 DEF Select
  <2> HIDE DEF s
  <2>2. LinesUp(d, s, {})
    BY <2>1, LinesUpSame
  <2> QED BY <2>1, <2>2 DEF s
<1>3. CASE ~ KeepsCPU(d) /\ d.state[d.curr] = "Current"
  <2> DEFINE t == d.curr
             ok == FALSE
             e == MakeReady(d, t, ok)
  <2>1. /\ Sound(e) /\ SameScalars(d, e)
        /\ e.queue = [d.queue EXCEPT ![t] = ReadyQ]
        /\ e.state = [d.state EXCEPT ![t] = "Ready"]
    BY <1>1, MakeReadyKeeps
  <2>2. LinesUp(d, e, {t})
    BY <1>1, <1>3, MakeReadyLinesUp
  <2>3. s = TakeNext(e)
    BY <1>3 DEF Select
  <2>4. t = d.curr
    OBVIOUS
  <2> HIDE DEF e, s, ok, t
  <2>5. e.curr = t /\ e.state[e.curr] # "Current"
    BY <1>1, <2>1, <2>4, RecordsFields DEF SameScalars
  <2>6. LinesUp(e, s, {}) /\ \A x \in Task : s.queue[x] \in {e.queue[x], NoQueue}
    BY <2>1, <2>3, <2>5, TakeNextLinesUp
  <2>7. LinesUp(d, s, {t} \cup {}) /\ {t} \cup {} = {t}
    BY <2>2, <2>6, LinesUpBoth
  <2>8. \A x \in Task \ {t} : s.queue[x] \in {d.queue[x], NoQueue}
    BY <1>1, <2>1, <2>6
  <2> QED BY <2>4, <2>7, <2>8 DEF s
<1>4. CASE d.state[d.curr] # "Current"
  <2>1. s = TakeNext(d)
    BY <1>4 DEF Select, KeepsCPU
  <2> HIDE DEF s
  <2>2. LinesUp(d, s, {}) /\ \A x \in Task : s.queue[x] \in {d.queue[x], NoQueue}
    BY <1>4, <2>1, TakeNextLinesUp
  <2> QED BY <2>2 DEF s
<1> QED BY <1>2, <1>3, <1>4

-----------------------------------------------------------------------------
(***************************************************************************)
(* The order after a call, which has made d of the data, depends on that   *)
(* of d and is not disturbed by what the scheduler does.                   *)
(***************************************************************************)
LEMMA InOrderByFields ==
  ASSUME NEW d, NEW e, NEW U, InOrder(d, e, U), NEW f, SameLists(e, f)
  PROVE  InOrder(d, f, U)
BY LinesUpByFields DEF InOrder, SameLists

(* Nothing has entered any queue.                                          *)
LEMMA NobodyEnters ==
  ASSUME NEW d, NEW e, LinesUp(d, e, {}), NEW U
  PROVE  InOrder(d, e, U)
<1>1. {} \in SUBSET Task
  OBVIOUS
<1> QED BY <1>1 DEF InOrder

(* One task has, from elsewhere or with a new priority.                    *)
LEMMA OneEnters ==
  ASSUME NEW d, NEW e, NEW t \in Task, LinesUp(d, e, {t}), NEW U,
         t \in U \/ e.queue[t] \notin Queue \/ e.queue[t] # d.queue[t]
  PROVE  InOrder(d, e, U)
<1>1. {t} \in SUBSET Task
  OBVIOUS
<1>2. \A x \in {t} \ U : e.queue[x] \in Queue => e.queue[x] # d.queue[x]
  OBVIOUS
<1> QED BY <1>1, <1>2 DEF InOrder

(* The scheduler.                                                          *)
LEMMA SelectInOrder ==
  ASSUME NEW c, InUse(c), NEW d, Sound(d), d.curr = c.curr, NEW U, InOrder(c, d, U)
  PROVE  InOrder(c, Select(d), U)
<1> DEFINE s == Select(d)
           t == d.curr
<1>1. PICK M \in SUBSET Task :
        /\ LinesUp(c, d, M)
        /\ \A x \in M \ U : d.queue[x] \in Queue => d.queue[x] # c.queue[x]
  BY DEF InOrder
<1>2. PICK N \in SUBSET {t} :
        /\ LinesUp(d, s, N)
        /\ \A x \in Task \ {t} : s.queue[x] \in {d.queue[x], NoQueue}
  BY SelectLinesUp
<1>3. t \in Task /\ c.queue[t] = NoQueue /\ NoQueue \notin Queue
  BY CurrentFree, KernelStateAssumption
<1> HIDE DEF s, t
<1>4. LinesUp(c, s, M \cup N) /\ M \cup N \in SUBSET Task
  BY <1>1, <1>2, <1>3, LinesUpBoth
<1>5. ASSUME NEW x \in (M \cup N) \ U, s.queue[x] \in Queue PROVE s.queue[x] # c.queue[x]
  <2>1. CASE x = t
    BY <1>3, <1>5, <2>1
  <2>2. CASE x # t
    BY <1>1, <1>2, <1>3, <1>5, <2>2
  <2> QED BY <2>1, <2>2
<1>6. InOrder(c, s, U)
  BY <1>4, <1>5 DEF InOrder
<1> QED BY <1>6 DEF s

(***************************************************************************)
(* The ends of a call.                                                     *)
(***************************************************************************)
LEMMA EndInOrder ==
  ASSUME InUse(k), NEW t \in Task, t = k.curr, NEW d, Sound(d), GaveWay(d), d.curr = k.curr,
         NEW U, InOrder(k, d, U), Reschedule(t, d) \/ Return(t, d) \/ AfterAtomic(t, d)
  PROVE  InOrder(k, k', U)
<1> DEFINE s == Select(d)
           m == s.disint[t] + 1
           e == [s EXCEPT !.disint[t] = m]
<1>1. InOrder(k, s, U)
  BY SelectInOrder
<1>2. s \in Records
  BY SelectEffect DEF Sound, Linked
<1>3. k' = d \/ k' = s \/ k' = e
  BY DEF AfterAtomic, Reschedule, Return
<1> HIDE DEF s, m
<1>4. SameLists(s, e)
  BY <1>2 DEF Records, SameLists
<1> HIDE DEF e
<1>5. InOrder(k, e, U)
  BY <1>1, <1>4, InOrderByFields
<1> QED BY <1>1, <1>3, <1>5

(* What a call prepares.                                                   *)
LEMMA PreparedInOrder ==
  ASSUME InUse(k), NEW t \in Task, t = k.curr, NEW d, NEW W, NEW G, NEW X, Prepared(k, d, W, G, X),
         NEW U, InOrder(k, d, U), Reschedule(t, d) \/ Return(t, d) \/ AfterAtomic(t, d)
  PROVE  InOrder(k, k', U)
BY EndInOrder DEF Prepared

(* A task that is made ready, or blocked.                                  *)
LEMMA ReadyInOrder ==
  ASSUME NEW d, Sound(d), NEW t \in Task, NEW ok \in BOOLEAN
  PROVE  InOrder(d, MakeReady(d, t, ok), {})
<1> DEFINE e == MakeReady(d, t, ok)
<1>1. /\ Sound(e) /\ e.prio = d.prio /\ SameScalars(d, e)
      /\ e.queue = [d.queue EXCEPT ![t] = ReadyQ]
      /\ e.state = [d.state EXCEPT ![t] = "Ready"]
      /\ \A x \in Task \ {t} : e.success[x] = d.success[x]
      /\ d.state[t] # "Ready" => e.success[t] = ok
      /\ d.state[t] = "Ready" => e = d
      /\ d.state[d.curr] = "Current" => GaveWay(e)
  BY MakeReadyKeeps
<1>2. d.state[t] # "Ready" => LinesUp(d, e, {t})
  BY MakeReadyLinesUp DEF Sound
<1>3. d.state[t] = "Ready" <=> d.queue[t] = ReadyQ
  BY DEF Sound, Placed, Fits
<1>4. d.queue \in [Task -> Queue \cup {NoQueue}]
  BY RecordsFields DEF Sound, Linked
<1> HIDE DEF e
<1>5. CASE d.state[t] = "Ready"
  BY <1>1, <1>5, LinesUpSame, NobodyEnters DEF e
<1>6. CASE d.state[t] # "Ready"
  BY <1>1, <1>2, <1>3, <1>4, <1>6, OneEnters DEF e
<1> QED BY <1>5, <1>6

(* block().                                                                *)
LEMMA BlockInOrder ==
  ASSUME NEW d, Sound(d), NEW t \in Task, NEW s \in TaskState
  PROVE  InOrder(d, Block(d, t, s), {})
BY BlockLinesUp, NobodyEnters DEF Sound

(* The last task of a queue is made ready.                                 *)
LEMMA WakeLastInOrder ==
  ASSUME NEW d, Sound(d), NEW q \in Task \cup WaitQ, d.list[q] # <<>>, NEW ok \in BOOLEAN
  PROVE  InOrder(d, MakeReady(GetLast(d, q), PeekLast(d, q), ok), {})
<1> DEFINE u == PeekLast(d, q)
           g == GetLast(d, q)
           e == MakeReady(g, u, ok)
<1>1. q \in Queue /\ Linked(d) /\ q # ReadyQ
  BY QueueKinds DEF Sound
<1>2. /\ u \in Task /\ d.queue[u] = q /\ d.state[u] \in {"Waiting", "Sending"}
      /\ Sound(e) /\ e.prio = d.prio /\ SameScalars(d, e)
      /\ e.queue = [d.queue EXCEPT ![u] = ReadyQ]
      /\ e.state = [d.state EXCEPT ![u] = "Ready"]
      /\ e.success = [d.success EXCEPT ![u] = ok]
      /\ d.state[d.curr] = "Current" => GaveWay(e)
  BY WakeLastKeeps
<1>3. LinesUp(d, g, {}) /\ Linked(g) /\ SameStatus(d, g)
  BY <1>1, GetLastLinesUp, GetLastEffect
<1>4. d.queue \in [Task -> Queue \cup {NoQueue}]
  BY <1>1, RecordsFields DEF Linked
<1> HIDE DEF g, u
<1>5. LinesUp(g, e, {u})
  BY <1>2, <1>3, MakeReadyLinesUp DEF SameStatus
<1> HIDE DEF e
<1>6. LinesUp(d, e, {} \cup {u}) /\ {} \cup {u} = {u}
  BY <1>3, <1>5, LinesUpBoth
<1>7. InOrder(d, e, {})
  BY <1>1, <1>2, <1>4, <1>6, OneEnters
<1> QED BY <1>7 DEF e, g, u

(* The current task enters a queue, which it does from none.               *)
LEMMA EnterInOrder ==
  ASSUME NEW c, InUse(c), NEW t, t = c.curr, NEW b, Linked(b), b.queue[t] = NoQueue,
         LinesUp(c, b, {}), NEW q \in Queue
  PROVE  InOrder(c, Enqueue(b, t, q), {})
<1> DEFINE e == Enqueue(b, t, q)
<1>1. t \in Task /\ c.queue[t] = NoQueue /\ NoQueue \notin Queue
  BY CurrentFree, KernelStateAssumption
<1>2. LinesUp(b, e, {t}) /\ e.queue = [b.queue EXCEPT ![t] = q]
  BY <1>1, EnqueueLinesUp, EnqueueEffect
<1> HIDE DEF e
<1>3. e.queue[t] = q
  BY <1>1, <1>2, RecordsFields DEF Linked
<1>4. LinesUp(c, e, {} \cup {t}) /\ {} \cup {t} = {t}
  BY <1>2, LinesUpBoth
<1>5. InOrder(c, e, {})
  BY <1>1, <1>3, <1>4, OneEnters
<1> QED BY <1>5 DEF e

(* It may be put in the time queue then.                                   *)
LEMMA TimedInOrder ==
  ASSUME NEW c, NEW d, Linked(d), NEW t \in Task, t \notin Timing(d), NEW n \in Waits,
         NEW U, InOrder(c, d, U)
  PROVE  InOrder(c, Timed(d, t, n), U)
BY TimedEffect, InOrderByFields

-----------------------------------------------------------------------------
(* Every step keeps the order.                                             *)

(***************************************************************************)
(* CreateTask.                                                             *)
(***************************************************************************)
LEMMA CreateTaskInOrder ==
  ASSUME IInv, NEW t \in Task, NEW u \in Task, NEW p \in Priority, CreateTask(t, u, p)
  PROVE  InOrder(k, k', {})
<1> DEFINE a == FreeTerminated(k)
           d == [a EXCEPT !.state[u] = "Suspended", !.prio[u] = p]
<1>1. Running(t) /\ k.state[u] = "Unborn" /\ AfterAtomic(t, d)
  BY DEF CreateTask, Client
<1>2. InUse(k) /\ t = k.curr
  BY <1>1, Caller
<1>3. Prepared(k, d, {}, {}, {}) /\ d.state[t] = "Current"
  BY <1>1, <1>2, CreatePrepared
<1>4. /\ InUse(a) /\ a.state[u] = "Unborn" /\ LinesUp(k, a, {})
  BY <1>1, <1>2, CurrentFree, FreeTerminatedPrepared, FreeTerminatedLinesUp
<1> HIDE DEF a
<1>5. a \in Records /\ a.queue[u] = NoQueue /\ Linked(a)
  BY <1>4, CurrentFree DEF InUse, Sound, Placed, Fits, Queue
<1>6. d.list = a.list /\ d.queue = a.queue /\ \A x \in Task \ {u} : d.prio[x] = a.prio[x]
  BY <1>5 DEF Records
<1> HIDE DEF d
<1>7. LinesUp(a, d, {u})
  BY <1>5, <1>6, OffAllLists DEF LinesUp
<1>8. LinesUp(k, d, {} \cup {u}) /\ {} \cup {u} = {u}
  BY <1>4, <1>7, LinesUpBoth
<1>9. d.queue[u] \notin Queue
  BY <1>5, <1>6, KernelStateAssumption
<1>10. InOrder(k, d, {})
  BY <1>8, <1>9, OneEnters
<1> QED BY <1>1, <1>2, <1>3, <1>10, PreparedInOrder

(***************************************************************************)
(* Suspend.                                                                *)
(***************************************************************************)
LEMMA SuspendInOrder ==
  ASSUME IInv, NEW t \in Task, NEW u \in Task, Suspend(t, u)
  PROVE  InOrder(k, k', {})
<1> DEFINE s == "Suspended"
           d == Block(k, u, s)
<1>1. /\ Running(t) /\ u # Null /\ k.state[u] \notin Dead /\ (Reschedule(t, d) \/ Return(t, d))
      /\ s \in TaskState /\ s \in {"Suspended", "Delaying"}
  BY DEF Suspend, Client, Handle, Dead, TaskState
<1>2. InUse(k) /\ t = k.curr
  BY <1>1, Caller
<1> HIDE DEF s
<1>3. Prepared(k, d, {}, {}, {})
  BY <1>1, <1>2, BlockPrepared
<1>4. InOrder(k, d, {})
  BY <1>1, <1>2, BlockInOrder DEF InUse
<1> HIDE DEF d
<1> QED BY <1>1, <1>2, <1>3, <1>4, PreparedInOrder

(***************************************************************************)
(* Ready and Yield.                                                        *)
(***************************************************************************)
LEMMA ReadyCallInOrder ==
  ASSUME IInv, NEW t \in Task, NEW u \in Task, Ready(t, u)
  PROVE  InOrder(k, k', {})
<1> DEFINE ok == FALSE
           d == MakeReady(k, u, ok)
<1>1. Running(t) /\ k.state[u] \notin Dead /\ Reschedule(t, d) /\ ok \in BOOLEAN
  BY DEF Ready, Client, Handle, Dead
<1>2. InUse(k) /\ t = k.curr
  BY <1>1, Caller
<1> HIDE DEF ok
<1>3. Prepared(k, d, {}, {u}, {})
  BY <1>1, <1>2, ReadyPrepared
<1>4. InOrder(k, d, {})
  BY <1>1, <1>2, ReadyInOrder DEF InUse
<1> HIDE DEF d
<1> QED BY <1>1, <1>2, <1>3, <1>4, PreparedInOrder

(***************************************************************************)
(* SetPriority: the task whose priority it sets goes to another place of   *)
(* its queue.                                                              *)
(***************************************************************************)
LEMMA SetPrioLinesUp ==
  ASSUME NEW d, Sound(d), NEW t \in Task, NEW p \in Priority
  PROVE  LinesUp(d, SetPrio(d, t, p), {t})
<1> DEFINE q == d.queue[t]
           b == Dequeue(d, t)
           a == [b EXCEPT !.prio[t] = p]
           e == SetPrio(d, t, p)
<1>1. Linked(d) /\ d \in Records /\ d.queue \in [Task -> Queue \cup {NoQueue}]
  BY RecordsFields DEF Sound, Linked
<1>2. /\ Linked(b)
      /\ b.queue = [d.queue EXCEPT ![t] = NoQueue] /\ b.prio = d.prio
      /\ SameScalars(d, b) /\ SameTimes(d, b) /\ SameStatus(d, b)
  BY <1>1, DequeueEffect
<1>3. LinesUp(d, b, {})
  BY <1>1, DequeueLinesUp
<1>4. e = IF q = NoQueue THEN a ELSE Enqueue(a, t, q)
  BY DEF SetPrio
<1> HIDE DEF b, e
<1>5. b \in Records /\ b.queue[t] = NoQueue
  BY <1>1, <1>2 DEF Linked
<1>6. /\ a \in Records /\ a.prio = [b.prio EXCEPT ![t] = p] /\ a.list = b.list /\ a.queue = b.queue
      /\ SameTimes(b, a) /\ \A x \in Task \ {t} : a.prio[x] = b.prio[x]
  BY <1>5 DEF Records, SameTimes
<1> HIDE DEF a
<1>7. Linked(a)
  BY <1>2, <1>5, <1>6, SetPrioEffect
<1>8. LinesUp(b, a, {t})
  BY <1>2, <1>5, <1>6, OffAllLists DEF LinesUp
<1>9. LinesUp(d, a, {} \cup {t}) /\ {} \cup {t} = {t} /\ {t} \cup {t} = {t}
  BY <1>3, <1>8, LinesUpBoth
<1>10. CASE q = NoQueue
  BY <1>4, <1>9, <1>10 DEF e
<1>11. CASE q # NoQueue
  <2>1. q \in Queue /\ a.queue[t] = NoQueue /\ e = Enqueue(a, t, q)
    BY <1>1, <1>4, <1>5, <1>6, <1>11
  <2> HIDE DEF q
  <2>2. LinesUp(a, e, {t})
    BY <1>7, <2>1, EnqueueLinesUp
  <2>3. LinesUp(d, e, {t} \cup {t})
    BY <1>9, <2>2, LinesUpBoth
  <2> QED BY <1>9, <2>3 DEF e
<1> QED BY <1>10, <1>11

(* The call.                                                               *)
LEMMA SetPriorityInOrder ==
  ASSUME IInv, NEW t \in Task, NEW u \in Task, NEW p \in Priority, SetPriority(t, u, p)
  PROVE  InOrder(k, k', {u})
<1> DEFINE d == SetPrio(k, u, p)
<1>1. Running(t) /\ (Reschedule(t, d) \/ Return(t, d))
  BY DEF SetPriority, SetPrio, Client
<1>2. InUse(k) /\ t = k.curr
  BY <1>1, Caller
<1>3. Prepared(k, d, {}, {}, {})
  BY <1>2, SetPrioPrepared
<1>4. LinesUp(k, d, {u})
  BY <1>2, SetPrioLinesUp DEF InUse
<1> HIDE DEF d
<1>5. InOrder(k, d, {u})
  BY <1>4, OneEnters
<1> QED BY <1>1, <1>2, <1>3, <1>5, PreparedInOrder

(***************************************************************************)
(* Delay.                                                                  *)
(***************************************************************************)
LEMMA DelayInOrder ==
  ASSUME IInv, NEW t \in Task, NEW n \in Waits \cup {0}, Delay(t, n)
  PROVE  InOrder(k, k', {})
<1> DEFINE s == "Delaying"
           ok == FALSE
           b == Block(k, t, s)
           d == Timed(b, t, n)
           r == MakeReady(k, t, ok)
<1>1. /\ Running(t) /\ (n = 0 => Reschedule(t, r)) /\ (n # 0 => Reschedule(t, d))
      /\ s \in TaskState /\ ok \in BOOLEAN /\ s = "Delaying"
  BY DEF Delay, Client, TaskState
<1>2. InUse(k) /\ Sound(k) /\ t = k.curr /\ t # Null /\ k.state[t] = "Current"
  BY <1>1, Caller DEF InUse
<1> HIDE DEF ok
<1>3. CASE n = 0
  <2>1. Prepared(k, r, {}, {t}, {})
    BY <1>1, <1>2, ReadyPrepared DEF Dead
  <2>2. InOrder(k, r, {})
    BY <1>1, <1>2, ReadyInOrder
  <2> HIDE DEF r
  <2> QED BY <1>1, <1>2, <1>3, <2>1, <2>2, PreparedInOrder
<1>4. CASE n # 0
  <2>1. n \in Waits
    BY <1>4
  <2>2. Prepared(k, d, {NoQueue}, {}, {t})
    BY <1>2, <2>1, DelayPrepared
  <2> HIDE DEF s
  <2>3. Linked(k) /\ t \notin Timing(k)
    BY <1>2, CurrentFree
  <2>4. Linked(b) /\ Timing(b) = Timing(k) \ {t}
    BY <1>1, <2>3, BlockEffect
  <2>5. InOrder(k, b, {})
    BY <1>1, <1>2, BlockInOrder
  <2> HIDE DEF b
  <2>6. InOrder(k, d, {})
    BY <2>1, <2>4, <2>5, TimedInOrder
  <2> HIDE DEF d
  <2> QED BY <1>1, <1>2, <1>4, <2>2, <2>6, PreparedInOrder
<1> QED BY <1>3, <1>4

(***************************************************************************)
(* Unatomic.                                                               *)
(***************************************************************************)
LEMMA UnatomicInOrder ==
  ASSUME IInv, NEW t \in Task, Unatomic(t)
  PROVE  InOrder(k, k', {})
<1> DEFINE n == k.atomic[t] - 1
           d == [k EXCEPT !.atomic[t] = n]
<1>1. Running(t) /\ k.atomic[t] > 0 /\ (Reschedule(t, d) \/ k' = d)
  BY DEF Unatomic, Client
<1>2. InUse(k) /\ t = k.curr /\ k.atomic \in [Task -> Nat] /\ k \in Records
  BY <1>1, Caller, CurrentFree
<1>3. n \in Nat
  BY <1>1, <1>2
<1> HIDE DEF n
<1>4. SameButLevels(k, d)
  BY <1>2, <1>3, AtomicSet
<1>5. d.list = k.list /\ d.prio = k.prio
  BY <1>4 DEF SameButLevels, SameLists
<1> HIDE DEF d
<1>6. InOrder(k, d, {})
  BY <1>5, LinesUpSame, NobodyEnters
<1>7. InUse(d) /\ Sound(d) /\ GaveWay(d) /\ d.curr = k.curr
  <2>1. InUse(d)
    BY <1>2, <1>4, ScalarsPrepared DEF SameButLevels
  <2> QED BY <1>4, <2>1, CurrentFree DEF InUse, SameButLevels
<1> QED BY <1>1, <1>2, <1>6, <1>7, EndInOrder

(***************************************************************************)
(* WaitQueueTimed.                                                         *)
(***************************************************************************)
LEMMA WaitQueueInOrder ==
  ASSUME IInv, NEW t \in Task, NEW q \in WaitQ, NEW n \in Waits, WaitQueue(t, q, n)
  PROVE  InOrder(k, k', {})
<1> DEFINE s == "Waiting"
           b == Block(k, t, s)
           a == Enqueue(b, t, q)
           d == Timed(a, t, n)
<1>1. Running(t) /\ Reschedule(t, d) /\ s \in TaskState
  BY DEF WaitQueue, Client, TaskState
<1>2. InUse(k) /\ t = k.curr /\ t # Null
  BY <1>1, Caller
<1>3. Prepared(k, d, {q}, {}, {t})
  BY <1>2, WaitQueuePrepared
<1>4. Linked(k) /\ k.queue \in [Task -> Queue \cup {NoQueue}] /\ t \notin Timing(k)
  BY <1>2, CurrentFree
<1> HIDE DEF s
<1>5. /\ Linked(b) /\ b.queue = [k.queue EXCEPT ![t] = NoQueue] /\ Timing(b) = Timing(k) \ {t}
      /\ LinesUp(k, b, {})
  BY <1>1, <1>4, BlockEffect, BlockLinesUp, ZenonT(40)
<1> HIDE DEF b
<1>6. b.queue[t] = NoQueue /\ q \in Queue
  BY <1>4, <1>5, QueueKinds
<1>7. InOrder(k, a, {})
  BY <1>2, <1>5, <1>6, EnterInOrder
<1>8. Linked(a) /\ t \notin Timing(a)
  <2>1. Linked(a) /\ SameTimes(b, a)
    BY <1>5, <1>6, EnqueueEffect
  <2> QED BY <1>5, <2>1 DEF SameTimes, Timing
<1> HIDE DEF a
<1>9. InOrder(k, d, {})
  BY <1>7, <1>8, TimedInOrder
<1> HIDE DEF d
<1> QED BY <1>1, <1>2, <1>3, <1>9, PreparedInOrder

(***************************************************************************)
(* SignalQueue.                                                            *)
(***************************************************************************)
LEMMA SignalQueueInOrder ==
  ASSUME IInv, NEW t \in Task, NEW q \in WaitQ, SignalQueue(t, q)
  PROVE  InOrder(k, k', {})
<1> DEFINE u == PeekLast(k, q)
           ok == TRUE
           d == MakeReady(GetLast(k, q), u, ok)
<1>1. Running(t) /\ k.list[q] # <<>> /\ Reschedule(t, d) /\ ok \in BOOLEAN
  BY DEF SignalQueue, Client
<1>2. InUse(k) /\ t = k.curr /\ q \in Task \cup WaitQ
  BY <1>1, Caller
<1> HIDE DEF ok
<1>3. Prepared(k, d, {}, {u}, {})
  BY <1>1, <1>2, WakeLastPrepared
<1>4. InOrder(k, d, {})
  BY <1>1, <1>2, WakeLastInOrder DEF InUse
<1> HIDE DEF d, u
<1> QED BY <1>1, <1>2, <1>3, <1>4, PreparedInOrder

(***************************************************************************)
(* The Free and the Malloc of DeleteQueue and CreateQueue.                 *)
(***************************************************************************)
LEMMA QueueMemoryInOrder ==
  ASSUME IInv, NEW t \in Task,
         FreeQueue(t) \/ \E q \in WaitQ : CreateQueue(t, q)
  PROVE  InOrder(k, k', {})
<1> DEFINE f == FreeTerminated(k)
<1>1. Running(t) /\ (AfterAtomic(t, k) \/ AfterAtomic(t, f))
  BY DEF FreeQueue, CreateQueue, Client
<1>2. InUse(k) /\ t = k.curr /\ k \in Records
  BY <1>1, Caller, CurrentFree
<1>3. Prepared(k, k, {}, {}, {}) /\ Prepared(k, f, {}, {}, {})
  BY <1>2, NothingPrepared, FreeTerminatedPrepared
<1>4. InOrder(k, k, {}) /\ InOrder(k, f, {})
  BY <1>2, LinesUpSame, FreeTerminatedLinesUp, NobodyEnters
<1> HIDE DEF f
<1>5. CASE AfterAtomic(t, k)
  BY <1>2, <1>3, <1>4, <1>5, PreparedInOrder
<1>6. CASE AfterAtomic(t, f)
  BY <1>2, <1>3, <1>4, <1>6, PreparedInOrder
<1> QED BY <1>1, <1>5, <1>6

(***************************************************************************)
(* SendTimed, with the receiver waiting for the message.                   *)
(***************************************************************************)
LEMMA SendInOrder ==
  ASSUME IInv, NEW t \in Task, NEW u \in Task, Send(t, u)
  PROVE  InOrder(k, k', {})
<1> DEFINE ok == TRUE
           a == [k EXCEPT !.from[u] = t]
           d == MakeReady(a, u, ok)
<1>1. Running(t) /\ k.state[u] = "Receiving" /\ Reschedule(t, d) /\ ok \in BOOLEAN
  BY DEF Send, Client, Awaits
<1>2. InUse(k) /\ t = k.curr /\ k \in Records /\ Linked(k)
  BY <1>1, Caller, CurrentFree
<1>3. Prepared(k, d, {}, {u}, {}) /\ SameDead(k, d) /\ Readied(k, d, u)
  BY <1>1, <1>2, SendPrepared
<1> HIDE DEF ok
<1>4. a \in Records /\ SameLists(k, a) /\ SameTimes(k, a) /\ SameStatus(k, a)
  BY <1>2 DEF Records, SameLists, SameTimes, SameStatus
<1> HIDE DEF a
<1>5. Linked(a) /\ a.state[u] = "Receiving" /\ a.list = k.list /\ a.prio = k.prio /\ a.queue = k.queue
  BY <1>1, <1>2, <1>4, LinkedByFields DEF SameStatus, SameLists
<1>6. /\ LinesUp(a, d, {u})
      /\ d.queue = [a.queue EXCEPT ![u] = ReadyQ]
  <2>1. /\ Linked(d)
        /\ d.queue = [a.queue EXCEPT ![u] = ReadyQ] /\ d.prio = a.prio
        /\ Timing(d) = Timing(a) \ {u}
        /\ d.state = [a.state EXCEPT ![u] = "Ready"]
        /\ d.success = [a.success EXCEPT ![u] = ok]
        /\ SameScalars(a, d)
        /\ PeekLast(d, ReadyQ) = u => Outranks(d, u, ReadyQ)
    BY <1>1, <1>5, MakeReadyEffect
  <2>2. LinesUp(a, d, {u})
    BY <1>1, <1>5, MakeReadyLinesUp
  <2> QED BY <2>1, <2>2
<1> HIDE DEF d
<1>7. LinesUp(k, d, {} \cup {u}) /\ {} \cup {u} = {u}
  BY <1>5, <1>6, LinesUpSame, LinesUpBoth
<1>8. d.queue[u] # k.queue[u]
  <2>1. k.queue[u] # ReadyQ /\ k.queue \in [Task -> Queue \cup {NoQueue}]
    BY <1>1, <1>2, QueueKinds, RecordsFields DEF InUse, Sound, Placed, Fits
  <2> QED BY <1>5, <1>6, <2>1
<1>9. InOrder(k, d, {})
  BY <1>7, <1>8, OneEnters
<1> QED BY <1>1, <1>2, <1>3, <1>9, PreparedInOrder

(* SendTimed, when the caller waits in the send queue of the receiver.     *)
LEMMA SendWaitInOrder ==
  ASSUME IInv, NEW t \in Task, NEW u \in Task, NEW n \in Waits, SendWait(t, u, n)
  PROVE  InOrder(k, k', {})
<1> DEFINE s == "Sending"
           b == [k EXCEPT !.state[t] = s]
           a == Enqueue(b, t, u)
           d == Timed(a, t, n)
<1>1. /\ Running(t) /\ Reschedule(t, d) /\ s \in TaskState
      /\ ~ (k.state[u] = "Receiving" /\ k.from[u] \in {NoTask, t})
  BY DEF SendWait, Client, Awaits, TaskState
<1>2. InUse(k) /\ t = k.curr /\ t # Null
  BY <1>1, Caller
<1>3. Prepared(k, d, {u}, {}, {t})
  BY <1>1, <1>2, SendWaitPrepared
<1>4. Linked(k) /\ k \in Records /\ k.queue[t] = NoQueue /\ t \notin Timing(k)
  BY <1>2, CurrentFree
<1> HIDE DEF s
<1>5. b \in Records /\ SameLists(k, b) /\ SameTimes(k, b)
  BY <1>1, <1>4 DEF Records, SameLists, SameTimes
<1> HIDE DEF b
<1>6. Linked(b) /\ Timing(b) = Timing(k)
  BY <1>4, <1>5, LinkedByFields
<1>7. b.queue[t] = NoQueue /\ LinesUp(k, b, {}) /\ u \in Queue
  BY <1>4, <1>5, LinesUpSame, QueueKinds DEF SameLists
<1>8. InOrder(k, a, {})
  BY <1>2, <1>6, <1>7, EnterInOrder
<1>9. Linked(a) /\ t \notin Timing(a)
  <2>1. Linked(a) /\ SameTimes(b, a)
    BY <1>6, <1>7, EnqueueEffect
  <2> QED BY <1>4, <1>6, <2>1 DEF SameTimes, Timing
<1> HIDE DEF a
<1>10. InOrder(k, d, {})
  BY <1>8, <1>9, TimedInOrder
<1> HIDE DEF d
<1> QED BY <1>1, <1>2, <1>3, <1>10, PreparedInOrder

(***************************************************************************)
(* ReceiveTimed, with a sender waiting.                                    *)
(***************************************************************************)
LEMMA ReceiveInOrder ==
  ASSUME IInv, NEW t \in Task, NEW f \in Task \cup {NoTask}, Receive(t, f)
  PROVE  InOrder(k, k', {})
<1>1. Running(t) /\ \E s \in Senders(t, f) : Reschedule(t, MakeReady(k, s, TRUE))
  BY DEF Receive, Client
<1>2. InUse(k) /\ t = k.curr
  BY <1>1, Caller
<1>3. PICK s \in Senders(t, f) : Reschedule(t, MakeReady(k, s, TRUE))
  BY <1>1
<1>4. s \in Task /\ k.state[s] \notin Dead
  BY <1>2, SenderFound DEF Dead
<1> DEFINE ok == TRUE
           d == MakeReady(k, s, ok)
<1>5. Reschedule(t, d) /\ ok \in BOOLEAN
  BY <1>3
<1> HIDE DEF ok
<1>6. Prepared(k, d, {}, {s}, {})
  BY <1>2, <1>4, <1>5, ReadyPrepared
<1>7. InOrder(k, d, {})
  BY <1>2, <1>4, <1>5, ReadyInOrder DEF InUse
<1> HIDE DEF d
<1> QED BY <1>2, <1>5, <1>6, <1>7, PreparedInOrder

(* And without: the caller is in no queue while it waits.                  *)
LEMMA ReceiveWaitInOrder ==
  ASSUME IInv, NEW t \in Task, NEW f \in Task \cup {NoTask}, NEW n \in Waits, ReceiveWait(t, f, n)
  PROVE  InOrder(k, k', {})
<1> DEFINE s == "Receiving"
           a == [k EXCEPT !.from[t] = f, !.state[t] = s]
           d == Timed(a, t, n)
<1>1. Running(t) /\ Senders(t, f) = {} /\ Reschedule(t, d) /\ s \in TaskState
  BY DEF ReceiveWait, Client, TaskState
<1>2. InUse(k) /\ t = k.curr /\ t # Null
  BY <1>1, Caller
<1>3. NobodySends(k, t, f)
  BY <1>1, <1>2, NoSenders
<1>4. Prepared(k, d, {NoQueue}, {}, {t})
  BY <1>2, <1>3, ReceiveWaitPrepared
<1>5. Linked(k) /\ k \in Records /\ t \notin Timing(k)
  BY <1>2, CurrentFree
<1> HIDE DEF s
<1>6. a \in Records /\ SameLists(k, a) /\ SameTimes(k, a)
  BY <1>1, <1>5 DEF Records, SameLists, SameTimes
<1> HIDE DEF a
<1>7. Linked(a) /\ Timing(a) = Timing(k)
  BY <1>5, <1>6, LinkedByFields
<1>8. InOrder(k, a, {})
  BY <1>6, LinesUpSame, NobodyEnters DEF SameLists
<1>9. InOrder(k, d, {})
  BY <1>5, <1>7, <1>8, TimedInOrder
<1> HIDE DEF d
<1> QED BY <1>1, <1>2, <1>4, <1>9, PreparedInOrder

(***************************************************************************)
(* A coprocessor instruction.                                              *)
(***************************************************************************)
LEMMA UseFpuInOrder ==
  ASSUME IInv, NEW t \in Task, UseFpu(t)
  PROVE  InOrder(k, k', {})
<1> DEFINE f == FreeTerminated(k)
           c == f.math \cup {k.fpu}
           g == [f EXCEPT !.math = c]
           m == IF k.fpu # NoTask /\ k.fpu \notin k.math THEN g ELSE k
           e == [m EXCEPT !.ts = FALSE, !.fpu = t]
           s == Select(e)
<1>1. Running(t) /\ k' = s
  BY DEF UseFpu, Client
<1>2. InUse(k) /\ t = k.curr /\ k \in Records
  BY <1>1, Caller, CurrentFree
<1>3. InUse(m) /\ Prepared(k, m, {}, {}, {})
  BY <1>2, OwnerSaved
<1>4. LinesUp(k, f, {}) /\ f \in Records
  BY <1>2, FreeTerminatedLinesUp, FreeTerminatedPrepared, CurrentFree
<1> HIDE DEF f, c
<1>5. g.list = f.list /\ g.prio = f.prio
  BY <1>4 DEF Records
<1> HIDE DEF g
<1>6. LinesUp(k, m, {})
  BY <1>4, <1>5, LinesUpByFields, LinesUpSame
<1> HIDE DEF m, s
<1>7. m \in Records
  BY <1>3, CurrentFree
<1>8. /\ e \in Records /\ SameLists(m, e) /\ SameTimes(m, e) /\ SameStatus(m, e)
      /\ e.curr = m.curr /\ e.from = m.from
  BY <1>7 DEF Records, SameLists, SameTimes, SameStatus
<1> HIDE DEF e
<1>9. Sound(e) /\ e.curr = k.curr
  BY <1>3, <1>8, ScalarsPrepared DEF Prepared, InUse
<1>10. InOrder(k, e, {})
  BY <1>6, <1>8, NobodyEnters, InOrderByFields
<1>11. InOrder(k, s, {})
  BY <1>2, <1>9, <1>10, SelectInOrder DEF s
<1> QED BY <1>1, <1>11

(***************************************************************************)
(* The end of DeleteTask, or of Exit.                                      *)
(***************************************************************************)
LEMMA TerminateInOrder ==
  ASSUME IInv, NEW t \in Task, Terminate(t)
  PROVE  InOrder(k, k', {})
<1> DEFINE v == victim[t]
           w == "Terminated"
           x == "Freed"
           b == [k EXCEPT !.state[t] = w]
           e == Enqueue(b, t, TerminatedQ)
           f == Block(k, v, x)
<1>1. /\ Running(t) /\ at[t] = "released" /\ (IF v = t THEN Reschedule(t, e) ELSE Return(t, f))
      /\ w \in TaskState /\ x \in TaskState
  BY DEF Terminate, TaskState
<1>2. /\ InUse(k) /\ t = k.curr /\ t # Null /\ k.state[t] = "Current"
      /\ k.state \in [Task -> TaskState]
      /\ victim \in [Task -> Task \cup WaitQ \cup {NoTask}]
  BY <1>1, Caller, CurrentFree
<1>3. v \in Task /\ v # Null
  BY <1>1, <1>2 DEF IInv, VictimsAgree, Dead
<1> HIDE DEF v
<1>4. CASE v = t
  <2>1. Reschedule(t, e)
    BY <1>1, <1>4
  <2>2. Prepared(k, e, {}, {}, {})
    BY <1>2, EndPrepared
  <2>3. Linked(k) /\ k \in Records /\ k.queue[t] = NoQueue
    BY <1>2, CurrentFree
  <2> HIDE DEF w
  <2>4. b \in Records /\ SameLists(k, b) /\ SameTimes(k, b)
    BY <1>1, <2>3 DEF Records, SameLists, SameTimes
  <2> HIDE DEF b
  <2>5. Linked(b) /\ b.queue[t] = NoQueue /\ LinesUp(k, b, {}) /\ TerminatedQ \in Queue
    BY <2>3, <2>4, LinkedByFields, LinesUpSame, QueueKinds DEF SameLists
  <2>6. InOrder(k, e, {})
    BY <1>2, <2>5, EnterInOrder
  <2> HIDE DEF e
  <2> QED BY <1>2, <2>1, <2>2, <2>6, PreparedInOrder
<1>5. CASE v # t
  <2>1. Return(t, f)
    BY <1>1, <1>5
  <2>2. Prepared(k, f, {}, {}, {})
    BY <1>2, <1>3, <1>5, FreePrepared
  <2> HIDE DEF x
  <2>3. InOrder(k, f, {})
    BY <1>1, <1>2, <1>3, BlockInOrder DEF InUse
  <2> HIDE DEF f
  <2> QED BY <1>2, <2>1, <2>2, <2>3, PreparedInOrder
<1> QED BY <1>4, <1>5

(***************************************************************************)
(* Steps that touch no list and no priority.                               *)
(***************************************************************************)
LEMMA QuietInOrder ==
  ASSUME IInv, NEW t \in Task,
         \/ Atomic(t) \/ DisableInts(t) \/ RestoreInts(t) \/ Resume(t) \/ ReleaseFpu(t)
         \/ \E u \in Task : DeleteTask(t, u)
         \/ \E q \in WaitQ : DeleteQueue(t, q) \/ \E ok \in BOOLEAN : FlushQueue(t, q, ok)
  PROVE  InOrder(k, k', {})
<1>1. k \in Records
  BY DEF IInv, TypeOK
<1>2. CASE Atomic(t)
  <2>1. k' = [k EXCEPT !.atomic[t] = @ + 1]
    BY <1>2 DEF Atomic
  <2> QED BY <1>1, <2>1, LinesUpSame, NobodyEnters DEF Records
<1>3. CASE DisableInts(t)
  <2>1. k' = [k EXCEPT !.disint[t] = @ + 1]
    BY <1>3 DEF DisableInts
  <2> QED BY <1>1, <2>1, LinesUpSame, NobodyEnters DEF Records
<1>4. CASE RestoreInts(t) \/ Resume(t)
  <2>1. k' = [k EXCEPT !.disint[t] = @ - 1]
    BY <1>4 DEF RestoreInts, Resume
  <2> QED BY <1>1, <2>1, LinesUpSame, NobodyEnters DEF Records
<1>5. CASE ReleaseFpu(t)
  <2>1. k' = [k EXCEPT !.fpu = IF @ = victim[t] THEN NoTask ELSE @]
    BY <1>5 DEF ReleaseFpu
  <2> QED BY <1>1, <2>1, LinesUpSame, NobodyEnters DEF Records
<1>6. CASE \/ \E u \in Task : DeleteTask(t, u)
           \/ \E q \in WaitQ : DeleteQueue(t, q) \/ \E ok \in BOOLEAN : FlushQueue(t, q, ok)
  <2>1. k' = k
    BY <1>6 DEF DeleteTask, DeleteQueue, FlushQueue
  <2> QED BY <2>1, LinesUpSame, NobodyEnters
<1> QED BY <1>2, <1>3, <1>4, <1>5, <1>6

(***************************************************************************)
(* The calls.                                                              *)
(***************************************************************************)
LEMMA TaskCallInOrder ==
  ASSUME IInv, NEW t \in Task, TaskCall(t)
  PROVE  \/ InOrder(k, k', {})
         \/ \E u \in Task, p \in Priority : SetPriority(t, u, p) /\ InOrder(k, k', {u})
<1>1. ASSUME NEW u \in Task, NEW p \in Priority, CreateTask(t, u, p) PROVE InOrder(k, k', {})
  BY <1>1, CreateTaskInOrder
<1>2. ASSUME NEW u \in Task, NEW p \in Priority, SetPriority(t, u, p) PROVE InOrder(k, k', {u})
  BY <1>2, SetPriorityInOrder
<1>3. ASSUME NEW u \in Task, Suspend(t, u) PROVE InOrder(k, k', {})
  BY <1>3, SuspendInOrder
<1>4. ASSUME NEW u \in Task, Ready(t, u) PROVE InOrder(k, k', {})
  BY <1>4, ReadyCallInOrder
<1>5. ASSUME NEW u \in Task, Send(t, u) \/ \E n \in Waits : SendWait(t, u, n) PROVE InOrder(k, k', {})
  BY <1>5, SendInOrder, SendWaitInOrder
<1>6. ASSUME NEW n \in Waits \cup {0}, Delay(t, n) PROVE InOrder(k, k', {})
  BY <1>6, DelayInOrder
<1>7. ASSUME NEW q \in WaitQ, NEW n \in Waits, WaitQueue(t, q, n) PROVE InOrder(k, k', {})
  BY <1>7, WaitQueueInOrder
<1>8. ASSUME NEW q \in WaitQ, SignalQueue(t, q) PROVE InOrder(k, k', {})
  BY <1>8, SignalQueueInOrder
<1>9. ASSUME NEW f \in Task \cup {NoTask}, Receive(t, f) \/ \E n \in Waits : ReceiveWait(t, f, n)
      PROVE InOrder(k, k', {})
  BY <1>9, ReceiveInOrder, ReceiveWaitInOrder
<1>10. ASSUME Unatomic(t) PROVE InOrder(k, k', {})
  BY <1>10, UnatomicInOrder
<1>11. ASSUME UseFpu(t) PROVE InOrder(k, k', {})
  BY <1>11, UseFpuInOrder
<1>12. ASSUME \/ Atomic(t) \/ DisableInts(t) \/ RestoreInts(t)
              \/ \E u \in Task : DeleteTask(t, u)
              \/ \E q \in WaitQ : DeleteQueue(t, q) \/ \E ok \in BOOLEAN : FlushQueue(t, q, ok)
       PROVE InOrder(k, k', {})
  BY <1>12, QuietInOrder
<1> QED BY <1>1, <1>2, <1>3, <1>4, <1>5, <1>6, <1>7, <1>8, <1>9, <1>10, <1>11, <1>12 DEF TaskCall

(***************************************************************************)
(* The way out of an interrupt.                                            *)
(***************************************************************************)
LEMMA IntExitInOrder ==
  ASSUME InUse(k), NEW d, InUse(d), d.curr = k.curr, SameLists(k, d), IntExit(frames, d)
  PROVE  InOrder(k, k', {})
<1>1. InOrder(k, d, {})
  BY LinesUpSame, NobodyEnters DEF SameLists
<1> DEFINE s == Select(d)
<1>2. InOrder(k, s, {})
  BY <1>1, SelectInOrder DEF InUse
<1>3. k' = s \/ k' = d
  BY DEF IntExit
<1> HIDE DEF s
<1> QED BY <1>1, <1>2, <1>3

(***************************************************************************)
(* The kernel's own steps, and interrupts.                                 *)
(***************************************************************************)
LEMMA KernelInOrder ==
  ASSUME IInv, KernelStep \/ TimerInt \/ \E q \in WaitQ : DeviceInt(q)
  PROVE  InOrder(k, k', {})
<1>1. InUse(k) /\ Sound(k) /\ Linked(k) /\ k \in Records /\ k.curr \in Task
  BY CurrentFree DEF IInv, DataSound, InUse
<1>2. CASE FlushNext
  <2> DEFINE q == op.queue
             ok == op.success
             d == MakeReady(GetLast(k, q), PeekLast(k, q), ok)
  <2>1. op.loop = "flush" /\ k.list[q] # <<>> /\ k' = d
    BY <1>2 DEF FlushNext
  <2>2. q \in Task \cup WaitQ /\ ok \in BOOLEAN
    BY <2>1 DEF IInv, LoopsAgree, TypeOK
  <2> HIDE DEF q, ok
  <2>3. InOrder(k, d, {})
    BY <1>1, <2>1, <2>2, WakeLastInOrder
  <2> HIDE DEF d
  <2> QED BY <2>1, <2>3
<1>3. CASE FlushEnd
  <2> DEFINE t == k.curr
  <2>1. Reschedule(t, k) /\ t \in Task /\ t = k.curr
    BY <1>1, <1>3 DEF FlushEnd
  <2> HIDE DEF t
  <2>2. Prepared(k, k, {}, {}, {}) /\ InOrder(k, k, {})
    BY <1>1, NothingPrepared, LinesUpSame, NobodyEnters
  <2> QED BY <1>1, <2>1, <2>2, PreparedInOrder
<1>4. CASE WakeHead
  <2> DEFINE u == Head(k.time_q)
             g == [k EXCEPT !.time_q = Tail(@)]
             ok == FALSE
             d == MakeReady(g, u, ok)
  <2>1. k.time_q # <<>> /\ k' = d /\ ok \in BOOLEAN
    BY <1>4 DEF WakeHead, HeadIsDue
  <2>2. /\ u \in Task /\ u \in Timing(k)
        /\ Linked(g) /\ Timing(g) = Timing(k) \ {u}
        /\ SameScalars(k, g) /\ SameStatus(k, g) /\ SameLists(k, g)
    BY <1>1, <2>1, HeadTaken
  <2>3. k.state[u] \in TimedStates /\ k.queue[u] # ReadyQ
    BY <1>1, <2>2, QueueKinds DEF Sound, Placed, TimedStates, Fits
  <2> HIDE DEF u, g, ok
  <2>4. g.state[u] # "Ready"
    BY <2>2, <2>3 DEF SameStatus, TimedStates
  <2>5. LinesUp(g, d, {u}) /\ d.queue = [g.queue EXCEPT ![u] = ReadyQ]
    <3>1. /\ Linked(d)
          /\ d.queue = [g.queue EXCEPT ![u] = ReadyQ] /\ d.prio = g.prio
          /\ Timing(d) = Timing(g) \ {u}
          /\ d.state = [g.state EXCEPT ![u] = "Ready"]
          /\ d.success = [g.success EXCEPT ![u] = ok]
          /\ SameScalars(g, d)
          /\ PeekLast(d, ReadyQ) = u => Outranks(d, u, ReadyQ)
      BY <2>1, <2>2, <2>4, MakeReadyEffect
    <3>2. LinesUp(g, d, {u})
      BY <2>1, <2>2, <2>4, MakeReadyLinesUp
    <3> QED BY <3>1, <3>2
  <2> HIDE DEF d
  <2>6. LinesUp(k, d, {} \cup {u}) /\ {} \cup {u} = {u}
    BY <2>2, <2>5, LinesUpSame, LinesUpBoth DEF SameLists
  <2>7. d.queue[u] # k.queue[u]
    BY <1>1, <2>2, <2>3, <2>5, RecordsFields DEF SameLists
  <2> QED BY <2>1, <2>2, <2>6, <2>7, OneEnters
<1>5. CASE ClockEnd
  <2> DEFINE d == [k EXCEPT !.left = [x \in Task |-> IF x \in ToSet(k.time_q) THEN @[x] - 1 ELSE @[x]]]
  <2>1. IntExit(frames, d) /\ (k.time_q # <<>> => k.left[Head(k.time_q)] # 0)
    BY <1>5 DEF ClockEnd, HeadIsDue
  <2>2. Sound(d) /\ SameScalars(k, d) /\ SameStatus(k, d) /\ SameLists(k, d)
    BY <1>1, <2>1, CountDownKeeps
  <2> HIDE DEF d
  <2>3. InUse(d) /\ d.curr = k.curr
    BY <1>1, <2>2 DEF InUse, SameScalars, SameStatus
  <2> QED BY <1>1, <2>1, <2>2, <2>3, IntExitInOrder
<1>6. CASE DeviceEoi
  <2>1. k' = k
    BY <1>6 DEF DeviceEoi
  <2> QED BY <2>1, LinesUpSame, NobodyEnters
<1>7. CASE DeviceEnd
  <2>1. IntExit(frames, k) /\ SameLists(k, k)
    BY <1>7 DEF DeviceEnd, SameLists
  <2> QED BY <1>1, <2>1, IntExitInOrder
<1>8. CASE ClockInt
  <2>1. k' = [k EXCEPT !.run = IF @ > 0 THEN @ - 1 ELSE 0]
    BY <1>8 DEF ClockInt
  <2> QED BY <1>1, <2>1, LinesUpSame, NobodyEnters DEF Records
<1>9. ASSUME NEW q \in WaitQ, DeviceInt(q) PROVE InOrder(k, k', {})
  <2> DEFINE ok == TRUE
             d == MakeReady(GetLast(k, q), PeekLast(k, q), ok)
  <2>1. (k.list[q] = <<>> /\ k' = k) \/ (k.list[q] # <<>> /\ k' = d)
    BY <1>9 DEF DeviceInt
  <2>2. q \in Task \cup WaitQ /\ ok \in BOOLEAN
    OBVIOUS
  <2> HIDE DEF ok
  <2>3. k.list[q] # <<>> => InOrder(k, d, {})
    BY <1>1, <2>2, WakeLastInOrder
  <2> HIDE DEF d
  <2>4. InOrder(k, k, {})
    BY LinesUpSame, NobodyEnters
  <2> QED BY <2>1, <2>3, <2>4
<1> QED BY <1>2, <1>3, <1>4, <1>5, <1>6, <1>7, <1>8, <1>9 DEF KernelStep, TimerInt

(***************************************************************************)
(* Every step, for every task whose priority it does not set.              *)
(***************************************************************************)
LEMMA NextInOrder ==
  ASSUME IInv, Next
  PROVE  \E U \in SUBSET Task :
           /\ InOrder(k, k', U)
           /\ \A u \in U : \E c \in Task, p \in Priority : SetPriority(c, u, p)
<1>1. ASSUME InOrder(k, k', {})
      PROVE  \E U \in SUBSET Task :
               /\ InOrder(k, k', U)
               /\ \A u \in U : \E c \in Task, p \in Priority : SetPriority(c, u, p)
  <2>1. {} \in SUBSET Task
    OBVIOUS
  <2> QED BY <1>1, <2>1
<1>2. ASSUME NEW t \in Task, NEW u \in Task, NEW p \in Priority, SetPriority(t, u, p), InOrder(k, k', {u})
      PROVE  \E U \in SUBSET Task :
               /\ InOrder(k, k', U)
               /\ \A x \in U : \E c \in Task, r \in Priority : SetPriority(c, x, r)
  <2>1. {u} \in SUBSET Task
    OBVIOUS
  <2>2. \A x \in {u} : \E c \in Task, r \in Priority : SetPriority(c, x, r)
    BY <1>2
  <2> QED BY <1>2, <2>1, <2>2
<1>3. CASE \E t \in Task : TaskCall(t)
  BY <1>1, <1>2, <1>3, TaskCallInOrder
<1>4. ASSUME NEW t \in Task, GoesOn(t) PROVE InOrder(k, k', {})
  <2>1. Resume(t) \/ ReleaseFpu(t) \/ Terminate(t) \/ FreeQueue(t)
    BY <1>4 DEF GoesOn
  <2> QED BY <2>1, QuietInOrder, TerminateInOrder, QueueMemoryInOrder
<1>5. ASSUME NEW t \in Task, NEW q \in WaitQ, CreateQueue(t, q) PROVE InOrder(k, k', {})
  BY <1>5, QueueMemoryInOrder
<1>6. ASSUME KernelStep \/ TimerInt \/ \E q \in WaitQ : DeviceInt(q) PROVE InOrder(k, k', {})
  BY <1>6, KernelInOrder
<1> QED BY <1>1, <1>3, <1>4, <1>5, <1>6 DEF Next

(***************************************************************************)
(* In a queue, a task stays behind those of its priority that were in      *)
(* front of it, and goes behind them when it enters.                       *)
(***************************************************************************)
LEMMA InOrderPlaces ==
  ASSUME NEW d, Linked(d), NEW e, Linked(e), NEW U, InOrder(d, e, U), NEW q \in Queue,
         NEW t \in ToSet(e.list[q]), NEW u \in ToSet(e.list[q]), t # u, t \in ToSet(d.list[q]),
         u \in ToSet(d.list[q]) => Behind(d, q, u, t), e.prio[t] = e.prio[u], t \notin U
  PROVE  Behind(e, q, u, t)
<1>1. PICK M \in SUBSET Task :
        /\ LinesUp(d, e, M)
        /\ \A x \in M \ U : e.queue[x] \in Queue => e.queue[x] # d.queue[x]
  BY DEF InOrder
<1>2. /\ d.list[q] \in Seq(Task) /\ e.list[q] \in Seq(Task)
      /\ NoRepetition(d.list[q]) /\ NoRepetition(e.list[q])
  BY RecordsFields DEF Linked, ListsAgree
<1>3. t \in Task /\ u \in Task
  BY <1>2, LenProperties, ElementOfSeq DEF ToSet
<1>4. t \notin M
  BY <1>1, <1>3 DEF Linked, ListsAgree
<1>5. CASE u \in M
  BY <1>1, <1>2, <1>3, <1>4, <1>5, PrecedesPlaces DEF LinesUp, Behind
<1>6. CASE u \notin M
  <2>1. u \in ToSet(d.list[q])
    BY <1>1, <1>3, <1>6 DEF LinesUp
  <2>2. Precedes(d.list[q], u, t)
    BY <1>2, <2>1, PrecedesPlaces DEF Behind
  <2>3. Precedes(e.list[q], u, t)
    BY <1>1, <1>3, <1>4, <1>6, <2>2 DEF LinesUp
  <2> QED BY <1>2, <2>3, PrecedesPlaces DEF Behind
<1> QED BY <1>5, <1>6

(***************************************************************************)
(* First come, first served: tasks that enter a queue go behind those of   *)
(* their priority, and nothing the scheduler, an interrupt or a call on    *)
(* another task does lets one of them overtake another.                    *)
(***************************************************************************)
THEOREM FirstComeFirstHolds == Spec => FirstComeFirst
<1> DEFINE Keeps ==
      \A q \in Queue : \A t, u \in ToSet(k'.list[q]) :
        /\ t # u /\ t \in ToSet(k.list[q])
        /\ u \in ToSet(k.list[q]) => Behind(k, q, u, t)
        /\ k'.prio[t] = k'.prio[u]
        /\ ~ \E c \in Task, p \in Priority : SetPriority(c, t, p)
        => Behind(k', q, u, t)
<1>1. IInv /\ [Next]_vars => [Keeps]_vars
  <2> SUFFICES ASSUME IInv, Next PROVE Keeps
    OBVIOUS
  <2>1. Linked(k)
    BY DEF IInv, DataSound, InUse, Sound
  <2>2. Linked(k)'
    BY NextKeeps DEF IInv, DataSound, InUse, Sound
  <2>3. Linked(k')
    BY <2>2 DEF Linked, ListsAgree, TimeOrdered, Timing
  <2>4. PICK U \in SUBSET Task :
          /\ InOrder(k, k', U)
          /\ \A u \in U : \E c \in Task, p \in Priority : SetPriority(c, u, p)
    BY NextInOrder
  <2> QED BY <2>1, <2>3, <2>4, InOrderPlaces
<1> QED BY <1>1, IInvHolds, PTL DEF Spec, FirstComeFirst
=============================================================================
