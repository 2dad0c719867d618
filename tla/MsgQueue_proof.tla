---------------------------- MODULE MsgQueue_proof --------------------------
(***************************************************************************)
(* A message queue keeps its places and its mutexes, for any number of     *)
(* tasks on each side, any capacity and any waits: every place is free,    *)
(* taken or in one task's hands, and messages come out as they went in.    *)
(***************************************************************************)
EXTENDS MsgQueue, SyncState_proof, FiniteSetTheorems

Inner == {"ask", "granted?", "copied", "give", "leave"}
Places == Inner \cup {"idle", "enter"}
Mutexes == {mutex_get, mutex_put}
Counters == {sem_get, sem_put}

InsideMutex(p, m) == {t \in Task : Mutex(t) = m /\ p[t] \in Inner}
AskedMutex(p, m) == {t \in Task : Mutex(t) = m /\ p[t] = "enter"}

(* Where a task may wait, given its place, and whose mutex it has.         *)
Seated(ms, us, v, p, o, t) ==
  /\ p[t] = "enter" => Mutex(t) \in ms /\ (where(v)[t] = {} \/ where(v)[t] = {Mutex(t)})
  /\ p[t] = "granted?" => where(v)[t] = {} \/ where(v)[t] = {Takes(t)}
  /\ p[t] \notin {"enter", "granted?"} => where(v)[t] = {}
  /\ Mutex(t) \in ms => (p[t] \in Inner <=> o[Mutex(t)] = t)
  /\ p[t] # "idle" => t \in us

(* The mutexes and the queues of waiting tasks are kept: ms, us, v, p and  *)
(* o are mutexes, users, w, pc and owner.                                  *)
Kept(ms, us, v, p, o) ==
  /\ Linked(v) /\ p \in [Task -> Places] /\ ms \subseteq Mutexes
  /\ o \in [Mutexes -> Task \cup {NoTask}]
  /\ \A m \in ms : Locked(v, m, InsideMutex(p, m), AskedMutex(p, m))
  /\ \A m \in Mutexes : v.value[m] <= 1
  /\ \A s \in Sem, t \in Task : where(v)[t] = {s} => v.value[s] = 0
  /\ \A t \in Task : Seated(ms, us, v, p, o, t)

-----------------------------------------------------------------------------
(***************************************************************************)
(* Three names make at most three elements.                                *)
(***************************************************************************)
LEMMA AtMostThree ==
  ASSUME NEW a, NEW b, NEW c
  PROVE  Cardinality({a, b, c}) \in Nat /\ Cardinality({a, b, c}) <= 3
<1>1. IsFiniteSet({a}) /\ Cardinality({a}) = 1
  BY FS_Singleton
<1> DEFINE s1 == {a}
           s2 == s1 \cup {b}
           s3 == s2 \cup {c}
<1>2. s3 = {a, b, c}
  OBVIOUS
<1>3. IsFiniteSet(s1) /\ Cardinality(s1) = 1
  BY <1>1
<1> HIDE DEF s1
<1>4. IsFiniteSet(s2) /\ Cardinality(s2) = IF b \in s1 THEN 1 ELSE 2
  BY <1>3, FS_AddElement
<1> HIDE DEF s2
<1>5. Cardinality(s3) = IF c \in s2 THEN Cardinality(s2) ELSE Cardinality(s2) + 1
  BY <1>4, FS_AddElement
<1> QED BY <1>2, <1>4, <1>5

(***************************************************************************)
(* Four names that make four elements differ.                              *)
(***************************************************************************)
LEMMA TwoOfFour ==
  ASSUME NEW a, NEW b, NEW c, NEW d, Cardinality({a, b, c, d}) = 4
  PROVE  a # b
<1> SUFFICES ASSUME a = b PROVE FALSE
  OBVIOUS
<1> DEFINE n == Cardinality({b, c, d})
<1>1. {a, b, c, d} = {b, c, d}
  OBVIOUS
<1>2. n = 4
  BY <1>1
<1>3. n \in Nat /\ n <= 3
  BY AtMostThree
<1> HIDE DEF n
<1> QED BY <1>2, <1>3

(***************************************************************************)
(* The names of the semaphores differ.                                     *)
(***************************************************************************)
LEMMA Names ==
  /\ sem_get # sem_put /\ mutex_get # mutex_put /\ Counters \cap Mutexes = {}
  /\ Sem = Counters \cup Mutexes /\ Queue = Sem
  /\ FOREVER \in Waits /\ FOREVER # 0
  /\ \A t \in Task : /\ Mutex(t) \in Mutexes /\ Takes(t) \in Counters /\ Gives(t) \in Counters
                     /\ Takes(t) # Gives(t)
<1> DEFINE a == sem_get
           b == sem_put
           c == mutex_get
           d == mutex_put
<1>1. Cardinality({a, b, c, d}) = 4 /\ Sem = {a, b, c, d}
  BY MsgQueueAssumption
<1> HIDE DEF a, b, c, d
<1>2. /\ {a, b, c, d} = {a, c, b, d} /\ {a, b, c, d} = {a, d, b, c} /\ {a, b, c, d} = {b, c, a, d}
      /\ {a, b, c, d} = {b, d, a, c} /\ {a, b, c, d} = {c, d, a, b}
  OBVIOUS
<1>13. /\ Cardinality({a, c, b, d}) = 4 /\ Cardinality({a, d, b, c}) = 4 /\ Cardinality({b, c, a, d}) = 4
       /\ Cardinality({b, d, a, c}) = 4 /\ Cardinality({c, d, a, b}) = 4
  BY <1>1, <1>2
<1>3. a # b
  BY <1>1, TwoOfFour
<1>4. a # c
  BY <1>13, TwoOfFour
<1>5. a # d
  BY <1>13, TwoOfFour
<1>6. b # c
  BY <1>13, TwoOfFour
<1>7. b # d
  BY <1>13, TwoOfFour
<1>8. c # d
  BY <1>13, TwoOfFour
<1>9. FOREVER # 0 /\ FOREVER \in Waits
  BY SyncStateAssumption DEF Waits
<1>10. /\ sem_get # sem_put /\ mutex_get # mutex_put /\ Counters \cap Mutexes = {}
       /\ Sem = Counters \cup Mutexes
  BY <1>1, <1>3, <1>4, <1>5, <1>6, <1>7, <1>8 DEF a, b, c, d, Counters, Mutexes
<1>11. Queue = Sem
  BY MsgQueueAssumption DEF Queue
<1>12. \A t \in Task : /\ Mutex(t) \in Mutexes /\ Takes(t) \in Counters /\ Gives(t) \in Counters
                       /\ Takes(t) # Gives(t)
  BY <1>10 DEF Mutex, Takes, Gives, Mutexes, Counters
<1> QED BY <1>9, <1>10, <1>11, <1>12

(***************************************************************************)
(* The tasks of a mutex, when one task moves.                              *)
(***************************************************************************)
LEMMA Moves ==
  ASSUME NEW p \in [Task -> Places], NEW t \in Task, NEW c \in Places
  PROVE  LET p2 == [p EXCEPT ![t] = c]
         IN  /\ p2 \in [Task -> Places] /\ p2[t] = c
             /\ \A u \in Task : u # t => p2[u] = p[u]
             /\ \A m : m # Mutex(t) => /\ InsideMutex(p2, m) = InsideMutex(p, m)
                                       /\ AskedMutex(p2, m) = AskedMutex(p, m)
BY DEF InsideMutex, AskedMutex
(***************************************************************************)
(* The task inside goes on to another place, having read its status at     *)
(* most.                                                                   *)
(***************************************************************************)
LEMMA GoesOnInside ==
  ASSUME NEW ms, NEW us, NEW v, NEW p, NEW o, Kept(ms, us, v, p, o),
         NEW t \in Task, p[t] \in Inner, where(v)[t] = {}, NEW c \in Inner,
         NEW e, Stays(v, e), e.value = v.value,
         \A u \in Task : u # t => e.success[u] = v.success[u]
  PROVE  Kept(ms, us, e, [p EXCEPT ![t] = c], o)
<1> DEFINE p2 == [p EXCEPT ![t] = c]
<1>1. /\ p \in [Task -> Places] /\ c \in Places /\ p2 \in [Task -> Places] /\ p2[t] = c
      /\ \A u \in Task : u # t => p2[u] = p[u]
      /\ \A m \in ms : InsideMutex(p2, m) = InsideMutex(p, m) /\ AskedMutex(p2, m) = AskedMutex(p, m)
      /\ \A m \in ms : t \notin AskedMutex(p, m)
  BY DEF Kept, Places, Inner, InsideMutex, AskedMutex
<1>2. Linked(e) /\ where(e) = where(v)
  BY DEF Stays
<1> HIDE DEF p2
<1>3. ASSUME NEW m \in ms PROVE Locked(e, m, InsideMutex(p2, m), AskedMutex(p2, m))
  <2> DEFINE inside == InsideMutex(p, m)
             asked == AskedMutex(p, m)
  <2>1. m \in Sem /\ Locked(v, m, inside, asked)
    BY Names DEF Kept
  <2>2. t \notin asked /\ where(e)[t] # {m}
    BY <1>1, <1>2
  <2> HIDE DEF inside, asked
  <2>3. \A u \in Task : \/ where(e)[u] = where(v)[u] /\ e.success[u] = v.success[u]
                        \/ u \notin asked /\ where(e)[u] # {m}
    BY <1>2, <2>2
  <2>4. e.value[m] = v.value[m]
    OBVIOUS
  <2>5. Locked(e, m, inside, asked)
    BY <2>1, <2>3, <2>4, LockKept
  <2> QED BY <1>1, <2>5 DEF inside, asked
<1>4. ASSUME NEW u \in Task PROVE Seated(ms, us, e, p2, o, u)
  <2>1. CASE u = t
    BY <1>1, <1>2, <2>1 DEF Seated, Kept, Inner
  <2>2. CASE u # t
    BY <1>1, <1>2, <2>2 DEF Seated, Kept
  <2> QED BY <2>1, <2>2
<1> QED BY <1>1, <1>2, <1>3, <1>4 DEF Kept, p2

(***************************************************************************)
(* A task asks for a message or a place.                                   *)
(***************************************************************************)
LEMMA AsksCount ==
  ASSUME NEW ms, NEW us, NEW v, NEW p, NEW o, Kept(ms, us, v, p, o),
         NEW t \in Task, p[t] = "ask", where(v)[t] = {},
         NEW e, \/ Passes(v, e, t, Takes(t))
                \/ Fails(v, e, t, Takes(t))
                \/ v.value[Takes(t)] = 0 /\ Joins(v, e, t, Takes(t))
  PROVE  Kept(ms, us, e, [p EXCEPT ![t] = "granted?"], o)
<1> DEFINE p2 == [p EXCEPT ![t] = "granted?"]
           s == Takes(t)
<1>1. /\ p \in [Task -> Places] /\ p2 \in [Task -> Places] /\ p2[t] = "granted?"
      /\ \A u \in Task : u # t => p2[u] = p[u]
      /\ \A m \in ms : InsideMutex(p2, m) = InsideMutex(p, m) /\ AskedMutex(p2, m) = AskedMutex(p, m)
      /\ \A m \in ms : t \notin AskedMutex(p, m)
  BY DEF Kept, Places, Inner, InsideMutex, AskedMutex
<1>2. /\ Linked(v) /\ v.value \in [Sem -> Nat] /\ v.success \in [Task -> BOOLEAN]
      /\ s \in Sem /\ s \notin Mutexes /\ ms \subseteq Mutexes
  BY RecordsFields, Names DEF Kept, Linked
<1> HIDE DEF p2, s
<1>3. /\ Linked(e) /\ \A r \in Sem : r # s => e.value[r] = v.value[r]
      /\ where(e)[t] = {} \/ (where(e)[t] = {s} /\ e.value[s] = 0)
      /\ \A u \in Task : u # t => where(e)[u] = where(v)[u] /\ e.success[u] = v.success[u]
      /\ \A u \in Task : u # t /\ where(v)[u] = {s} => e.value[s] = 0
  <2>1. CASE Passes(v, e, t, s)
    BY <1>2, <2>1 DEF Passes, Stays, Kept
  <2>2. CASE Fails(v, e, t, s)
    BY <1>2, <2>2 DEF Fails, Stays
  <2>3. CASE v.value[s] = 0 /\ Joins(v, e, t, s)
    BY <1>2, <2>3 DEF Joins, where
  <2> QED BY <2>1, <2>2, <2>3 DEF s
<1>4. ASSUME NEW m \in ms PROVE Locked(e, m, InsideMutex(p2, m), AskedMutex(p2, m))
  <2> DEFINE inside == InsideMutex(p, m)
             asked == AskedMutex(p, m)
  <2>1. m \in Sem /\ m # s /\ Locked(v, m, inside, asked)
    BY <1>2, Names DEF Kept
  <2>2. t \notin asked /\ where(e)[t] # {m}
    BY <1>1, <1>3, <2>1
  <2> HIDE DEF inside, asked
  <2>3. \A u \in Task : \/ where(e)[u] = where(v)[u] /\ e.success[u] = v.success[u]
                        \/ u \notin asked /\ where(e)[u] # {m}
    BY <1>3, <2>2
  <2>4. e.value[m] = v.value[m]
    BY <1>3, <2>1
  <2>5. Locked(e, m, inside, asked)
    BY <2>1, <2>3, <2>4, LockKept
  <2> QED BY <1>1, <2>5 DEF inside, asked
<1>5. \A m \in Mutexes : e.value[m] <= 1
  BY <1>2, <1>3, Names DEF Kept
<1>6. ASSUME NEW r \in Sem, NEW u \in Task, where(e)[u] = {r} PROVE e.value[r] = 0
  <2>1. CASE u = t
    BY <1>3, <1>6, <2>1
  <2>2. CASE u # t
    BY <1>3, <1>6, <2>2 DEF Kept
  <2> QED BY <2>1, <2>2
<1>7. ASSUME NEW u \in Task PROVE Seated(ms, us, e, p2, o, u)
  <2>1. CASE u = t
    BY <1>1, <1>3, <2>1 DEF Seated, Kept, Inner, s
  <2>2. CASE u # t
    BY <1>1, <1>3, <2>2 DEF Seated, Kept
  <2> QED BY <2>1, <2>2
<1>8. o \in [Mutexes -> Task \cup {NoTask}]
  BY DEF Kept
<1> QED BY <1>1, <1>2, <1>3, <1>4, <1>5, <1>6, <1>7, <1>8 DEF Kept, p2

(***************************************************************************)
(* A count goes up while nobody waits for it, or down.                     *)
(***************************************************************************)
LEMMA CountsChange ==
  ASSUME NEW ms, NEW us, NEW v, NEW p, NEW o, Kept(ms, us, v, p, o),
         NEW e, Stays(v, e), e.success = v.success, \A m \in Mutexes : e.value[m] = v.value[m],
         \A s \in Sem, t \in Task : where(v)[t] = {s} => e.value[s] = 0
  PROVE  Kept(ms, us, e, p, o)
<1>1. Linked(e) /\ where(e) = where(v) /\ ms \subseteq Mutexes /\ ms \subseteq Sem
  BY Names DEF Stays, Kept
<1>2. ASSUME NEW m \in ms PROVE Locked(e, m, InsideMutex(p, m), AskedMutex(p, m))
  <2> DEFINE inside == InsideMutex(p, m)
             asked == AskedMutex(p, m)
  <2>1. m \in Sem /\ Locked(v, m, inside, asked) /\ e.value[m] = v.value[m]
    BY <1>1 DEF Kept
  <2> HIDE DEF inside, asked
  <2>3. \A u \in Task : \/ where(e)[u] = where(v)[u] /\ e.success[u] = v.success[u]
                        \/ u \notin asked /\ where(e)[u] # {m}
    BY <1>1
  <2>5. Locked(e, m, inside, asked)
    BY <2>1, <2>3, LockKept
  <2> QED BY <2>5 DEF inside, asked
<1>3. \A u \in Task : Seated(ms, us, e, p, o, u)
  BY <1>1 DEF Seated, Kept
<1> QED BY <1>1, <1>2, <1>3 DEF Kept

(***************************************************************************)
(* Where a waiting task is.                                                *)
(***************************************************************************)
LEMMA WaitingWhere ==
  ASSUME NEW ms, NEW us, NEW v, NEW p, NEW o, Kept(ms, us, v, p, o),
         NEW u \in Task, NEW q, where(v)[u] = {q}
  PROVE  \/ p[u] = "enter" /\ q = Mutex(u) /\ q \in ms
         \/ p[u] = "granted?" /\ q = Takes(u)
BY DEF Kept, Seated

(***************************************************************************)
(* A wait ends; for a mutex it ends by a timeout.                          *)
(***************************************************************************)
LEMMA EndsWait ==
  ASSUME NEW ms, NEW us, NEW v, NEW p, NEW o, Kept(ms, us, v, p, o),
         NEW u \in Task, NEW q \in Queue, NEW ok \in BOOLEAN, q \in Mutexes => ~ ok,
         NEW e, Wakes(v, e, u, q, ok)
  PROVE  Kept(ms, us, e, p, o)
<1>1. Linked(v) /\ v.success \in [Task -> BOOLEAN] /\ ms \subseteq Mutexes
  BY RecordsFields DEF Kept, Linked
<1>2. /\ Linked(e) /\ e.value = v.value /\ where(v)[u] = {q} /\ where(e)[u] = {}
      /\ \A x \in Task : x # u => where(e)[x] = where(v)[x] /\ e.success[x] = v.success[x]
  BY <1>1 DEF Wakes, where
<1>3. (p[u] = "enter" /\ q = Mutex(u) /\ q \in ms) \/ (p[u] = "granted?" /\ q = Takes(u))
  BY <1>2, WaitingWhere
<1>4. ASSUME NEW m \in ms PROVE Locked(e, m, InsideMutex(p, m), AskedMutex(p, m))
  <2> DEFINE inside == InsideMutex(p, m)
             asked == AskedMutex(p, m)
  <2>1. m \in Sem /\ Locked(v, m, inside, asked) /\ e.value[m] = v.value[m] /\ m \in Mutexes
    BY <1>1, <1>2, Names DEF Kept
  <2>2. q # m => u \notin asked
    BY <1>3 DEF AskedMutex
  <2> HIDE DEF inside, asked
  <2>3. CASE q = m
    <3>1. Wakes(v, e, u, m, FALSE)
      BY <2>1, <2>3
    <3>2. Locked(e, m, inside, asked)
      BY <1>1, <2>1, <3>1, LockTimedOut
    <3> QED BY <3>2 DEF inside, asked
  <2>4. CASE q # m
    <3>1. \A x \in Task : \/ where(e)[x] = where(v)[x] /\ e.success[x] = v.success[x]
                          \/ x \notin asked /\ where(e)[x] # {m}
      BY <1>2, <2>2, <2>4
    <3>2. Locked(e, m, inside, asked)
      BY <2>1, <3>1, LockKept
    <3> QED BY <3>2 DEF inside, asked
  <2> QED BY <2>3, <2>4
<1>5. ASSUME NEW x \in Task PROVE Seated(ms, us, e, p, o, x)
  <2>1. CASE x = u
    BY <1>2, <1>3, <2>1 DEF Seated, Kept
  <2>2. CASE x # u
    BY <1>2, <2>2 DEF Seated, Kept
  <2> QED BY <2>1, <2>2
<1>6. \A s \in Sem, t \in Task : where(e)[t] = {s} => e.value[s] = 0
  BY <1>2 DEF Kept
<1> QED BY <1>2, <1>4, <1>5, <1>6 DEF Kept

(***************************************************************************)
(* A user begins a call and asks for the mutex of its side.                *)
(***************************************************************************)
LEMMA AsksMutex ==
  ASSUME NEW ms, NEW us, NEW v, NEW p, NEW o, Kept(ms, us, v, p, o),
         NEW t \in Task, t \in us, p[t] = "idle", where(v)[t] = {}, Mutex(t) \in ms,
         NEW e, \/ Passes(v, e, t, Mutex(t))
                \/ Fails(v, e, t, Mutex(t))
                \/ v.value[Mutex(t)] = 0 /\ Joins(v, e, t, Mutex(t))
  PROVE  Kept(ms, us, e, [p EXCEPT ![t] = "enter"], o)
<1> DEFINE p2 == [p EXCEPT ![t] = "enter"]
           s == Mutex(t)
<1>1. /\ p \in [Task -> Places] /\ p2 \in [Task -> Places] /\ p2[t] = "enter"
      /\ \A u \in Task : u # t => p2[u] = p[u]
      /\ \A m \in ms : InsideMutex(p2, m) = InsideMutex(p, m)
      /\ \A m \in ms : m # s => AskedMutex(p2, m) = AskedMutex(p, m)
      /\ AskedMutex(p2, s) = AskedMutex(p, s) \cup {t}
      /\ \A m \in ms : t \notin AskedMutex(p, m) /\ t \notin InsideMutex(p, m)
  BY DEF Kept, Places, Inner, InsideMutex, AskedMutex
<1>2. /\ Linked(v) /\ v.value \in [Sem -> Nat] /\ v.success \in [Task -> BOOLEAN]
      /\ s \in Sem /\ s \in ms /\ ms \subseteq Mutexes /\ v.value[s] <= 1
  BY RecordsFields, Names DEF Kept, Linked
<1> HIDE DEF p2
<1>3. /\ Linked(e) /\ (\A r \in Sem : r # s => e.value[r] = v.value[r]) /\ e.value[s] <= 1
      /\ where(e)[t] = {} \/ (where(e)[t] = {s} /\ e.value[s] = 0)
      /\ \A u \in Task : u # t => where(e)[u] = where(v)[u] /\ e.success[u] = v.success[u]
      /\ \A u \in Task : u # t /\ where(v)[u] = {s} => e.value[s] = 0
  <2> HIDE DEF s
  <2>1. CASE Passes(v, e, t, s)
    BY <1>2, <2>1 DEF Passes, Stays, Kept
  <2>2. CASE Fails(v, e, t, s)
    BY <1>2, <2>2 DEF Fails, Stays
  <2>3. CASE v.value[s] = 0 /\ Joins(v, e, t, s)
    BY <1>2, <2>3 DEF Joins, where
  <2> QED BY <2>1, <2>2, <2>3 DEF s
<1>4. ASSUME NEW m \in ms PROVE Locked(e, m, InsideMutex(p2, m), AskedMutex(p2, m))
  <2> DEFINE inside == InsideMutex(p, m)
             asked == AskedMutex(p, m)
  <2>1. m \in Sem /\ Locked(v, m, inside, asked) /\ t \notin inside \cup asked
    BY <1>1, <1>2, Names DEF Kept
  <2> HIDE DEF inside, asked
  <2>2. CASE m = s
    <3>1. \/ Passes(v, e, t, m)
          \/ Fails(v, e, t, m)
          \/ v.value[m] = 0 /\ Joins(v, e, t, m)
      BY <2>2 DEF s
    <3>2. Locked(e, m, inside, asked \cup {t})
      BY <1>2, <2>1, <3>1, LockAsked
    <3> QED BY <1>1, <2>2, <3>2 DEF inside, asked
  <2>3. CASE m # s
    <3> HIDE DEF s
    <3>1. t \notin asked /\ where(e)[t] # {m}
      BY <1>3, <2>1, <2>3
    <3>2. \A u \in Task : \/ where(e)[u] = where(v)[u] /\ e.success[u] = v.success[u]
                          \/ u \notin asked /\ where(e)[u] # {m}
      BY <1>3, <3>1
    <3>3. e.value[m] = v.value[m]
      BY <1>3, <2>1, <2>3
    <3>4. Locked(e, m, inside, asked)
      BY <2>1, <3>2, <3>3, LockKept
    <3> QED BY <1>1, <2>3, <3>4 DEF inside, asked
  <2> QED BY <2>2, <2>3
<1>5. \A m \in Mutexes : e.value[m] <= 1
  <2> HIDE DEF s
  <2> QED BY <1>2, <1>3, Names DEF Kept
<1>6. ASSUME NEW r \in Sem, NEW u \in Task, where(e)[u] = {r} PROVE e.value[r] = 0
  <2> HIDE DEF s
  <2>1. CASE u = t
    BY <1>3, <1>6, <2>1
  <2>2. CASE u # t
    BY <1>3, <1>6, <2>2 DEF Kept
  <2> QED BY <2>1, <2>2
<1>7. ASSUME NEW u \in Task PROVE Seated(ms, us, e, p2, o, u)
  <2>1. CASE u = t
    BY <1>1, <1>2, <1>3, <2>1 DEF Seated, Kept, Inner
  <2>2. CASE u # t
    BY <1>1, <1>3, <2>2 DEF Seated, Kept
  <2> QED BY <2>1, <2>2
<1>8. o \in [Mutexes -> Task \cup {NoTask}]
  BY DEF Kept
<1> QED BY <1>1, <1>2, <1>3, <1>4, <1>5, <1>6, <1>7, <1>8 DEF Kept, p2

(***************************************************************************)
(* A user of a side that has no mutex begins a call, or ends one.          *)
(***************************************************************************)
LEMMA MovesFreely ==
  ASSUME NEW ms, NEW us, NEW v, NEW p, NEW o, Kept(ms, us, v, p, o),
         NEW t \in Task, t \in us, p[t] # "enter", where(v)[t] = {}, Mutex(t) \notin ms,
         NEW c \in {"idle", "ask"}
  PROVE  Kept(ms, us, v, [p EXCEPT ![t] = c], o)
<1> DEFINE p2 == [p EXCEPT ![t] = c]
<1>1. /\ p \in [Task -> Places] /\ p2 \in [Task -> Places] /\ p2[t] = c
      /\ \A u \in Task : u # t => p2[u] = p[u]
      /\ \A m \in ms : InsideMutex(p2, m) = InsideMutex(p, m) /\ AskedMutex(p2, m) = AskedMutex(p, m)
  BY DEF Kept, Places, Inner, InsideMutex, AskedMutex
<1> HIDE DEF p2
<1>2. ASSUME NEW u \in Task PROVE Seated(ms, us, v, p2, o, u)
  <2>1. CASE u = t
    BY <1>1, <2>1 DEF Seated, Kept, Inner
  <2>2. CASE u # t
    BY <1>1, <2>2 DEF Seated, Kept
  <2> QED BY <2>1, <2>2
<1> QED BY <1>1, <1>2 DEF Kept, p2

(***************************************************************************)
(* A task looks whether it was granted the mutex.                          *)
(***************************************************************************)
LEMMA GetsMutex ==
  ASSUME NEW ms, NEW us, NEW v, NEW p, NEW o, Kept(ms, us, v, p, o),
         NEW t \in Task, p[t] = "enter", where(v)[t] = {},
         NEW e, Stays(v, e), e.value = v.value, e.success = [v.success EXCEPT ![t] = FALSE]
  PROVE  /\ v.success[t] => Kept(ms, us, e, [p EXCEPT ![t] = "ask"], [o EXCEPT ![Mutex(t)] = t])
         /\ ~ v.success[t] => Kept(ms, us, e, [p EXCEPT ![t] = "idle"], o)
<1> DEFINE s == Mutex(t)
<1>1. /\ Linked(v) /\ v.success \in [Task -> BOOLEAN] /\ s \in Mutexes /\ s \in ms /\ ms \subseteq Mutexes
      /\ t \in us
  BY RecordsFields, Names DEF Kept, Linked, Seated
<1>2. /\ Linked(e) /\ where(e) = where(v)
      /\ \A u \in Task : u # t => e.success[u] = v.success[u]
  BY <1>1 DEF Stays
<1>3. \A r \in Sem, u \in Task : where(e)[u] = {r} => e.value[r] = 0
  BY <1>2 DEF Kept
<1>4. \A m \in Mutexes : e.value[m] <= 1
  BY DEF Kept
<1>5. p \in [Task -> Places] /\ o \in [Mutexes -> Task \cup {NoTask}]
  BY DEF Kept
<1>6. ASSUME NEW m \in ms, m # s PROVE Locked(e, m, InsideMutex(p, m), AskedMutex(p, m))
  <2> DEFINE inside == InsideMutex(p, m)
             asked == AskedMutex(p, m)
  <2>1. m \in Sem /\ Locked(v, m, inside, asked) /\ e.value[m] = v.value[m]
    BY <1>1, Names DEF Kept
  <2>2. t \notin asked
    BY <1>6 DEF AskedMutex
  <2> HIDE DEF inside, asked, s
  <2>3. \A u \in Task : \/ where(e)[u] = where(v)[u] /\ e.success[u] = v.success[u]
                        \/ u \notin asked /\ where(e)[u] # {m}
    BY <1>2, <2>2
  <2>4. Locked(e, m, inside, asked)
    BY <2>1, <2>3, LockKept
  <2> QED BY <2>4 DEF inside, asked
<1> DEFINE inside == InsideMutex(p, s)
           asked == AskedMutex(p, s)
<1>7. /\ v.success[t] => Locked(e, s, inside \cup {t}, asked \ {t})
      /\ ~ v.success[t] => Locked(e, s, inside, asked \ {t})
  <2>1. s \in Sem /\ Locked(v, s, inside, asked) /\ t \in asked
    BY <1>1, Names DEF Kept, AskedMutex
  <2> HIDE DEF s, inside, asked
  <2> QED BY <1>1, <2>1, LockAnswered
<1>8. CASE v.success[t]
  <2> DEFINE p2 == [p EXCEPT ![t] = "ask"]
             o2 == [o EXCEPT ![s] = t]
  <2>1. /\ p2 \in [Task -> Places] /\ p2[t] = "ask" /\ \A u \in Task : u # t => p2[u] = p[u]
        /\ \A m \in ms : m # s => InsideMutex(p2, m) = InsideMutex(p, m) /\ AskedMutex(p2, m) = AskedMutex(p, m)
        /\ InsideMutex(p2, s) = inside \cup {t} /\ AskedMutex(p2, s) = asked \ {t}
    BY <1>5 DEF Places, Inner, InsideMutex, AskedMutex
  <2>2. o2 \in [Mutexes -> Task \cup {NoTask}] /\ o2[s] = t /\ \A m \in Mutexes : m # s => o2[m] = o[m]
    BY <1>1, <1>5
  <2>3. \A u \in Task : u # t /\ Mutex(u) = s => p[u] \notin Inner
    <3>1. Locked(v, s, inside, asked) /\ t \in Past(v, s, inside, asked)
      BY <1>1, <1>8 DEF Kept, AskedMutex, Past
    <3> QED BY <3>1 DEF Locked, Past, InsideMutex
  <2> HIDE DEF p2, o2
  <2>4. ASSUME NEW u \in Task PROVE Seated(ms, us, e, p2, o2, u)
    <3>1. CASE u = t
      BY <1>1, <1>2, <2>1, <2>2, <3>1 DEF Seated, Kept, Inner
    <3>2. CASE u # t /\ Mutex(u) = s
      <4>1. o2[Mutex(u)] # u /\ p2[u] \notin Inner
        BY <2>1, <2>2, <2>3, <3>2
      <4> QED BY <1>2, <2>1, <3>2, <4>1 DEF Seated, Kept
    <3>3. CASE u # t /\ Mutex(u) # s
      <4>1. o2[Mutex(u)] = o[Mutex(u)]
        BY <2>2, <3>3, Names
      <4> QED BY <1>2, <2>1, <3>3, <4>1 DEF Seated, Kept
    <3> QED BY <3>1, <3>2, <3>3
  <2>5. ASSUME NEW m \in ms PROVE Locked(e, m, InsideMutex(p2, m), AskedMutex(p2, m))
    BY <1>6, <1>7, <1>8, <2>1
  <2> QED BY <1>1, <1>2, <1>3, <1>4, <1>8, <2>1, <2>2, <2>4, <2>5 DEF Kept, p2, o2
<1>9. CASE ~ v.success[t]
  <2> DEFINE p2 == [p EXCEPT ![t] = "idle"]
  <2>1. /\ p2 \in [Task -> Places] /\ p2[t] = "idle" /\ \A u \in Task : u # t => p2[u] = p[u]
        /\ \A m \in ms : m # s => InsideMutex(p2, m) = InsideMutex(p, m) /\ AskedMutex(p2, m) = AskedMutex(p, m)
        /\ InsideMutex(p2, s) = inside /\ AskedMutex(p2, s) = asked \ {t}
    BY <1>5 DEF Places, Inner, InsideMutex, AskedMutex
  <2> HIDE DEF p2
  <2>4. ASSUME NEW u \in Task PROVE Seated(ms, us, e, p2, o, u)
    <3>1. CASE u = t
      BY <1>1, <1>2, <2>1, <3>1 DEF Seated, Kept, Inner
    <3>2. CASE u # t
      BY <1>2, <2>1, <3>2 DEF Seated, Kept
    <3> QED BY <3>1, <3>2
  <2>5. ASSUME NEW m \in ms PROVE Locked(e, m, InsideMutex(p2, m), AskedMutex(p2, m))
    BY <1>6, <1>7, <1>9, <2>1
  <2> QED BY <1>1, <1>2, <1>3, <1>4, <1>5, <1>9, <2>1, <2>4, <2>5 DEF Kept, p2
<1> QED BY <1>8, <1>9

(***************************************************************************)
(* The task inside leaves the mutex.                                       *)
(***************************************************************************)
LEMMA LeavesMutex ==
  ASSUME NEW ms, NEW us, NEW v, NEW p, NEW o, Kept(ms, us, v, p, o),
         NEW t \in Task, p[t] \in Inner, where(v)[t] = {}, Mutex(t) \in ms,
         NEW e, Raises(v, e, Mutex(t)) \/ \E u \in Task : Wakes(v, e, u, Mutex(t), TRUE)
  PROVE  Kept(ms, us, e, [p EXCEPT ![t] = "idle"], [o EXCEPT ![Mutex(t)] = NoTask])
<1> DEFINE s == Mutex(t)
           p2 == [p EXCEPT ![t] = "idle"]
           o2 == [o EXCEPT ![s] = NoTask]
           inside == InsideMutex(p, s)
           asked == AskedMutex(p, s)
<1>1. /\ Linked(v) /\ v.success \in [Task -> BOOLEAN] /\ v.value \in [Sem -> Nat]
      /\ s \in Mutexes /\ s \in ms /\ s \in Sem /\ ms \subseteq Mutexes
      /\ p \in [Task -> Places] /\ o \in [Mutexes -> Task \cup {NoTask}]
      /\ Locked(v, s, inside, asked) /\ t \in inside
  BY RecordsFields, Names DEF Kept, Linked, InsideMutex
<1>2. /\ p2 \in [Task -> Places] /\ p2[t] = "idle" /\ \A u \in Task : u # t => p2[u] = p[u]
      /\ \A m \in ms : m # s => InsideMutex(p2, m) = InsideMutex(p, m) /\ AskedMutex(p2, m) = AskedMutex(p, m)
      /\ InsideMutex(p2, s) = inside \ {t} /\ AskedMutex(p2, s) = asked
  BY <1>1 DEF Places, Inner, InsideMutex, AskedMutex
<1>3. o2 \in [Mutexes -> Task \cup {NoTask}] /\ o2[s] = NoTask /\ \A m \in Mutexes : m # s => o2[m] = o[m]
  BY <1>1
<1>4. \A u \in Task : u # t /\ Mutex(u) = s => p[u] \notin Inner
  BY <1>1 DEF Locked, Past, InsideMutex
<1>5. v.value[s] = 0
  <2>1. t \in Past(v, s, inside, asked)
    BY <1>1 DEF Past
  <2> HIDE DEF inside, asked, s
  <2> QED BY <1>1, <2>1 DEF Locked
<1>11. Raises(v, e, s) \/ \E u \in Task : Wakes(v, e, u, s, TRUE)
  OBVIOUS
<1>6. Locked(e, s, inside \ {t}, asked)
  <2> HIDE DEF inside, asked, s
  <2> QED BY <1>1, <1>11, LockReleased
<1> HIDE DEF p2, o2
<1>7. /\ Linked(e) /\ (\A r \in Sem : r # s => e.value[r] = v.value[r]) /\ e.value[s] <= 1
      /\ \A u \in Task : \/ where(e)[u] = where(v)[u] /\ e.success[u] = v.success[u]
                         \/ where(v)[u] = {s} /\ where(e)[u] = {}
      /\ \A u \in Task : where(e)[u] = {s} => e.value[s] = 0
  <2> HIDE DEF inside, asked, s
  <2>1. CASE Raises(v, e, s)
    BY <1>1, <1>5, <2>1 DEF Raises, Stays
  <2>2. CASE \E u \in Task : Wakes(v, e, u, s, TRUE)
    <3>1. PICK u \in Task : Wakes(v, e, u, s, TRUE)
      BY <2>2
    <3>2. Linked(e) /\ e.value = v.value
      BY <3>1 DEF Wakes
    <3>3. \A x \in Task : \/ where(e)[x] = where(v)[x] /\ e.success[x] = v.success[x]
                          \/ where(v)[x] = {s} /\ where(e)[x] = {}
      BY <1>1, <3>1 DEF Wakes, where
    <3> QED BY <1>5, <3>2, <3>3
  <2> QED BY <1>11, <2>1, <2>2
<1>8. ASSUME NEW m \in ms PROVE Locked(e, m, InsideMutex(p2, m), AskedMutex(p2, m))
  <2>1. CASE m = s
    BY <1>2, <1>6, <2>1
  <2>2. CASE m # s
    <3> DEFINE inner == InsideMutex(p, m)
               out == AskedMutex(p, m)
    <3>1. m \in Sem /\ Locked(v, m, inner, out)
      BY <1>1, Names DEF Kept
    <3> HIDE DEF inside, asked, s
    <3>2. \A u \in Task : \/ where(e)[u] = where(v)[u] /\ e.success[u] = v.success[u]
                          \/ u \notin out /\ where(e)[u] # {m}
      <4>1. \A u \in Task : u \in out => where(v)[u] = {} \/ where(v)[u] = {m}
        BY <3>1 DEF Locked
      <4> HIDE DEF inner, out
      <4> QED BY <1>7, <2>2, <4>1
    <3>3. e.value[m] = v.value[m]
      BY <1>7, <2>2, <3>1
    <3> HIDE DEF inner, out
    <3>4. Locked(e, m, inner, out)
      BY <3>1, <3>2, <3>3, LockKept
    <3> QED BY <1>2, <2>2, <3>4 DEF inner, out
  <2> QED BY <2>1, <2>2
<1>9. ASSUME NEW u \in Task PROVE Seated(ms, us, e, p2, o2, u)
  <2>1. CASE u = t
    <3>1. where(e)[u] = {} /\ o2[Mutex(u)] # u
      BY <1>3, <1>7, <2>1, MsgQueueAssumption
    <3> QED BY <1>2, <2>1, <3>1 DEF Seated, Inner
  <2>2. CASE u # t /\ Mutex(u) = s
    <3>1. o2[Mutex(u)] # u /\ p[u] \notin Inner
      BY <1>3, <1>4, <2>2, MsgQueueAssumption
    <3> QED BY <1>2, <1>7, <2>2, <3>1 DEF Seated, Kept
  <2>3. CASE u # t /\ Mutex(u) # s
    <3>1. o2[Mutex(u)] = o[Mutex(u)]
      BY <1>3, <2>3, Names
    <3> QED BY <1>2, <1>7, <2>3, <3>1 DEF Seated, Kept
  <2> QED BY <2>1, <2>2, <2>3
<1>10. (\A m \in Mutexes : e.value[m] <= 1) /\ \A r \in Sem, u \in Task : where(e)[u] = {r} => e.value[r] = 0
  <2> HIDE DEF s
  <2>1. \A m \in Mutexes : e.value[m] <= 1
    BY <1>7, Names DEF Kept
  <2>2. ASSUME NEW r \in Sem, NEW u \in Task, where(e)[u] = {r} PROVE e.value[r] = 0
    <3>1. CASE r = s
      BY <1>7, <2>2, <3>1
    <3>2. CASE r # s
      <4>1. where(v)[u] = {r}
        BY <1>7, <2>2
      <4> QED BY <1>7, <3>2, <4>1 DEF Kept
    <3> QED BY <3>1, <3>2
  <2> QED BY <2>1, <2>2
<1> QED BY <1>1, <1>2, <1>3, <1>7, <1>8, <1>9, <1>10 DEF Kept, p2, o2-----------------------------------------------------------------------------
(* The counts, of any data.                                                *)
GrantedIn(v, p, t) == p[t] = "granted?" /\ Runs(v, t) /\ v.success[t]
GettersIn(v, p) == {t \in Getters : GrantedIn(v, p, t) \/ p[t] = "copied"}
PuttersIn(p) == {t \in Putters : p[t] \in {"copied", "give"}}
WorkingIn(v, p) == {t \in Task : GrantedIn(v, p, t) \/ p[t] \in {"copied", "give"}}

TotalOf(v, p) == v.value[sem_get] + v.value[sem_put] + Cardinality(WorkingIn(v, p))
InsideOf(v, p) == v.value[sem_get] + Cardinality(GettersIn(v, p)) + Cardinality(PuttersIn(p))

(***************************************************************************)
(* The counts now and after a step.                                        *)
(***************************************************************************)
LEMMA CountsEqual ==
  /\ Inside = InsideOf(w, pc) /\ Inside' = InsideOf(w', pc')
  /\ {t \in Task : Working(t)} = WorkingIn(w, pc)
BY DEF Inside, InsideOf, GettersIn, PuttersIn, WorkingIn, Working, Granted, GrantedIn, At

(***************************************************************************)
(* The tasks that are counted are finitely many.                           *)
(***************************************************************************)
LEMMA Counted ==
  ASSUME NEW v, NEW p
  PROVE  /\ IsFiniteSet(GettersIn(v, p)) /\ Cardinality(GettersIn(v, p)) \in Nat
         /\ IsFiniteSet(PuttersIn(p)) /\ Cardinality(PuttersIn(p)) \in Nat
         /\ IsFiniteSet(WorkingIn(v, p)) /\ Cardinality(WorkingIn(v, p)) \in Nat
<1>1. GettersIn(v, p) \subseteq Task /\ PuttersIn(p) \subseteq Task /\ WorkingIn(v, p) \subseteq Task
  BY MsgQueueAssumption DEF GettersIn, PuttersIn, WorkingIn
<1>2. ASSUME NEW S, S \subseteq Task PROVE IsFiniteSet(S) /\ Cardinality(S) \in Nat
  <2>1. IsFiniteSet(Task) /\ S \in SUBSET Task
    BY <1>2, MsgQueueAssumption
  <2>2. IsFiniteSet(S)
    BY <2>1, FS_Subset
  <2> QED BY <2>2, FS_CardinalityType
<1> QED BY <1>1, <1>2

(***************************************************************************)
(* The counts are numbers.                                                 *)
(***************************************************************************)
LEMMA CountTypes ==
  ASSUME NEW v, Linked(v), NEW p
  PROVE  /\ v.value[sem_get] \in Nat /\ v.value[sem_put] \in Nat
         /\ TotalOf(v, p) \in Nat /\ InsideOf(v, p) \in Nat
<1>1. v.value[sem_get] \in Nat /\ v.value[sem_put] \in Nat
  BY RecordsFields, Names DEF Linked, Counters
<1> QED BY <1>1, Counted DEF TotalOf, InsideOf

(***************************************************************************)
(* What is inside leaves room for the free places, and for the one that a  *)
(* putter was granted.                                                     *)
(***************************************************************************)
LEMMA Room ==
  ASSUME NEW v, Linked(v), NEW p
  PROVE  /\ InsideOf(v, p) + v.value[sem_put] <= TotalOf(v, p)
         /\ \A t \in Putters : GrantedIn(v, p, t) => InsideOf(v, p) + 1 <= TotalOf(v, p)
         /\ \A t \in GettersIn(v, p) : InsideOf(v, p) >= 1
         /\ \A t \in GettersIn(v, p), u \in PuttersIn(p) : InsideOf(v, p) >= 2
<1> DEFINE g == GettersIn(v, p)
           q == PuttersIn(p)
           k == WorkingIn(v, p)
           a == v.value[sem_get]
           b == v.value[sem_put]
<1>1. /\ a \in Nat /\ b \in Nat /\ TotalOf(v, p) = a + b + Cardinality(k)
      /\ InsideOf(v, p) = a + Cardinality(g) + Cardinality(q)
  BY CountTypes DEF TotalOf, InsideOf
<1>2. /\ g \cap q = {} /\ g \cup q \subseteq k
      /\ \A t \in Putters : GrantedIn(v, p, t) => t \notin g \cup q /\ t \in k
  BY MsgQueueAssumption DEF GettersIn, PuttersIn, WorkingIn, GrantedIn
<1>3. /\ IsFiniteSet(g) /\ IsFiniteSet(q) /\ IsFiniteSet(k)
      /\ Cardinality(g) \in Nat /\ Cardinality(q) \in Nat /\ Cardinality(k) \in Nat
  BY Counted
<1> HIDE DEF g, q, k, a, b
<1>4. IsFiniteSet(g \cup q) /\ Cardinality(g \cup q) = Cardinality(g) + Cardinality(q)
  <2>1. IsFiniteSet(g \cup q) /\ Cardinality(g \cup q) = Cardinality(g) + Cardinality(q) - Cardinality(g \cap q)
    BY <1>3, FS_Union
  <2>2. Cardinality(g \cap q) = 0
    BY <1>2, FS_EmptySet
  <2> QED BY <1>3, <2>1, <2>2
<1>5. Cardinality(g \cup q) <= Cardinality(k)
  BY <1>2, <1>3, FS_Subset
<1>6. InsideOf(v, p) + b <= TotalOf(v, p)
  BY <1>1, <1>3, <1>4, <1>5
<1>7. ASSUME NEW t \in Putters, GrantedIn(v, p, t) PROVE InsideOf(v, p) + 1 <= TotalOf(v, p)
  <2> DEFINE h == (g \cup q) \cup {t}
  <2>1. t \notin g \cup q /\ h \subseteq k
    BY <1>2, <1>7
  <2>2. Cardinality(h) = Cardinality(g \cup q) + 1
    BY <1>4, <2>1, FS_AddElement
  <2> HIDE DEF h
  <2>3. Cardinality(h) <= Cardinality(k)
    BY <1>3, <2>1, FS_Subset
  <2> QED BY <1>1, <1>3, <1>4, <2>2, <2>3
<1>8. ASSUME NEW S, IsFiniteSet(S), Cardinality(S) \in Nat, NEW x \in S PROVE Cardinality(S) >= 1
  <2>1. Cardinality(S) # 0
    BY <1>8, FS_EmptySet
  <2> QED BY <1>8, <2>1
<1>9. ASSUME NEW t \in g PROVE InsideOf(v, p) >= 1
  <2>1. Cardinality(g) >= 1
    BY <1>3, <1>8
  <2> QED BY <1>1, <1>3, <2>1
<1>10. ASSUME NEW t \in g, NEW u \in q PROVE InsideOf(v, p) >= 2
  <2>1. Cardinality(g) >= 1
    BY <1>3, <1>8
  <2>2. Cardinality(q) >= 1
    BY <1>3, <1>8
  <2> QED BY <1>1, <1>3, <2>1, <2>2
<1> QED BY <1>6, <1>7, <1>9, <1>10 DEF g, q, b

(***************************************************************************)
(* A step that moves nobody in or out of the counts.                       *)
(***************************************************************************)
LEMMA CountsSame ==
  ASSUME NEW v, NEW p, NEW e, NEW q,
         \A s \in Counters : e.value[s] = v.value[s],
         \A t \in Task : /\ GrantedIn(e, q, t) <=> GrantedIn(v, p, t)
                         /\ q[t] = "copied" <=> p[t] = "copied"
                         /\ q[t] = "give" <=> p[t] = "give"
  PROVE  TotalOf(e, q) = TotalOf(v, p) /\ InsideOf(e, q) = InsideOf(v, p)
<1>1. e.value[sem_get] = v.value[sem_get] /\ e.value[sem_put] = v.value[sem_put]
  BY DEF Counters
<1>2. GettersIn(e, q) = GettersIn(v, p) /\ PuttersIn(q) = PuttersIn(p) /\ WorkingIn(e, q) = WorkingIn(v, p)
  BY MsgQueueAssumption DEF GettersIn, PuttersIn, WorkingIn
<1> QED BY <1>1, <1>2 DEF TotalOf, InsideOf

(***************************************************************************)
(* A task is granted a message or a place without waiting.                 *)
(***************************************************************************)
LEMMA CountsTaken ==
  ASSUME NEW v, Linked(v), NEW p \in [Task -> Places], NEW t \in Task, p[t] = "ask", where(v)[t] = {},
         NEW e, Passes(v, e, t, Takes(t))
  PROVE  LET q == [p EXCEPT ![t] = "granted?"]
         IN  TotalOf(e, q) = TotalOf(v, p) /\ InsideOf(e, q) = InsideOf(v, p)
<1> DEFINE q == [p EXCEPT ![t] = "granted?"]
<1>1. /\ v.value \in [Sem -> Nat] /\ v.success \in [Task -> BOOLEAN] /\ where(e) = where(v)
      /\ Sem = Counters \cup Mutexes
  BY RecordsFields, Names DEF Linked, Passes, Stays
<1>2. q[t] = "granted?" /\ \A u \in Task : u # t => q[u] = p[u]
  OBVIOUS
<1> HIDE DEF q
<1>3. e.success[t] /\ \A u \in Task : u # t => e.success[u] = v.success[u]
  BY <1>1 DEF Passes
<1>4. GrantedIn(e, q, t) /\ ~ GrantedIn(v, p, t)
      /\ \A u \in Task : u # t => (GrantedIn(e, q, u) <=> GrantedIn(v, p, u))
  BY <1>1, <1>2, <1>3, RunsNowhere DEF GrantedIn
<1>5. WorkingIn(e, q) = WorkingIn(v, p) \cup {t} /\ t \notin WorkingIn(v, p) /\ PuttersIn(q) = PuttersIn(p)
  BY <1>2, <1>4, MsgQueueAssumption DEF WorkingIn, PuttersIn
<1>6. Cardinality(WorkingIn(e, q)) = Cardinality(WorkingIn(v, p)) + 1
  BY <1>5, Counted, FS_AddElement
<1>7. CASE t \in Getters
  <2>1. Takes(t) = sem_get /\ e.value[sem_get] = v.value[sem_get] - 1 /\ e.value[sem_put] = v.value[sem_put]
    BY <1>1, <1>7, Names DEF Passes, Takes, Counters
  <2>2. GettersIn(e, q) = GettersIn(v, p) \cup {t} /\ t \notin GettersIn(v, p)
    BY <1>2, <1>4, <1>7, MsgQueueAssumption DEF GettersIn
  <2>3. Cardinality(GettersIn(e, q)) = Cardinality(GettersIn(v, p)) + 1
    BY <2>2, Counted, FS_AddElement
  <2>4. /\ v.value[sem_get] \in Nat /\ v.value[sem_put] \in Nat
        /\ Cardinality(WorkingIn(v, p)) \in Nat /\ Cardinality(GettersIn(v, p)) \in Nat
        /\ Cardinality(PuttersIn(p)) \in Nat
    BY Counted, CountTypes
  <2>5. TotalOf(e, q) = TotalOf(v, p)
    BY <1>6, <2>1, <2>4 DEF TotalOf
  <2>6. InsideOf(e, q) = InsideOf(v, p)
    BY <1>5, <2>1, <2>3, <2>4 DEF InsideOf
  <2> QED BY <2>5, <2>6 DEF q
<1>8. CASE t \notin Getters
  <2>1. Takes(t) = sem_put /\ e.value[sem_get] = v.value[sem_get] /\ e.value[sem_put] = v.value[sem_put] - 1
    BY <1>1, <1>8, Names DEF Passes, Takes, Counters
  <2>2. GettersIn(e, q) = GettersIn(v, p)
    BY <1>2, <1>4, <1>8, MsgQueueAssumption DEF GettersIn
  <2> QED BY <1>5, <1>6, <2>1, <2>2, Counted, CountTypes DEF TotalOf, InsideOf, q
<1> QED BY <1>7, <1>8

(* SignalSem: the count goes up, or one task is woken.                     *)
Hands(v, e, s) == Raises(v, e, s) \/ \E u \in Task : Wakes(v, e, u, s, TRUE)

(***************************************************************************)
(* A signal gives a message or a place, to a task or to the count.         *)
(***************************************************************************)
LEMMA CountsGiven ==
  ASSUME NEW ms, NEW us, NEW v, NEW p, NEW o, Kept(ms, us, v, p, o), NEW s \in Counters,
         NEW e, Hands(v, e, s)
  PROVE  /\ TotalOf(e, p) = TotalOf(v, p) + 1
         /\ InsideOf(e, p) = IF s = sem_get THEN InsideOf(v, p) + 1 ELSE InsideOf(v, p)
<1>1. /\ Linked(v) /\ v.value \in [Sem -> Nat] /\ v.success \in [Task -> BOOLEAN]
      /\ Sem = Counters \cup Mutexes
  BY RecordsFields, Names DEF Kept, Linked
<1>2. CASE Raises(v, e, s)
  <2>1. e.success = v.success /\ where(e) = where(v)
    BY <1>2 DEF Raises, Stays
  <2>2. \A t \in Task : GrantedIn(e, p, t) <=> GrantedIn(v, p, t)
    BY <2>1, RunsNowhere DEF GrantedIn
  <2>3. GettersIn(e, p) = GettersIn(v, p) /\ WorkingIn(e, p) = WorkingIn(v, p)
    BY <2>2, MsgQueueAssumption DEF GettersIn, WorkingIn
  <2>4. e.value[s] = v.value[s] + 1 /\ \A r \in Counters : r # s => e.value[r] = v.value[r]
    BY <1>1, <1>2 DEF Raises
  <2>5. CASE s = sem_get
    <3>1. e.value[sem_get] = v.value[sem_get] + 1 /\ e.value[sem_put] = v.value[sem_put]
      BY <2>4, <2>5, Names DEF Counters
    <3> QED BY <1>1, <2>3, <2>5, <3>1, Counted, CountTypes DEF TotalOf, InsideOf
  <2>6. CASE s # sem_get
    <3>1. e.value[sem_get] = v.value[sem_get] /\ e.value[sem_put] = v.value[sem_put] + 1
      BY <2>4, <2>6, Names DEF Counters
    <3> QED BY <1>1, <2>3, <2>6, <3>1, Counted, CountTypes DEF TotalOf, InsideOf
  <2> QED BY <2>5, <2>6
<1>3. CASE \E u \in Task : Wakes(v, e, u, s, TRUE)
  <2>1. PICK u \in Task : Wakes(v, e, u, s, TRUE)
    BY <1>3
  <2>2. /\ where(v)[u] = {s} /\ where(e)[u] = {} /\ e.value = v.value /\ e.success[u]
        /\ \A t \in Task : t # u => where(e)[t] = where(v)[t] /\ e.success[t] = v.success[t]
    BY <1>1, <2>1 DEF Wakes, where
  <2>3. p[u] = "granted?" /\ s = Takes(u)
    BY <2>2, WaitingWhere, Names
  <2>4. /\ GrantedIn(e, p, u) /\ ~ GrantedIn(v, p, u)
        /\ \A t \in Task : t # u => (GrantedIn(e, p, t) <=> GrantedIn(v, p, t))
    BY <2>2, <2>3, RunsNowhere DEF GrantedIn
  <2>5. WorkingIn(e, p) = WorkingIn(v, p) \cup {u} /\ u \notin WorkingIn(v, p)
    BY <2>3, <2>4 DEF WorkingIn
  <2>6. Cardinality(WorkingIn(e, p)) = Cardinality(WorkingIn(v, p)) + 1
    BY <2>5, Counted, FS_AddElement
  <2>7. CASE s = sem_get
    <3>1. u \in Getters
      BY <2>3, <2>7, Names DEF Takes
    <3>2. GettersIn(e, p) = GettersIn(v, p) \cup {u} /\ u \notin GettersIn(v, p)
      BY <2>3, <2>4, <3>1, MsgQueueAssumption DEF GettersIn
    <3>3. Cardinality(GettersIn(e, p)) = Cardinality(GettersIn(v, p)) + 1
      BY <3>2, Counted, FS_AddElement
    <3> QED BY <1>1, <2>2, <2>6, <2>7, <3>3, Counted, CountTypes DEF TotalOf, InsideOf
  <2>8. CASE s # sem_get
    <3>1. u \notin Getters
      BY <2>3, <2>8 DEF Takes
    <3>2. GettersIn(e, p) = GettersIn(v, p)
      BY <2>4, <3>1, MsgQueueAssumption DEF GettersIn
    <3> QED BY <1>1, <2>2, <2>6, <2>8, <3>2, Counted, CountTypes DEF TotalOf, InsideOf
  <2> QED BY <2>7, <2>8
<1> QED BY <1>2, <1>3 DEF Hands

(***************************************************************************)
(* A message is copied, in or out.                                         *)
(***************************************************************************)
LEMMA CountsCopied ==
  ASSUME NEW v, Linked(v), NEW p \in [Task -> Places], NEW t \in Task, GrantedIn(v, p, t),
         NEW e, Stays(v, e), e.value = v.value, e.success = [v.success EXCEPT ![t] = FALSE]
  PROVE  LET q == [p EXCEPT ![t] = "copied"]
         IN  /\ TotalOf(e, q) = TotalOf(v, p)
             /\ InsideOf(e, q) = IF t \in Getters THEN InsideOf(v, p) ELSE InsideOf(v, p) + 1
<1> DEFINE q == [p EXCEPT ![t] = "copied"]
<1>1. v.success \in [Task -> BOOLEAN] /\ where(e) = where(v)
  BY RecordsFields DEF Linked, Stays
<1>2. q[t] = "copied" /\ (\A u \in Task : u # t => q[u] = p[u]) /\ p[t] = "granted?"
  BY DEF GrantedIn
<1> HIDE DEF q
<1>3. \A u \in Task : u # t => (GrantedIn(e, q, u) <=> GrantedIn(v, p, u))
  BY <1>1, <1>2, RunsNowhere DEF GrantedIn
<1>4. WorkingIn(e, q) = WorkingIn(v, p) /\ GettersIn(e, q) = GettersIn(v, p)
  BY <1>2, <1>3, MsgQueueAssumption DEF WorkingIn, GettersIn
<1>5. CASE t \in Getters
  <2>1. PuttersIn(q) = PuttersIn(p)
    BY <1>2, <1>5, MsgQueueAssumption DEF PuttersIn
  <2> QED BY <1>4, <1>5, <2>1 DEF TotalOf, InsideOf, q
<1>6. CASE t \notin Getters
  <2>1. PuttersIn(q) = PuttersIn(p) \cup {t} /\ t \notin PuttersIn(p)
    BY <1>2, <1>6, MsgQueueAssumption DEF PuttersIn
  <2>2. Cardinality(PuttersIn(q)) = Cardinality(PuttersIn(p)) + 1
    BY <2>1, Counted, FS_AddElement
  <2> QED BY <1>4, <1>6, <2>2, Counted, CountTypes DEF TotalOf, InsideOf, q
<1> QED BY <1>5, <1>6

(***************************************************************************)
(* head or tail moves on.                                                  *)
(***************************************************************************)
LEMMA CountsAdvanced ==
  ASSUME NEW v, Linked(v), NEW p \in [Task -> Places], NEW t \in Task, p[t] = "copied"
  PROVE  LET q == [p EXCEPT ![t] = "give"]
         IN  /\ TotalOf(v, q) = TotalOf(v, p)
             /\ InsideOf(v, q) = IF t \in Getters THEN InsideOf(v, p) - 1 ELSE InsideOf(v, p)
<1> DEFINE q == [p EXCEPT ![t] = "give"]
<1>1. q[t] = "give" /\ \A u \in Task : u # t => q[u] = p[u]
  OBVIOUS
<1> HIDE DEF q
<1>2. \A u \in Task : GrantedIn(v, q, u) <=> GrantedIn(v, p, u)
  BY <1>1 DEF GrantedIn
<1>3. WorkingIn(v, q) = WorkingIn(v, p) /\ PuttersIn(q) = PuttersIn(p)
  BY <1>1, <1>2, MsgQueueAssumption DEF WorkingIn, PuttersIn
<1>4. CASE t \in Getters
  <2>1. GettersIn(v, q) = GettersIn(v, p) \ {t} /\ t \in GettersIn(v, p)
    BY <1>1, <1>2, <1>4, MsgQueueAssumption DEF GettersIn, GrantedIn
  <2>2. Cardinality(GettersIn(v, q)) = Cardinality(GettersIn(v, p)) - 1
    BY <2>1, Counted, FS_RemoveElement
  <2> QED BY <1>3, <1>4, <2>2, Counted, CountTypes DEF TotalOf, InsideOf, q
<1>5. CASE t \notin Getters
  <2>1. GettersIn(v, q) = GettersIn(v, p)
    BY <1>1, <1>2, <1>5, MsgQueueAssumption DEF GettersIn
  <2> QED BY <1>3, <1>5, <2>1 DEF TotalOf, InsideOf, q
<1> QED BY <1>4, <1>5

(***************************************************************************)
(* The task is about to give, and no longer counted.                       *)
(***************************************************************************)
LEMMA CountsLeft ==
  ASSUME NEW v, Linked(v), NEW p \in [Task -> Places], NEW t \in Task, p[t] = "give"
  PROVE  LET q == [p EXCEPT ![t] = "leave"]
         IN  /\ TotalOf(v, q) = TotalOf(v, p) - 1
             /\ InsideOf(v, q) = IF t \in Getters THEN InsideOf(v, p) ELSE InsideOf(v, p) - 1
<1> DEFINE q == [p EXCEPT ![t] = "leave"]
<1>1. q[t] = "leave" /\ \A u \in Task : u # t => q[u] = p[u]
  OBVIOUS
<1> HIDE DEF q
<1>2. \A u \in Task : GrantedIn(v, q, u) <=> GrantedIn(v, p, u)
  BY <1>1 DEF GrantedIn
<1>3. /\ WorkingIn(v, q) = WorkingIn(v, p) \ {t} /\ t \in WorkingIn(v, p)
      /\ GettersIn(v, q) = GettersIn(v, p)
  BY <1>1, <1>2, MsgQueueAssumption DEF WorkingIn, GettersIn, GrantedIn
<1>4. Cardinality(WorkingIn(v, q)) = Cardinality(WorkingIn(v, p)) - 1
  BY <1>3, Counted, FS_RemoveElement
<1>5. CASE t \in Getters
  <2>1. PuttersIn(q) = PuttersIn(p)
    BY <1>1, <1>5, MsgQueueAssumption DEF PuttersIn
  <2> QED BY <1>3, <1>4, <1>5, <2>1, Counted, CountTypes DEF TotalOf, InsideOf, q
<1>6. CASE t \notin Getters
  <2>1. PuttersIn(q) = PuttersIn(p) \ {t} /\ t \in PuttersIn(p)
    BY <1>1, <1>6, MsgQueueAssumption DEF PuttersIn
  <2>2. Cardinality(PuttersIn(q)) = Cardinality(PuttersIn(p)) - 1
    BY <2>1, Counted, FS_RemoveElement
  <2> QED BY <1>3, <1>4, <1>6, <2>2, Counted, CountTypes DEF TotalOf, InsideOf, q
<1> QED BY <1>5, <1>6-----------------------------------------------------------------------------
CallRecords == [msecs : Waits, msg : Msg]

(* tail is k cells behind head.                                            *)
Behind(tl, hd, k) == tl = (hd + k) % msg_max

(* The messages inside without the one that is being copied in: tail has   *)
(* not moved past that one yet.                                            *)
StoredOf(v, p) == IF \E t \in Putters : p[t] = "copied" THEN InsideOf(v, p) - 1 ELSE InsideOf(v, p)

Typed ==
  /\ users \subseteq Task \cup {Device} /\ Disciplined
  /\ IsBuffer(buf, msg_max, Msg) /\ head \in Index /\ tail \in Index
  /\ call \in [Task -> CallRecords]
  /\ handed \in [task : Task \cup {NoTask}, items : Seq(Msg)]

Amounts ==
  /\ TotalOf(w, pc) = msg_max
  /\ Behind(tail, head, StoredOf(w, pc))
  /\ \A t \in Getters : pc[t] = "copied" => call[t].msg = buf[head]

IInv == Kept(mutexes, users, w, pc, owner) /\ Typed /\ Amounts

(* What the steps do that change nothing of what is inside.                *)
Stutters == IInv' /\ Contents' = Contents /\ handed' = handed

(***************************************************************************)
(* A set of at most one element.                                           *)
(***************************************************************************)
LEMMA AtMostOne ==
  ASSUME NEW S, IsFiniteSet(S), Cardinality(S) <= 1, NEW x \in S, NEW y \in S
  PROVE  x = y
<1>1. Cardinality(S) \in Nat
  BY FS_CardinalityType
<1>2. Cardinality(S) # 0
  BY FS_EmptySet
<1>3. Cardinality(S) = 1
  BY <1>1, <1>2
<1>4. PICK z : S = {z}
  BY <1>3, FS_Singleton
<1> QED BY <1>4

(***************************************************************************)
(* One task of each side at a time is past its mutex, or is the only one   *)
(* that uses its side; and a device that puts messages puts them alone.    *)
(***************************************************************************)
LEMMA OneEach ==
  ASSUME IInv
  PROVE  /\ \A t, u \in Getters : pc[t] \in Inner /\ pc[u] \in Inner => t = u
         /\ \A t, u \in Putters : pc[t] \in Inner /\ pc[u] \in Inner => t = u
         /\ Device \in users => \A t \in Putters : pc[t] \notin Inner
<1>1. /\ Getters \subseteq Task /\ Putters \subseteq Task /\ Device \notin Task
      /\ \A t \in Getters : Mutex(t) = mutex_get
      /\ \A t \in Putters : Mutex(t) = mutex_put
  BY MsgQueueAssumption DEF Mutex
<1>2. \A t \in Task : /\ Mutex(t) \in mutexes => (pc[t] \in Inner <=> owner[Mutex(t)] = t)
                      /\ pc[t] \in Inner => t \in users
  BY DEF IInv, Kept, Seated, Inner
<1>3. IsFiniteSet(users \cap Getters) /\ IsFiniteSet(users \cap (Putters \cup {Device}))
  <2>1. IsFiniteSet(Task) /\ IsFiniteSet(Task \cup {Device})
    BY MsgQueueAssumption, FS_AddElement
  <2>2. users \cap Getters \in SUBSET Task /\ users \cap (Putters \cup {Device}) \in SUBSET (Task \cup {Device})
    BY <1>1
  <2> QED BY <2>1, <2>2, FS_Subset
<1>4. ASSUME NEW t \in Getters, NEW u \in Getters, pc[t] \in Inner, pc[u] \in Inner PROVE t = u
  <2>1. CASE mutex_get \in mutexes
    BY <1>1, <1>2, <1>4, <2>1
  <2>2. CASE mutex_get \notin mutexes
    <3>1. Cardinality(users \cap Getters) <= 1
      BY <2>2 DEF IInv, Typed, Disciplined
    <3>2. t \in users \cap Getters /\ u \in users \cap Getters
      BY <1>1, <1>2, <1>4
    <3> QED BY <1>3, <3>1, <3>2, AtMostOne
  <2> QED BY <2>1, <2>2
<1>5. ASSUME NEW t \in Putters, NEW u \in Putters \cup {Device}, pc[t] \in Inner,
             u \in Putters => pc[u] \in Inner, u = Device => Device \in users
      PROVE  t = u
  <2>1. CASE mutex_put \in mutexes
    <3>1. Device \notin users
      BY <2>1 DEF IInv, Typed, Disciplined
    <3>2. u \in Putters
      BY <1>5, <3>1
    <3> QED BY <1>1, <1>2, <1>5, <2>1, <3>2
  <2>2. CASE mutex_put \notin mutexes
    <3>1. Cardinality(users \cap (Putters \cup {Device})) <= 1
      BY <2>2 DEF IInv, Typed, Disciplined
    <3>2. t \in users \cap (Putters \cup {Device}) /\ u \in users \cap (Putters \cup {Device})
      BY <1>1, <1>2, <1>5
    <3> QED BY <1>3, <3>1, <3>2, AtMostOne
  <2> QED BY <2>1, <2>2
<1>6. \A t, u \in Putters : pc[t] \in Inner /\ pc[u] \in Inner => t = u
  BY <1>1, <1>5
<1>7. Device \in users => \A t \in Putters : pc[t] \notin Inner
  BY <1>1, <1>5
<1> QED BY <1>4, <1>6, <1>7

(***************************************************************************)
(* A step that leaves the buffer and the counts alone.                     *)
(***************************************************************************)
LEMMA CountsKept ==
  ASSUME IInv, UNCHANGED <<created, buffer, handed>>, Kept(mutexes, users, w', pc', owner'),
         call' \in [Task -> CallRecords],
         TotalOf(w', pc') = TotalOf(w, pc), InsideOf(w', pc') = InsideOf(w, pc),
         \A u \in Putters : pc'[u] = "copied" <=> pc[u] = "copied",
         \A u \in Getters : pc'[u] = "copied" => call'[u].msg = buf[head]
  PROVE  Stutters
<1>1. /\ mutexes' = mutexes /\ users' = users /\ buf' = buf /\ head' = head /\ tail' = tail
      /\ handed' = handed
  BY DEF created, buffer
<1>2. Inside' = Inside
  BY CountsEqual
<1>3. Contents' = Contents
  BY <1>1, <1>2 DEF Contents
<1>4. Typed'
  BY <1>1 DEF IInv, Typed, Disciplined
<1>5. StoredOf(w', pc') = StoredOf(w, pc)
  BY DEF StoredOf
<1>6. Amounts'
  <2>1. Behind(tail', head', StoredOf(w', pc'))
    BY <1>1, <1>5 DEF IInv, Amounts
  <2>2. \A t \in Getters : pc'[t] = "copied" => call'[t].msg = buf'[head']
    BY <1>1
  <2>3. TotalOf(w', pc') = msg_max
    BY DEF IInv, Amounts
  <2> QED BY <2>1, <2>2, <2>3 DEF Amounts
<1>7. Kept(mutexes', users', w', pc', owner')
  BY <1>1
<1> QED BY <1>1, <1>3, <1>4, <1>6, <1>7 DEF IInv, Stutters

(***************************************************************************)
(* The same, of a step that copies nothing.                                *)
(***************************************************************************)
LEMMA BufferKept ==
  ASSUME IInv, UNCHANGED <<created, buffer, handed>>, Kept(mutexes, users, w', pc', owner'),
         call' \in [Task -> CallRecords],
         TotalOf(w', pc') = TotalOf(w, pc), InsideOf(w', pc') = InsideOf(w, pc),
         \A u \in Task : pc'[u] = "copied" <=> pc[u] = "copied",
         \A u \in Task : pc[u] = "copied" => call'[u] = call[u]
  PROVE  Stutters
<1>1. Putters \subseteq Task /\ Getters \subseteq Task
  BY MsgQueueAssumption
<1>2. \A u \in Getters : pc'[u] = "copied" => call'[u].msg = buf[head]
  BY <1>1 DEF IInv, Amounts
<1> QED BY <1>1, <1>2, CountsKept

(***************************************************************************)
(* A task runs if it waits nowhere.                                        *)
(***************************************************************************)
LEMMA AtNowhere ==
  ASSUME NEW t \in Task, NEW c, At(t, c)
  PROVE  pc[t] = c /\ where(w)[t] = {}
BY RunsNowhere DEF At

(***************************************************************************)
(* What a call changes of its arguments.                                   *)
(***************************************************************************)
LEMMA CallFields ==
  /\ AnyMsg \in Msg /\ NoCall \in CallRecords
  /\ \A n \in Waits, m \in Msg : [msecs |-> n, msg |-> m] \in CallRecords
  /\ \A r \in CallRecords : r.msecs \in Waits /\ r.msg \in Msg
  /\ \A r \in CallRecords, m \in Msg : [r EXCEPT !.msg = m] \in CallRecords /\ [r EXCEPT !.msg = m].msg = m
<1>1. AnyMsg \in Msg
  BY MsgQueueAssumption DEF AnyMsg
<1>2. 0 \in Waits
  BY DEF Waits
<1>3. ASSUME NEW n \in Waits, NEW m \in Msg PROVE [msecs |-> n, msg |-> m] \in CallRecords
  BY DEF CallRecords
<1>4. NoCall \in CallRecords
  BY <1>1, <1>2, <1>3 DEF NoCall
<1>5. ASSUME NEW r \in CallRecords
      PROVE  /\ r.msecs \in Waits /\ r.msg \in Msg
             /\ \A m \in Msg : [r EXCEPT !.msg = m] \in CallRecords /\ [r EXCEPT !.msg = m].msg = m
  BY DEF CallRecords
<1> QED BY <1>1, <1>3, <1>4, <1>5(***************************************************************************)
(* The data that the steps start from.                                     *)
(***************************************************************************)
LEMMA Data ==
  ASSUME IInv
  PROVE  /\ Kept(mutexes, users, w, pc, owner) /\ Linked(w) /\ pc \in [Task -> Places]
         /\ call \in [Task -> CallRecords] /\ w.value \in [Sem -> Nat]
         /\ w.success \in [Task -> BOOLEAN]
BY RecordsFields DEF IInv, Kept, Linked, Typed

(***************************************************************************)
(* A task begins a call.                                                   *)
(***************************************************************************)
LEMMA CallKeeps ==
  ASSUME IInv, NEW t \in Task, NEW n \in Waits, NEW m \in Msg, Call(t, n, m)
  PROVE  Stutters
<1>1. pc[t] = "idle" /\ where(w)[t] = {} /\ t \in users
  BY AtNowhere DEF Call
<1> DEFINE r == [msecs |-> n, msg |-> m]
<1>2. call' = [call EXCEPT ![t] = r] /\ UNCHANGED <<created, owner, buffer, handed>>
  BY DEF Call
<1>3. r \in CallRecords
  BY CallFields
<1> HIDE DEF r
<1>4. call' \in [Task -> CallRecords] /\ \A u \in Task : u # t => call'[u] = call[u]
  BY <1>2, <1>3, Data
<1>5. CASE Mutex(t) \in mutexes
  <2>1. w' = WaitSem(w, t, Mutex(t), n) /\ pc' = [pc EXCEPT ![t] = "enter"]
    BY <1>5 DEF Call, GoTo
  <2>2. \/ Passes(w, w', t, Mutex(t))
        \/ Fails(w, w', t, Mutex(t))
        \/ w.value[Mutex(t)] = 0 /\ Joins(w, w', t, Mutex(t))
    <3>1. Mutex(t) \in Sem
      BY Names
    <3> QED BY <1>1, <2>1, <3>1, Data, WaitSemEffect
  <2>3. Kept(mutexes, users, w', pc', owner')
    <3>1. Kept(mutexes, users, w', [pc EXCEPT ![t] = "enter"], owner)
      BY <1>1, <1>5, <2>2, Data, AsksMutex
    <3> QED BY <1>2, <2>1, <3>1
  <2>4. pc'[t] = "enter" /\ \A u \in Task : u # t => pc'[u] = pc[u]
    BY <2>1, Data
  <2>5. \A s \in Counters : w'.value[s] = w.value[s]
    <3>1. Mutex(t) \notin Counters /\ Counters \subseteq Sem
      BY Names
    <3> QED BY <2>2, <3>1, Data DEF Passes, Fails, Joins
  <2>6. \A u \in Task : u # t => where(w')[u] = where(w)[u] /\ w'.success[u] = w.success[u]
    BY <2>2, Data DEF Passes, Fails, Joins, Stays, where
  <2>7. \A u \in Task : /\ GrantedIn(w', pc', u) <=> GrantedIn(w, pc, u)
                        /\ pc'[u] = "copied" <=> pc[u] = "copied"
                        /\ pc'[u] = "give" <=> pc[u] = "give"
    BY <1>1, <2>4, <2>6, RunsNowhere DEF GrantedIn
  <2>8. TotalOf(w', pc') = TotalOf(w, pc) /\ InsideOf(w', pc') = InsideOf(w, pc)
    BY <2>5, <2>7, CountsSame
  <2> QED BY <1>1, <1>2, <1>4, <2>3, <2>7, <2>8, BufferKept
<1>6. CASE Mutex(t) \notin mutexes
  <2>1. w' = w /\ pc' = [pc EXCEPT ![t] = "ask"]
    BY <1>6 DEF Call, GoTo
  <2>3. Kept(mutexes, users, w', pc', owner')
    BY <1>1, <1>2, <1>6, <2>1, Data, MovesFreely
  <2>4. pc'[t] = "ask" /\ \A u \in Task : u # t => pc'[u] = pc[u]
    BY <2>1, Data
  <2>7. \A u \in Task : /\ GrantedIn(w', pc', u) <=> GrantedIn(w, pc, u)
                        /\ pc'[u] = "copied" <=> pc[u] = "copied"
                        /\ pc'[u] = "give" <=> pc[u] = "give"
    BY <1>1, <2>1, <2>4 DEF GrantedIn
  <2>9. \A s \in Counters : w'.value[s] = w.value[s]
    BY <2>1
  <2>8. TotalOf(w', pc') = TotalOf(w, pc) /\ InsideOf(w', pc') = InsideOf(w, pc)
    BY <2>7, <2>9, CountsSame
  <2> QED BY <1>1, <1>2, <1>4, <2>3, <2>7, <2>8, BufferKept
<1> QED BY <1>5, <1>6

(***************************************************************************)
(* The way back of EnterMutex.                                             *)
(***************************************************************************)
LEMMA EnteredKeeps ==
  ASSUME IInv, NEW t \in Task, Entered(t)
  PROVE  Stutters
<1>1. pc[t] = "enter" /\ where(w)[t] = {}
  BY AtNowhere DEF Entered
<1>2. w' = Returned(w, t) /\ UNCHANGED <<created, buffer, handed>>
  BY DEF Entered
<1>3. Stays(w, w') /\ w'.value = w.value /\ w'.success = [w.success EXCEPT ![t] = FALSE]
  BY <1>2, Data, ReturnedEffect
<1>4. Kept(mutexes, users, w', pc', owner')
  <2>1. /\ w.success[t] => Kept(mutexes, users, w', [pc EXCEPT ![t] = "ask"], [owner EXCEPT ![Mutex(t)] = t])
        /\ ~ w.success[t] => Kept(mutexes, users, w', [pc EXCEPT ![t] = "idle"], owner)
    BY <1>1, <1>3, Data, GetsMutex
  <2> QED BY <2>1 DEF Entered, GoTo
<1>5. PICK c \in {"ask", "idle"} : pc' = [pc EXCEPT ![t] = c]
  BY DEF Entered, GoTo
<1>6. pc'[t] = c /\ \A u \in Task : u # t => pc'[u] = pc[u]
  BY <1>5, Data
<1>7. \A u \in Task : u # t => w'.success[u] = w.success[u]
  BY <1>3, Data
<1>8. \A u \in Task : /\ GrantedIn(w', pc', u) <=> GrantedIn(w, pc, u)
                      /\ pc'[u] = "copied" <=> pc[u] = "copied"
                      /\ pc'[u] = "give" <=> pc[u] = "give"
  BY <1>1, <1>3, <1>6, <1>7, RunsNowhere DEF GrantedIn, Stays
<1>9. TotalOf(w', pc') = TotalOf(w, pc) /\ InsideOf(w', pc') = InsideOf(w, pc)
  BY <1>3, <1>8, CountsSame
<1>10. call' \in [Task -> CallRecords] /\ \A u \in Task : u # t => call'[u] = call[u]
  <2>1. call' = call \/ call' = [call EXCEPT ![t] = NoCall]
    BY DEF Entered
  <2> QED BY <2>1, Data, CallFields
<1> QED BY <1>1, <1>2, <1>4, <1>8, <1>9, <1>10, BufferKept

(***************************************************************************)
(* LeaveMutex, or the end of a call without one.                           *)
(***************************************************************************)
LEMMA LeaveMutexKeeps ==
  ASSUME IInv, NEW t \in Task, LeaveMutex(t)
  PROVE  Stutters
<1>1. pc[t] = "leave" /\ where(w)[t] = {} /\ t \in users
  BY AtNowhere, Data DEF LeaveMutex, Kept, Seated
<1>2. pc' = [pc EXCEPT ![t] = "idle"] /\ UNCHANGED <<created, buffer, call, handed>>
  BY DEF LeaveMutex, GoTo
<1>3. pc'[t] = "idle" /\ \A u \in Task : u # t => pc'[u] = pc[u]
  BY <1>2, Data
<1>4. CASE Mutex(t) \in mutexes
  <2>1. w' = SignalSem(w, Mutex(t)) /\ owner' = [owner EXCEPT ![Mutex(t)] = NoTask]
    BY <1>4 DEF LeaveMutex
  <2>2. Raises(w, w', Mutex(t)) \/ \E u \in Task : Wakes(w, w', u, Mutex(t), TRUE)
    BY <2>1, Data, Names, SignalSemEffect
  <2>3. Kept(mutexes, users, w', pc', owner')
    <3>1. Kept(mutexes, users, w', [pc EXCEPT ![t] = "idle"], [owner EXCEPT ![Mutex(t)] = NoTask])
      BY <1>1, <1>4, <2>2, Data, LeavesMutex DEF Inner
    <3> QED BY <1>2, <2>1, <3>1
  <2>4. \A s \in Counters : w'.value[s] = w.value[s]
    <3>1. Mutex(t) \notin Counters /\ Counters \subseteq Sem
      BY Names
    <3> QED BY <2>2, <3>1, Data DEF Raises, Wakes
  <2>5. \A u \in Task : pc[u] = "granted?" => where(w')[u] = where(w)[u] /\ w'.success[u] = w.success[u]
    <3>1. CASE Raises(w, w', Mutex(t))
      BY <3>1 DEF Raises, Stays
    <3>2. CASE \E u \in Task : Wakes(w, w', u, Mutex(t), TRUE)
      <4>1. PICK u \in Task : Wakes(w, w', u, Mutex(t), TRUE)
        BY <3>2
      <4>2. where(w)[u] = {Mutex(t)}
        BY <4>1 DEF Wakes
      <4>3. Takes(u) # Mutex(t)
        BY Names
      <4>4. pc[u] # "granted?"
        <5>1. \/ pc[u] = "enter" /\ Mutex(t) = Mutex(u) /\ Mutex(t) \in mutexes
              \/ pc[u] = "granted?" /\ Mutex(t) = Takes(u)
          BY <4>2, Data, WaitingWhere
        <5> QED BY <4>3, <5>1
      <4> QED BY <4>1, <4>4, Data DEF Wakes, where
    <3> QED BY <2>2, <3>1, <3>2
  <2>6. \A u \in Task : /\ GrantedIn(w', pc', u) <=> GrantedIn(w, pc, u)
                        /\ pc'[u] = "copied" <=> pc[u] = "copied"
                        /\ pc'[u] = "give" <=> pc[u] = "give"
    BY <1>1, <1>3, <2>5, RunsNowhere DEF GrantedIn
  <2>7. TotalOf(w', pc') = TotalOf(w, pc) /\ InsideOf(w', pc') = InsideOf(w, pc)
    BY <2>4, <2>6, CountsSame
  <2>8. call' \in [Task -> CallRecords] /\ call' = call
    BY <1>2, Data
  <2> QED BY <1>2, <2>3, <2>6, <2>7, <2>8, BufferKept
<1>5. CASE Mutex(t) \notin mutexes
  <2>1. w' = w /\ owner' = owner
    BY <1>5 DEF LeaveMutex
  <2>2. Kept(mutexes, users, w', pc', owner')
    BY <1>1, <1>2, <1>5, <2>1, Data, MovesFreely
  <2>3. \A u \in Task : /\ GrantedIn(w', pc', u) <=> GrantedIn(w, pc, u)
                        /\ pc'[u] = "copied" <=> pc[u] = "copied"
                        /\ pc'[u] = "give" <=> pc[u] = "give"
    BY <1>1, <1>3, <2>1 DEF GrantedIn
  <2>4. TotalOf(w', pc') = TotalOf(w, pc) /\ InsideOf(w', pc') = InsideOf(w, pc)
    BY <2>1, <2>3, CountsSame
  <2>5. call' \in [Task -> CallRecords] /\ call' = call
    BY <1>2, Data
  <2> QED BY <1>2, <2>2, <2>3, <2>4, <2>5, BufferKept
<1> QED BY <1>4, <1>5

(***************************************************************************)
(* WaitSem of get_msg and put_msg.                                         *)
(***************************************************************************)
LEMMA AskKeeps ==
  ASSUME IInv, NEW t \in Task, Ask(t)
  PROVE  Stutters
<1>1. pc[t] = "ask" /\ where(w)[t] = {}
  BY AtNowhere DEF Ask
<1>2. /\ w' = WaitSem(w, t, Takes(t), call[t].msecs) /\ pc' = [pc EXCEPT ![t] = "granted?"]
      /\ UNCHANGED <<created, owner, buffer, call, handed>>
  BY DEF Ask, GoTo
<1>3. \/ Passes(w, w', t, Takes(t))
      \/ Fails(w, w', t, Takes(t))
      \/ w.value[Takes(t)] = 0 /\ Joins(w, w', t, Takes(t))
  <2>1. Takes(t) \in Sem /\ call[t].msecs \in Waits
    BY Names, Data, CallFields
  <2> QED BY <1>1, <1>2, <2>1, Data, WaitSemEffect
<1>4. Kept(mutexes, users, w', pc', owner')
  <2>1. Kept(mutexes, users, w', [pc EXCEPT ![t] = "granted?"], owner)
    BY <1>1, <1>3, Data, AsksCount
  <2> QED BY <1>2, <2>1
<1>5. pc'[t] = "granted?" /\ \A u \in Task : u # t => pc'[u] = pc[u]
  BY <1>2, Data
<1>6. TotalOf(w', pc') = TotalOf(w, pc) /\ InsideOf(w', pc') = InsideOf(w, pc)
  <2>1. CASE Passes(w, w', t, Takes(t))
    <3>1. /\ TotalOf(w', [pc EXCEPT ![t] = "granted?"]) = TotalOf(w, pc)
          /\ InsideOf(w', [pc EXCEPT ![t] = "granted?"]) = InsideOf(w, pc)
      BY <1>1, <2>1, Data, CountsTaken
    <3> QED BY <1>2, <3>1
  <2>2. CASE Fails(w, w', t, Takes(t)) \/ Joins(w, w', t, Takes(t))
    <3>1. w'.value = w.value /\ (~ w'.success[t] \/ where(w')[t] # {})
      BY <2>2, Data DEF Fails, Joins, where
    <3>2. \A u \in Task : u # t => where(w')[u] = where(w)[u] /\ w'.success[u] = w.success[u]
      BY <2>2, Data DEF Fails, Joins, Stays, where
    <3>3. \A u \in Task : /\ GrantedIn(w', pc', u) <=> GrantedIn(w, pc, u)
                          /\ pc'[u] = "copied" <=> pc[u] = "copied"
                          /\ pc'[u] = "give" <=> pc[u] = "give"
      BY <1>1, <1>5, <3>1, <3>2, RunsNowhere DEF GrantedIn
    <3> QED BY <3>1, <3>3, CountsSame
  <2> QED BY <1>3, <2>1, <2>2
<1>7. \A u \in Task : pc'[u] = "copied" <=> pc[u] = "copied"
  BY <1>1, <1>5
<1>8. call' \in [Task -> CallRecords] /\ call' = call
  BY <1>2, Data
<1> QED BY <1>2, <1>4, <1>6, <1>7, <1>8, BufferKept

(***************************************************************************)
(* The wait was not granted.                                               *)
(***************************************************************************)
LEMMA RefusedKeeps ==
  ASSUME IInv, NEW t \in Task, Refused(t)
  PROVE  Stutters
<1>1. pc[t] = "granted?" /\ where(w)[t] = {} /\ ~ w.success[t]
  BY AtNowhere DEF Refused
<1>2. /\ call' = [call EXCEPT ![t] = NoCall] /\ pc' = [pc EXCEPT ![t] = "leave"]
      /\ UNCHANGED <<created, w, owner, buffer, handed>>
  BY DEF Refused, GoTo
<1>3. Kept(mutexes, users, w', pc', owner')
  <2>1. Stays(w, w)
    BY Data DEF Stays
  <2>2. Kept(mutexes, users, w, [pc EXCEPT ![t] = "leave"], owner)
    BY <1>1, <2>1, Data, GoesOnInside DEF Inner
  <2> QED BY <1>2, <2>2
<1>4. pc'[t] = "leave" /\ \A u \in Task : u # t => pc'[u] = pc[u]
  BY <1>2, Data
<1>5. \A u \in Task : /\ GrantedIn(w', pc', u) <=> GrantedIn(w, pc, u)
                      /\ pc'[u] = "copied" <=> pc[u] = "copied"
                      /\ pc'[u] = "give" <=> pc[u] = "give"
  BY <1>1, <1>2, <1>4 DEF GrantedIn
<1>8. \A s \in Counters : w'.value[s] = w.value[s]
  BY <1>2
<1>6. TotalOf(w', pc') = TotalOf(w, pc) /\ InsideOf(w', pc') = InsideOf(w, pc)
  BY <1>5, <1>8, CountsSame
<1>7. call' \in [Task -> CallRecords] /\ \A u \in Task : u # t => call'[u] = call[u]
  BY <1>2, Data, CallFields
<1> QED BY <1>1, <1>2, <1>3, <1>5, <1>6, <1>7, BufferKept

(***************************************************************************)
(* SignalSem of get_msg and put_msg.                                       *)
(***************************************************************************)
LEMMA GiveKeeps ==
  ASSUME IInv, NEW t \in Task, Give(t)
  PROVE  Stutters
<1>1. pc[t] = "give" /\ where(w)[t] = {}
  BY AtNowhere DEF Give
<1> DEFINE p == [pc EXCEPT ![t] = "leave"]
           s == Gives(t)
<1>2. w' = SignalSem(w, s) /\ pc' = p /\ UNCHANGED <<created, owner, buffer, call, handed>>
  BY DEF Give, GoTo
<1>3. Kept(mutexes, users, w, p, owner)
  <2>1. Stays(w, w)
    BY Data DEF Stays
  <2> QED BY <1>1, <2>1, Data, GoesOnInside DEF Inner
<1>4. s \in Counters /\ s \in Sem /\ s \in Queue /\ s \notin Mutexes
      /\ (s = sem_get <=> t \notin Getters)
  BY Names DEF Gives
<1>5. Raises(w, w', s) \/ \E u \in Task : Wakes(w, w', u, s, TRUE)
  BY <1>2, <1>4, Data, SignalSemEffect
<1>6. /\ TotalOf(w, p) = TotalOf(w, pc) - 1
      /\ InsideOf(w, p) = IF t \in Getters THEN InsideOf(w, pc) ELSE InsideOf(w, pc) - 1
  BY <1>1, Data, CountsLeft
<1>7. p[t] = "leave" /\ \A u \in Task : u # t => p[u] = pc[u]
  BY Data
<1> HIDE DEF p, s
<1>8. Kept(mutexes, users, w', p, owner)
  <2>1. CASE Raises(w, w', s)
    <3>1. Stays(w, w') /\ w'.success = w.success
      BY <2>1 DEF Raises
    <3>2. \A m \in Mutexes : w'.value[m] = w.value[m]
      BY <1>4, <2>1, Names, Data DEF Raises
    <3>3. ASSUME NEW r \in Sem, NEW u \in Task, where(w)[u] = {r} PROVE w'.value[r] = 0
      <4>1. r # s /\ w.value[r] = 0
        BY <1>3, <2>1, <3>3 DEF Raises, Kept
      <4> QED BY <2>1, <4>1, Data DEF Raises
    <3> QED BY <1>3, <3>1, <3>2, <3>3, CountsChange
  <2>2. CASE \E u \in Task : Wakes(w, w', u, s, TRUE)
    BY <1>3, <1>4, <2>2, EndsWait
  <2> QED BY <1>5, <2>1, <2>2
<1>9. /\ TotalOf(w', p) = TotalOf(w, p) + 1
      /\ InsideOf(w', p) = IF s = sem_get THEN InsideOf(w, p) + 1 ELSE InsideOf(w, p)
  <2>1. Hands(w, w', s)
    BY <1>5 DEF Hands
  <2> QED BY <1>3, <1>4, <2>1, CountsGiven
<1>10. TotalOf(w', pc') = TotalOf(w, pc) /\ InsideOf(w', pc') = InsideOf(w, pc)
  <2>1. TotalOf(w, pc) \in Nat /\ InsideOf(w, pc) \in Nat
    BY Data, CountTypes
  <2> QED BY <1>2, <1>4, <1>6, <1>9, <2>1
<1>11. \A u \in Task : pc'[u] = "copied" <=> pc[u] = "copied"
  BY <1>1, <1>2, <1>7
<1>12. call' \in [Task -> CallRecords] /\ call' = call
  BY <1>2, Data
<1>13. Kept(mutexes, users, w', pc', owner')
  BY <1>2, <1>8
<1> QED BY <1>2, <1>10, <1>11, <1>12, <1>13, BufferKept

(***************************************************************************)
(* The clock ends a wait.                                                  *)
(***************************************************************************)
LEMMA TimesOutOfKeeps ==
  ASSUME IInv, NEW t \in Task, TimesOutOf(t)
  PROVE  Stutters
<1>1. TimesOut(w, t) /\ w' = TimeOut(w, t) /\ UNCHANGED <<created, owner, buffer, pc, call, handed>>
  BY DEF TimesOutOf
<1>2. PICK q \in Queue : Wakes(w, w', t, q, FALSE)
  BY <1>1, Data, TimeOutEffect
<1>3. Kept(mutexes, users, w', pc', owner')
  <2>1. Kept(mutexes, users, w', pc, owner)
    BY <1>2, Data, EndsWait
  <2> QED BY <1>1, <2>1
<1>4. /\ w'.value = w.value /\ where(w)[t] # {} /\ ~ w'.success[t]
      /\ \A u \in Task : u # t => where(w')[u] = where(w)[u] /\ w'.success[u] = w.success[u]
  BY <1>2, Data DEF Wakes, where
<1>5. \A u \in Task : /\ GrantedIn(w', pc', u) <=> GrantedIn(w, pc, u)
                      /\ pc'[u] = "copied" <=> pc[u] = "copied"
                      /\ pc'[u] = "give" <=> pc[u] = "give"
  BY <1>1, <1>4, RunsNowhere DEF GrantedIn
<1>6. TotalOf(w', pc') = TotalOf(w, pc) /\ InsideOf(w', pc') = InsideOf(w, pc)
  BY <1>4, <1>5, CountsSame
<1>7. call' \in [Task -> CallRecords] /\ call' = call
  BY <1>1, Data
<1> QED BY <1>1, <1>3, <1>5, <1>6, <1>7, BufferKept-----------------------------------------------------------------------------
(***************************************************************************)
(* Where tail and head are, when one of them moves on.                     *)
(***************************************************************************)
LEMMA BehindMoves ==
  ASSUME NEW tl, NEW hd \in Index, NEW k \in 0 .. msg_max, Behind(tl, hd, k)
  PROVE  /\ tl \in Index /\ Next1(hd) \in Index
         /\ k < msg_max => Next1(tl) \in Index /\ Behind(Next1(tl), hd, k + 1)
         /\ k > 0 => Behind(tl, Next1(hd), k - 1)
         /\ k > 0 /\ k < msg_max => tl # hd
<1> DEFINE S == msg_max
<1>1. S \in Nat \ {0} /\ Index = 0 .. S - 1 /\ 1 \in 0 .. S
  BY MsgQueueAssumption DEF Index
<1>2. \A i \in 0 .. S - 1, n \in 0 .. S :
        (i + n) % S \in 0 .. S - 1 /\ (i + n) % S = IF i + n < S THEN i + n ELSE i + n - S
  BY <1>1, Round
<1>3. tl = (hd + k) % S
  BY DEF Behind
<1> HIDE DEF S
<1>4. tl \in 0 .. S - 1 /\ tl = IF hd + k < S THEN hd + k ELSE hd + k - S
  BY <1>1, <1>2, <1>3 DEF S
<1> DEFINE a == (tl + 1) % S
           b == (hd + 1) % S
<1>5. a \in 0 .. S - 1 /\ a = IF tl + 1 < S THEN tl + 1 ELSE tl + 1 - S
  BY <1>1, <1>2, <1>4
<1>6. b \in 0 .. S - 1 /\ b = IF hd + 1 < S THEN hd + 1 ELSE hd + 1 - S
  BY <1>1, <1>2
<1>7. Next1(tl) = a /\ Next1(hd) = b
  BY DEF Next1, S
<1> HIDE DEF a, b
<1>8. ASSUME k < S PROVE a = (hd + (k + 1)) % S
  <2> DEFINE n == k + 1
  <2>1. n \in 0 .. S
    BY <1>1, <1>8 DEF S
  <2>2. (hd + n) % S = IF hd + n < S THEN hd + n ELSE hd + n - S
    BY <1>1, <1>2, <2>1
  <2> DEFINE x == (hd + n) % S
  <2>3. x = IF hd + n < S THEN hd + n ELSE hd + n - S
    BY <2>2
  <2> HIDE DEF x
  <2>4. a = x
    BY <1>1, <1>4, <1>5, <1>8, <2>3 DEF S
  <2> QED BY <2>4 DEF x
<1>9. ASSUME k > 0 PROVE tl = (b + (k - 1)) % S
  <2> DEFINE n == k - 1
  <2>1. n \in 0 .. S
    BY <1>1, <1>9 DEF S
  <2>2. (b + n) % S = IF b + n < S THEN b + n ELSE b + n - S
    BY <1>2, <1>6, <2>1
  <2> DEFINE x == (b + n) % S
  <2>3. x = IF b + n < S THEN b + n ELSE b + n - S
    BY <2>2
  <2> HIDE DEF x
  <2>4. tl = x
    BY <1>1, <1>4, <1>6, <1>9, <2>3 DEF S
  <2> QED BY <2>4 DEF x
<1>10. k > 0 /\ k < S => tl # hd
  BY <1>1, <1>4 DEF S
<1> QED BY <1>1, <1>4, <1>5, <1>6, <1>7, <1>8, <1>9, <1>10 DEF Behind, S

(***************************************************************************)
(* The contents are a window of the buffer, now and after a step.          *)
(***************************************************************************)
LEMMA ContentsWindow ==
  /\ Contents = Window(buf, msg_max, head, InsideOf(w, pc))
  /\ Contents' = Window(buf', msg_max, head', InsideOf(w', pc'))
BY CountsEqual DEF Contents, Window, Slot

(***************************************************************************)
(* The first cell of the window is the one head is at.                     *)
(***************************************************************************)
LEMMA FirstCell ==
  ASSUME NEW S \in Nat \ {0}, NEW h \in 0 .. S - 1
  PROVE  Slot(S, h, 1) = h
<1>1. ASSUME NEW a \in 0 .. S - 1 PROVE a % S = a
  OBVIOUS
<1>2. h + 1 - 1 = h
  OBVIOUS
<1>3. h % S = h
  BY <1>1
<1> QED BY <1>2, <1>3 DEF Slot

(***************************************************************************)
(* The counts of the invariant are within the buffer.                      *)
(***************************************************************************)
LEMMA InsideRange ==
  ASSUME IInv
  PROVE  /\ InsideOf(w, pc) \in 0 .. msg_max /\ StoredOf(w, pc) \in 0 .. msg_max
         /\ InsideOf(w, pc) + w.value[sem_put] <= msg_max
         /\ \A t \in Putters : GrantedIn(w, pc, t) => InsideOf(w, pc) < msg_max
         /\ \A t \in Getters : pc[t] = "copied" => InsideOf(w, pc) >= 1 /\ StoredOf(w, pc) >= 1
         /\ (\E t \in Putters : pc[t] = "copied") => InsideOf(w, pc) >= 1
<1>1. /\ InsideOf(w, pc) \in Nat /\ w.value[sem_put] \in Nat /\ TotalOf(w, pc) = msg_max
      /\ msg_max \in Nat
  BY Data, CountTypes, MsgQueueAssumption DEF IInv, Amounts
<1>2. /\ InsideOf(w, pc) + w.value[sem_put] <= msg_max
      /\ \A t \in Putters : GrantedIn(w, pc, t) => InsideOf(w, pc) + 1 <= msg_max
      /\ \A t \in GettersIn(w, pc) : InsideOf(w, pc) >= 1
      /\ \A t \in GettersIn(w, pc), u \in PuttersIn(pc) : InsideOf(w, pc) >= 2
  BY <1>1, Data, Room
<1>3. ASSUME NEW t \in Putters, pc[t] = "copied" PROVE InsideOf(w, pc) >= 1
  <2>1. t \in PuttersIn(pc)
    BY <1>3 DEF PuttersIn
  <2>2. Cardinality(PuttersIn(pc)) # 0 /\ Cardinality(PuttersIn(pc)) \in Nat
    BY <2>1, Counted, FS_EmptySet
  <2>3. w.value[sem_get] \in Nat /\ Cardinality(GettersIn(w, pc)) \in Nat
    BY Data, CountTypes, Counted
  <2> QED BY <2>2, <2>3 DEF InsideOf
<1>4. ASSUME NEW t \in Getters, pc[t] = "copied" PROVE InsideOf(w, pc) >= 1 /\ StoredOf(w, pc) >= 1
  <2>1. t \in GettersIn(w, pc)
    BY <1>4 DEF GettersIn
  <2>2. CASE \E u \in Putters : pc[u] = "copied"
    <3>1. PICK u \in Putters : pc[u] = "copied"
      BY <2>2
    <3>2. u \in PuttersIn(pc)
      BY <3>1 DEF PuttersIn
    <3> QED BY <1>1, <1>2, <2>1, <2>2, <3>2 DEF StoredOf
  <2>3. CASE ~ \E u \in Putters : pc[u] = "copied"
    BY <1>2, <2>1, <2>3 DEF StoredOf
  <2> QED BY <2>2, <2>3
<1>5. StoredOf(w, pc) \in 0 .. msg_max
  BY <1>1, <1>2, <1>3 DEF StoredOf
<1> QED BY <1>1, <1>2, <1>3, <1>4, <1>5

(* A message is copied to where tail is.                                   *)
PutsAtTail(m) ==
  /\ buf' = [buf EXCEPT ![tail] = m] /\ head' = head /\ handed' = Nothing
  /\ InsideOf(w', pc') = InsideOf(w, pc) + 1

(***************************************************************************)
(* A message is copied to where tail is: it comes last.                    *)
(***************************************************************************)
LEMMA PutsLast ==
  ASSUME IInv, NEW m \in Msg, Behind(tail, head, InsideOf(w, pc)), InsideOf(w, pc) < msg_max,
         PutsAtTail(m)
  PROVE  /\ Promise!Put /\ IsBuffer(buf', msg_max, Msg)
         /\ InsideOf(w, pc) >= 1 => buf'[head] = buf[head]
<1> DEFINE k == InsideOf(w, pc)
           S == msg_max
           d == <<m>>
           b == buf'
<1>1. /\ S \in Nat \ {0} /\ IsBuffer(buf, S, Msg) /\ head \in 0 .. S - 1 /\ tail \in 0 .. S - 1
      /\ k \in 0 .. S /\ k < S /\ tail = (head + k) % S
  BY InsideRange, MsgQueueAssumption DEF IInv, Typed, Index, Behind
<1>2. 1 \in 1 .. S - k
  BY <1>1
<1>3. d \in [1 .. 1 -> Msg] /\ d[1] = m
  OBVIOUS
<1>4. IsBuffer(b, S, Msg) /\ b[tail] = m /\ \A i \in 0 .. S - 1 : i # tail => b[i] = buf[i]
  BY <1>1 DEF IsBuffer, PutsAtTail
<1> HIDE DEF d, b, k
<1>5. ASSUME NEW i \in 0 .. S - 1
      PROVE  b[i] = IF (i - tail) % S < 1 THEN d[((i - tail) % S) + 1] ELSE buf[i]
  <2> DEFINE z == (i - tail) % S
  <2>1. z \in 0 .. S - 1 /\ z = IF i >= tail THEN i - tail ELSE i - tail + S
    BY <1>1, Distance
  <2> HIDE DEF z, S
  <2>2. CASE i = tail
    <3>1. z = 0
      BY <1>1, <2>1, <2>2
    <3>2. z + 1 = 1 /\ z < 1
      BY <3>1
    <3> QED BY <1>3, <1>4, <2>2, <3>2 DEF z
  <2>3. CASE i # tail
    <3>1. ~ (z < 1)
      BY <1>1, <2>1, <2>3
    <3> QED BY <1>4, <2>3, <3>1 DEF z
  <2> QED BY <2>2, <2>3
<1>6. Puts(buf, b, S, Msg, head, k, 1, d)
  <2>1. Written(buf, b, S, Msg, tail, 1, d)
    BY <1>3, <1>5 DEF Written
  <2>2. Written(buf, b, S, Msg, (head + k) % S, 1, d)
    BY <1>1, <2>1
  <2>3. HasIn(buf, S, Msg, head, k)
    BY <1>1 DEF HasIn
  <2> HIDE DEF S
  <2> QED BY <1>2, <1>4, <2>2, <2>3 DEF Puts
<1>7. Window(b, S, head, k + 1) = Window(buf, S, head, k) \o d
  <2> DEFINE n == 1
  <2>1. Puts(buf, b, S, Msg, head, k, n, d)
    BY <1>6
  <2> HIDE DEF S, n
  <2>2. Window(b, S, head, k + n) = Window(buf, S, head, k) \o d
    BY <2>1, WindowPut
  <2> QED BY <2>2 DEF n
<1>8. Contents = Window(buf, S, head, k) /\ Contents' = Window(b, S, head, k + 1)
  BY ContentsWindow DEF b, k, PutsAtTail
<1>9. Len(Contents) = k
  <2>1. HasIn(buf, S, Msg, head, k)
    BY <1>1 DEF HasIn
  <2> HIDE DEF S
  <2>2. Len(Window(buf, S, head, k)) = k
    BY <2>1, WindowLength
  <2> QED BY <1>8, <2>2
<1>10. Promise!Put
  <2>1. Contents' = Contents \o d
    BY <1>7, <1>8
  <2>2. 1 \in 1 .. msg_max - Len(Contents)
    BY <1>2, <1>9
  <2>3. handed' = Promise!Nothing
    BY DEF Nothing, Promise!Nothing, PutsAtTail
  <2> QED BY <1>3, <2>1, <2>2, <2>3 DEF Promise!Put
<1>11. k >= 1 => b[head] = buf[head]
  <2>1. head \in Index /\ Behind(tail, head, k)
    BY DEF IInv, Typed, k
  <2>2. k >= 1 => tail # head
    BY <1>1, <2>1, BehindMoves
  <2> QED BY <1>1, <1>4, <2>2
<1> QED BY <1>4, <1>10, <1>11 DEF b, k(***************************************************************************)
(* A message is copied.                                                    *)
(***************************************************************************)
LEMMA CopyKeeps ==
  ASSUME IInv, NEW t \in Task, Copy(t)
  PROVE  Stutters \/ (IInv' /\ Promise!Put)
<1>1. pc[t] = "granted?" /\ where(w)[t] = {} /\ w.success[t] /\ GrantedIn(w, pc, t)
  BY AtNowhere DEF Copy, GrantedIn, At
<1>2. /\ w' = Returned(w, t) /\ pc' = [pc EXCEPT ![t] = "copied"]
      /\ UNCHANGED <<created, owner, head, tail>>
  BY DEF Copy, GoTo
<1>3. Stays(w, w') /\ w'.value = w.value /\ w'.success = [w.success EXCEPT ![t] = FALSE]
  BY <1>2, Data, ReturnedEffect
<1>4. Kept(mutexes, users, w', pc', owner')
  <2>1. \A u \in Task : u # t => w'.success[u] = w.success[u]
    BY <1>3, Data
  <2>2. Kept(mutexes, users, w', [pc EXCEPT ![t] = "copied"], owner)
    BY <1>1, <1>3, <2>1, Data, GoesOnInside DEF Inner
  <2> QED BY <1>2, <2>2
<1>5. /\ TotalOf(w', pc') = TotalOf(w, pc)
      /\ InsideOf(w', pc') = IF t \in Getters THEN InsideOf(w, pc) ELSE InsideOf(w, pc) + 1
  <2>1. /\ TotalOf(w', [pc EXCEPT ![t] = "copied"]) = TotalOf(w, pc)
        /\ InsideOf(w', [pc EXCEPT ![t] = "copied"]) =
             IF t \in Getters THEN InsideOf(w, pc) ELSE InsideOf(w, pc) + 1
    BY <1>1, <1>3, Data, CountsCopied
  <2> QED BY <1>2, <2>1
<1>6. pc'[t] = "copied" /\ \A u \in Task : u # t => pc'[u] = pc[u]
  BY <1>2, Data
<1>7. CASE t \in Getters
  <2> DEFINE m == buf[head]
             r == [call[t] EXCEPT !.msg = m]
  <2>1. call' = [call EXCEPT ![t] = r] /\ UNCHANGED <<buf, handed>>
    BY <1>7, Data DEF Copy
  <2>2. m \in Msg
    BY DEF IInv, Typed, IsBuffer, Index
  <2>3. m = buf[head]
    OBVIOUS
  <2> HIDE DEF m
  <2>4. r \in CallRecords /\ r.msg = m
    BY <2>2, Data, CallFields
  <2> HIDE DEF r
  <2>5. /\ call' \in [Task -> CallRecords] /\ call'[t].msg = m
        /\ \A u \in Task : u # t => call'[u] = call[u]
    BY <2>1, <2>4, Data
  <2>6. \A u \in Getters : pc'[u] = "copied" => call'[u].msg = buf[head]
    BY <1>6, <2>3, <2>5, MsgQueueAssumption DEF IInv, Amounts
  <2>7. \A u \in Putters : pc'[u] = "copied" <=> pc[u] = "copied"
    BY <1>6, <1>7, MsgQueueAssumption
  <2>8. TotalOf(w', pc') = TotalOf(w, pc) /\ InsideOf(w', pc') = InsideOf(w, pc)
    BY <1>5, <1>7
  <2>9. UNCHANGED <<created, buffer, handed>>
    BY <1>2, <2>1 DEF buffer
  <2> QED BY <1>4, <2>5, <2>6, <2>7, <2>8, <2>9, CountsKept
<1>8. CASE t \notin Getters
  <2> DEFINE m == call[t].msg
  <2>1. /\ buf' = [buf EXCEPT ![tail] = m] /\ handed' = Nothing
        /\ call' = [call EXCEPT ![t] = NoCall]
    BY <1>8 DEF Copy
  <2>2. m \in Msg /\ t \in Putters
    BY <1>8, Data, CallFields, MsgQueueAssumption
  <2> HIDE DEF m
  <2>3. call' \in [Task -> CallRecords] /\ \A u \in Task : u # t => call'[u] = call[u]
    BY <2>1, Data, CallFields
  <2>4. \A u \in Putters : pc[u] # "copied"
    BY <1>1, <2>2, OneEach DEF Inner
  <2>5. StoredOf(w, pc) = InsideOf(w, pc) /\ Behind(tail, head, InsideOf(w, pc))
    BY <2>4 DEF StoredOf, IInv, Amounts
  <2>6. InsideOf(w, pc) < msg_max /\ InsideOf(w, pc) \in Nat
    BY <1>1, <2>2, InsideRange
  <2>7. PutsAtTail(m)
    BY <1>2, <1>5, <1>8, <2>1 DEF PutsAtTail
  <2>8. /\ Promise!Put /\ IsBuffer(buf', msg_max, Msg)
        /\ InsideOf(w, pc) >= 1 => buf'[head] = buf[head]
    BY <2>2, <2>5, <2>6, <2>7, PutsLast
  <2>9. Amounts'
    <3>1. StoredOf(w', pc') = InsideOf(w, pc)
      <4>1. \E u \in Putters : pc'[u] = "copied"
        BY <1>6, <2>2
      <4> QED BY <1>5, <1>8, <2>6, <4>1 DEF StoredOf
    <3>2. Behind(tail', head', StoredOf(w', pc'))
      BY <1>2, <2>5, <3>1
    <3>3. ASSUME NEW u \in Getters, pc'[u] = "copied" PROVE call'[u].msg = buf'[head']
      <4>1. u # t /\ u \in Task
        BY <1>8, MsgQueueAssumption
      <4>2. pc[u] = "copied" /\ call'[u] = call[u]
        BY <1>6, <2>3, <3>3, <4>1
      <4>3. InsideOf(w, pc) >= 1 /\ call[u].msg = buf[head]
        BY <4>2, InsideRange DEF IInv, Amounts
      <4> QED BY <1>2, <2>8, <4>2, <4>3
    <3>4. TotalOf(w', pc') = msg_max
      BY <1>5 DEF IInv, Amounts
    <3> QED BY <3>2, <3>3, <3>4 DEF Amounts
  <2>10. Typed'
    <3>1. users' = users /\ mutexes' = mutexes /\ head' = head /\ tail' = tail
      BY <1>2 DEF created
    <3>2. Nothing \in [task : Task \cup {NoTask}, items : Seq(Msg)]
      BY DEF Nothing
    <3> QED BY <2>1, <2>3, <2>8, <3>1, <3>2 DEF IInv, Typed, Disciplined
  <2>11. Kept(mutexes', users', w', pc', owner')
    BY <1>2, <1>4 DEF created
  <2> QED BY <2>8, <2>9, <2>10, <2>11 DEF IInv
<1> QED BY <1>7, <1>8

(***************************************************************************)
(* A getter moves head on: it has the message that came first.             *)
(***************************************************************************)
LEMMA AdvanceGetter ==
  ASSUME IInv, NEW t \in Getters, Advance(t)
  PROVE  IInv' /\ Promise!Get(t)
<1>1. pc[t] = "copied" /\ where(w)[t] = {} /\ t \in Task
  BY AtNowhere, MsgQueueAssumption DEF Advance
<1>2. /\ head' = Next1(head) /\ tail' = tail /\ handed' = [task |-> t, items |-> <<call[t].msg>>]
      /\ call' = [call EXCEPT ![t] = NoCall] /\ pc' = [pc EXCEPT ![t] = "give"]
      /\ UNCHANGED <<created, w, owner, buf>>
  BY DEF Advance, GoTo
<1>3. Kept(mutexes, users, w', pc', owner')
  <2>1. Stays(w, w)
    BY Data DEF Stays
  <2>2. Kept(mutexes, users, w, [pc EXCEPT ![t] = "give"], owner)
    BY <1>1, <2>1, Data, GoesOnInside DEF Inner
  <2> QED BY <1>2, <2>2
<1>4. TotalOf(w', pc') = msg_max /\ InsideOf(w', pc') = InsideOf(w, pc) - 1
  <2>1. /\ TotalOf(w, [pc EXCEPT ![t] = "give"]) = TotalOf(w, pc)
        /\ InsideOf(w, [pc EXCEPT ![t] = "give"]) = InsideOf(w, pc) - 1
    BY <1>1, Data, CountsAdvanced
  <2> QED BY <1>2, <2>1 DEF IInv, Amounts
<1>5. pc'[t] = "give" /\ \A u \in Task : u # t => pc'[u] = pc[u]
  BY <1>1, <1>2, Data
<1>6. /\ InsideOf(w, pc) \in 1 .. msg_max /\ StoredOf(w, pc) \in 1 .. msg_max
      /\ msg_max \in Nat \ {0}
  <2>1. /\ InsideOf(w, pc) \in 0 .. msg_max /\ InsideOf(w, pc) >= 1
        /\ StoredOf(w, pc) \in 0 .. msg_max /\ StoredOf(w, pc) >= 1
    BY <1>1, InsideRange
  <2> QED BY <2>1, MsgQueueAssumption
<1>7. StoredOf(w', pc') = StoredOf(w, pc) - 1
  <2>1. \A u \in Putters : pc'[u] = pc[u]
    BY <1>5, MsgQueueAssumption
  <2> QED BY <1>4, <1>6, <2>1 DEF StoredOf
<1>8. Next1(head) \in Index /\ Behind(tail, Next1(head), StoredOf(w, pc) - 1)
  <2>1. head \in Index /\ Behind(tail, head, StoredOf(w, pc))
    BY DEF IInv, Typed, Amounts
  <2>2. StoredOf(w, pc) \in 0 .. msg_max /\ StoredOf(w, pc) > 0
    BY <1>6
  <2> QED BY <2>1, <2>2, BehindMoves
<1>9. call[t].msg = buf[head] /\ buf[head] \in Msg
  BY <1>1 DEF IInv, Amounts, Typed, IsBuffer, Index
<1>10. Amounts'
  <2>1. Behind(tail', head', StoredOf(w', pc'))
    BY <1>2, <1>7, <1>8
  <2>2. \A u \in Getters : pc'[u] # "copied"
    BY <1>1, <1>5, OneEach, MsgQueueAssumption DEF Inner
  <2> QED BY <1>4, <2>1, <2>2 DEF Amounts
<1>11. Typed'
  <2>1. users' = users /\ mutexes' = mutexes /\ buf' = buf
    BY <1>2 DEF created
  <2>2. call' \in [Task -> CallRecords]
    BY <1>2, Data, CallFields
  <2>3. <<buf[head]>> \in Seq(Msg)
    BY <1>9
  <2>4. handed' \in [task : Task \cup {NoTask}, items : Seq(Msg)]
    BY <1>1, <1>2, <1>9, <2>3
  <2> QED BY <1>2, <1>8, <2>1, <2>2, <2>4 DEF IInv, Typed, Disciplined
<1>12. Kept(mutexes', users', w', pc', owner')
  BY <1>2, <1>3 DEF created
<1> DEFINE k == InsideOf(w, pc)
           n == 1
           g == Next1(head)
<1>13. Contents = Window(buf, msg_max, head, k) /\ Contents' = Window(buf, msg_max, g, k - 1)
  BY <1>2, <1>4, ContentsWindow
<1>14. TakesOut(buf, msg_max, Msg, head, k, n, g)
  <2>1. n \in 1 .. k /\ k \in 1 .. msg_max
    BY <1>6
  <2>2. g = (head + n) % msg_max
    BY DEF Next1
  <2>3. IsBuffer(buf, msg_max, Msg) /\ head \in 0 .. msg_max - 1
    BY DEF IInv, Typed, Index
  <2> HIDE DEF k, n, g
  <2> QED BY <1>6, <2>1, <2>2, <2>3 DEF TakesOut
<1>15. /\ SubSeq(Window(buf, msg_max, head, k), 1, n) = Window(buf, msg_max, head, n)
       /\ SubSeq(Window(buf, msg_max, head, k), n + 1, k) = Window(buf, msg_max, g, k - n)
  <2> HIDE DEF k, n, g
  <2> QED BY <1>14, WindowTaken
<1>16. Window(buf, msg_max, head, n) = <<buf[head]>>
  <2>1. HasIn(buf, msg_max, Msg, head, n)
    BY <1>6 DEF HasIn, IInv, Typed, Index
  <2>2. /\ Window(buf, msg_max, head, n) \in Seq(Msg) /\ Len(Window(buf, msg_max, head, n)) = n
        /\ Window(buf, msg_max, head, n)[1] = buf[Slot(msg_max, head, 1)]
    <3>1. Len(Window(buf, msg_max, head, n)) = n /\ Window(buf, msg_max, head, n) \in Seq(Msg)
      <4> HIDE DEF n
      <4> QED BY <2>1, WindowLength
    <3> QED BY <3>1 DEF Window
  <2>3. Slot(msg_max, head, 1) = head
    <3>1. msg_max \in Nat \ {0} /\ head \in 0 .. msg_max - 1
      BY <1>6 DEF IInv, Typed, Index
    <3> QED BY <3>1, FirstCell
  <2> QED BY <2>2, <2>3
<1>17. Len(Contents) = k
  <2>1. HasIn(buf, msg_max, Msg, head, k)
    BY <1>6 DEF HasIn, IInv, Typed, Index
  <2> HIDE DEF k
  <2> QED BY <1>13, <2>1, WindowLength
<1>18. Promise!Get(t)
  <2>1. n \in 1 .. Len(Contents)
    BY <1>6, <1>17
  <2>2. handed' = [task |-> t, items |-> SubSeq(Contents, 1, n)]
    BY <1>2, <1>9, <1>13, <1>15, <1>16
  <2>3. Contents' = SubSeq(Contents, n + 1, Len(Contents))
    BY <1>13, <1>15, <1>17
  <2> HIDE DEF n
  <2> QED BY <2>1, <2>2, <2>3 DEF Promise!Get
<1> QED BY <1>10, <1>11, <1>12, <1>18 DEF IInv

(***************************************************************************)
(* A putter moves tail on.                                                 *)
(***************************************************************************)
LEMMA AdvancePutter ==
  ASSUME IInv, NEW t \in Putters, Advance(t)
  PROVE  Stutters
<1>1. pc[t] = "copied" /\ where(w)[t] = {} /\ t \in Task /\ t \notin Getters
  BY AtNowhere, MsgQueueAssumption DEF Advance
<1>2. /\ tail' = Next1(tail) /\ head' = head /\ handed' = handed
      /\ call' = [call EXCEPT ![t] = NoCall] /\ pc' = [pc EXCEPT ![t] = "give"]
      /\ UNCHANGED <<created, w, owner, buf>>
  BY <1>1 DEF Advance, GoTo
<1>3. Kept(mutexes, users, w', pc', owner')
  <2>1. Stays(w, w)
    BY Data DEF Stays
  <2>2. Kept(mutexes, users, w, [pc EXCEPT ![t] = "give"], owner)
    BY <1>1, <2>1, Data, GoesOnInside DEF Inner
  <2> QED BY <1>2, <2>2
<1>4. TotalOf(w', pc') = msg_max /\ InsideOf(w', pc') = InsideOf(w, pc)
  <2>1. /\ TotalOf(w, [pc EXCEPT ![t] = "give"]) = TotalOf(w, pc)
        /\ InsideOf(w, [pc EXCEPT ![t] = "give"]) = InsideOf(w, pc)
    BY <1>1, Data, CountsAdvanced
  <2> QED BY <1>2, <2>1 DEF IInv, Amounts
<1>5. pc'[t] = "give" /\ \A u \in Task : u # t => pc'[u] = pc[u]
  BY <1>1, <1>2, Data
<1>6. InsideOf(w, pc) \in 1 .. msg_max /\ StoredOf(w, pc) = InsideOf(w, pc) - 1 /\ msg_max \in Nat
  <2>1. InsideOf(w, pc) \in 0 .. msg_max /\ InsideOf(w, pc) >= 1
    BY <1>1, InsideRange
  <2> QED BY <1>1, <2>1, MsgQueueAssumption DEF StoredOf
<1>7. StoredOf(w', pc') = InsideOf(w, pc)
  <2>1. \A u \in Putters : pc'[u] # "copied"
    BY <1>1, <1>5, OneEach, MsgQueueAssumption DEF Inner
  <2> QED BY <1>4, <2>1 DEF StoredOf
<1>8. Next1(tail) \in Index /\ Behind(Next1(tail), head, InsideOf(w, pc))
  <2> DEFINE k == StoredOf(w, pc)
  <2>1. head \in Index /\ Behind(tail, head, k)
    BY DEF IInv, Typed, Amounts
  <2>2. k \in 0 .. msg_max /\ k < msg_max /\ k + 1 = InsideOf(w, pc)
    BY <1>6
  <2> HIDE DEF k
  <2>3. Next1(tail) \in Index /\ Behind(Next1(tail), head, k + 1)
    BY <2>1, <2>2, BehindMoves
  <2> QED BY <2>2, <2>3
<1>9. /\ call' \in [Task -> CallRecords] /\ \A u \in Task : u # t => call'[u] = call[u]
  BY <1>2, Data, CallFields
<1>10. Amounts'
  <2>1. Behind(tail', head', StoredOf(w', pc'))
    BY <1>2, <1>7, <1>8
  <2>2. \A u \in Getters : pc'[u] = "copied" => call'[u].msg = buf'[head']
    BY <1>1, <1>2, <1>5, <1>9, MsgQueueAssumption DEF IInv, Amounts
  <2> QED BY <1>4, <2>1, <2>2 DEF Amounts
<1>11. Typed'
  <2>1. users' = users /\ mutexes' = mutexes /\ buf' = buf
    BY <1>2 DEF created
  <2> QED BY <1>2, <1>8, <1>9, <2>1 DEF IInv, Typed, Disciplined
<1>12. Kept(mutexes', users', w', pc', owner')
  BY <1>2, <1>3 DEF created
<1>13. Contents' = Contents
  BY <1>2, <1>4, ContentsWindow
<1> QED BY <1>2, <1>10, <1>11, <1>12, <1>13 DEF IInv, Stutters

(***************************************************************************)
(* The handler of a device puts a message, between two steps of tasks.     *)
(***************************************************************************)
LEMMA DeviceIntKeeps ==
  ASSUME IInv, NEW m \in Msg, DeviceInt(m)
  PROVE  IInv' /\ Promise!Put
<1> DEFINE c == [w.value EXCEPT ![sem_put] = @ - 1]
           v == [w EXCEPT !.value = c]
<1>1. /\ Device \in users /\ w.value[sem_put] > 0
      /\ buf' = [buf EXCEPT ![tail] = m] /\ tail' = Next1(tail) /\ handed' = Nothing
      /\ UNCHANGED <<created, owner, head, pc, call>>
  BY DEF DeviceInt
<1>2. w' = SignalSem(v, sem_get)
  BY DEF DeviceInt
<1>3. c \in [Sem -> Nat] /\ c[sem_put] = w.value[sem_put] - 1 /\ \A s \in Sem : s # sem_put => c[s] = w.value[s]
  BY <1>1, Data, Names DEF Counters
<1> HIDE DEF c
<1>4. /\ v \in Records /\ v.value = c /\ v.list = w.list /\ v.timed = w.timed
      /\ v.success = w.success
  BY <1>3, Data DEF Linked, Records
<1> HIDE DEF v
<1>5. Stays(w, v) /\ Linked(v)
  <2>1. Stays(w, v)
    BY <1>4, Data, StaysByFields
  <2> QED BY <2>1 DEF Stays
<1>6. Kept(mutexes, users, v, pc, owner)
  <2>1. \A s \in Mutexes : v.value[s] = w.value[s]
    BY <1>3, <1>4, Names DEF Counters
  <2>2. ASSUME NEW s \in Sem, NEW u \in Task, where(w)[u] = {s} PROVE v.value[s] = 0
    <3>1. w.value[s] = 0
      BY <2>2, Data DEF Kept
    <3> QED BY <1>1, <1>3, <1>4, <3>1
  <2> QED BY <1>4, <1>5, <2>1, <2>2, Data, CountsChange
<1>7. /\ TotalOf(v, pc) = TotalOf(w, pc) - 1 /\ InsideOf(v, pc) = InsideOf(w, pc)
  <2>1. \A u \in Task : GrantedIn(v, pc, u) <=> GrantedIn(w, pc, u)
    BY <1>4, <1>5, RunsNowhere DEF GrantedIn, Stays
  <2>2. WorkingIn(v, pc) = WorkingIn(w, pc) /\ GettersIn(v, pc) = GettersIn(w, pc)
    BY <2>1, MsgQueueAssumption DEF WorkingIn, GettersIn
  <2>3. v.value[sem_get] = w.value[sem_get] /\ v.value[sem_put] = w.value[sem_put] - 1
    BY <1>3, <1>4, Names DEF Counters
  <2>4. w.value[sem_get] \in Nat /\ w.value[sem_put] \in Nat /\ Cardinality(WorkingIn(w, pc)) \in Nat
    BY Data, CountTypes, Counted
  <2>5. TotalOf(v, pc) = TotalOf(w, pc) - 1
    BY <2>2, <2>3, <2>4 DEF TotalOf
  <2>6. InsideOf(v, pc) = InsideOf(w, pc)
    BY <2>2, <2>3 DEF InsideOf
  <2> QED BY <2>5, <2>6
<1>8. Hands(v, w', sem_get)
  BY <1>2, <1>5, Names, SignalSemEffect DEF Hands, Counters
<1>9. Kept(mutexes, users, w', pc, owner)
  <2> DEFINE s == sem_get
  <2>1. s \in Counters /\ s \in Sem /\ s \in Queue /\ s \notin Mutexes
    BY Names DEF Counters
  <2>2. Raises(v, w', s) \/ \E u \in Task : Wakes(v, w', u, s, TRUE)
    BY <1>8 DEF Hands
  <2>3. v.value \in [Sem -> Nat]
    BY <1>3, <1>4
  <2> HIDE DEF s
  <2>4. CASE Raises(v, w', s)
    <3>1. Stays(v, w') /\ w'.success = v.success
      BY <2>4 DEF Raises
    <3>2. \A x \in Mutexes : w'.value[x] = v.value[x]
      BY <2>1, <2>3, <2>4, Names DEF Raises
    <3>3. ASSUME NEW r \in Sem, NEW u \in Task, where(v)[u] = {r} PROVE w'.value[r] = 0
      <4>1. r # s /\ v.value[r] = 0
        BY <1>6, <2>4, <3>3 DEF Raises, Kept
      <4> QED BY <2>3, <2>4, <4>1 DEF Raises
    <3> QED BY <1>6, <3>1, <3>2, <3>3, CountsChange
  <2>5. CASE \E u \in Task : Wakes(v, w', u, s, TRUE)
    BY <1>6, <2>1, <2>5, EndsWait
  <2> QED BY <2>2, <2>4, <2>5
<1>10. TotalOf(w', pc) = TotalOf(v, pc) + 1 /\ InsideOf(w', pc) = InsideOf(v, pc) + 1
  <2> DEFINE s == sem_get
  <2>1. s \in Counters /\ Hands(v, w', s)
    BY <1>8 DEF Counters
  <2>2. s = sem_get
    OBVIOUS
  <2> HIDE DEF s
  <2>3. /\ TotalOf(w', pc) = TotalOf(v, pc) + 1
        /\ InsideOf(w', pc) = IF s = sem_get THEN InsideOf(v, pc) + 1 ELSE InsideOf(v, pc)
    BY <1>6, <2>1, CountsGiven
  <2> QED BY <2>2, <2>3
<1>11. TotalOf(w', pc') = msg_max /\ InsideOf(w', pc') = InsideOf(w, pc) + 1
  <2>1. TotalOf(w, pc) = msg_max /\ TotalOf(w, pc) \in Nat /\ InsideOf(w, pc) \in Nat
    BY Data, CountTypes DEF IInv, Amounts
  <2> QED BY <1>1, <1>7, <1>10, <2>1
<1>12. \A u \in Putters : pc[u] # "copied"
  BY <1>1, OneEach DEF Inner
<1>13. Behind(tail, head, InsideOf(w, pc)) /\ StoredOf(w', pc') = InsideOf(w', pc')
  BY <1>1, <1>12 DEF StoredOf, IInv, Amounts
<1>14. InsideOf(w, pc) \in 0 .. msg_max /\ InsideOf(w, pc) < msg_max
  <2>1. w.value[sem_put] \in Nat
    BY Data, CountTypes
  <2>2. InsideOf(w, pc) \in 0 .. msg_max /\ InsideOf(w, pc) + w.value[sem_put] <= msg_max
    BY InsideRange
  <2>3. msg_max \in Nat
    BY MsgQueueAssumption
  <2> QED BY <1>1, <2>1, <2>2, <2>3
<1>15. PutsAtTail(m)
  BY <1>1, <1>11 DEF PutsAtTail
<1>16. /\ Promise!Put /\ IsBuffer(buf', msg_max, Msg)
       /\ InsideOf(w, pc) >= 1 => buf'[head] = buf[head]
  BY <1>13, <1>14, <1>15, PutsLast
<1>17. Next1(tail) \in Index /\ Behind(Next1(tail), head, InsideOf(w, pc) + 1)
  <2> DEFINE k == InsideOf(w, pc)
  <2>1. head \in Index /\ Behind(tail, head, k) /\ k \in 0 .. msg_max /\ k < msg_max
    BY <1>13, <1>14 DEF IInv, Typed
  <2> HIDE DEF k
  <2>2. Next1(tail) \in Index /\ Behind(Next1(tail), head, k + 1)
    BY <2>1, BehindMoves
  <2> QED BY <2>2 DEF k
<1>18. Amounts'
  <2>1. Behind(tail', head', StoredOf(w', pc'))
    BY <1>1, <1>11, <1>13, <1>17
  <2>2. ASSUME NEW u \in Getters, pc'[u] = "copied" PROVE call'[u].msg = buf'[head']
    <3>1. pc[u] = "copied" /\ call'[u] = call[u] /\ head' = head
      BY <1>1, <2>2
    <3>2. InsideOf(w, pc) >= 1 /\ call[u].msg = buf[head]
      BY <3>1, InsideRange DEF IInv, Amounts
    <3> QED BY <1>16, <3>1, <3>2
  <2> QED BY <1>11, <2>1, <2>2 DEF Amounts
<1>19. Typed'
  <2>1. users' = users /\ mutexes' = mutexes /\ head' = head /\ call' = call
    BY <1>1 DEF created
  <2>2. Nothing \in [task : Task \cup {NoTask}, items : Seq(Msg)]
    BY DEF Nothing
  <2> QED BY <1>1, <1>16, <1>17, <2>1, <2>2 DEF IInv, Typed, Disciplined
<1>20. Kept(mutexes', users', w', pc', owner')
  BY <1>1, <1>9 DEF created
<1> QED BY <1>16, <1>18, <1>19, <1>20 DEF IInv
-----------------------------------------------------------------------------
(***************************************************************************)
(* CreateMsgQueue.                                                         *)
(***************************************************************************)
LEMMA InitKeeps ==
  ASSUME Init
  PROVE  IInv /\ Promise!Init
<1>1. msg_max \in Nat \ {0} /\ 0 \in Index /\ 0 \in 0 .. msg_max
  BY MsgQueueAssumption DEF Index
<1> DEFINE c == [s \in Sem |-> CASE s = sem_get -> 0 [] s = sem_put -> msg_max [] OTHER -> 1]
           l == [s \in Sem |-> <<>>]
           b == [t \in Task |-> FALSE]
<1>2. w = [value |-> c, list |-> l, timed |-> {}, success |-> b]
  BY DEF Init
<1>3. c[sem_get] = 0 /\ c[sem_put] = msg_max /\ \A m \in Mutexes : c[m] = 1
  BY Names DEF Counters, Mutexes
<1>4. c \in [Sem -> Nat] /\ l \in [Queue -> Seq(Task)] /\ b \in [Task -> BOOLEAN] /\ \A q \in Queue : l[q] = <<>>
  BY <1>1, Names
<1> HIDE DEF c, l, b
<1>5. w \in Records /\ w.list = l /\ w.value = c /\ w.timed = {}
  BY <1>2, <1>4 DEF Records
<1>6. \A t \in Task : where(w)[t] = {}
  BY <1>4, <1>5 DEF where, WaitingIn, ToSet
<1>7. Linked(w)
  <2>1. \A q \in Queue : NoRepetition(w.list[q])
    BY <1>4, <1>5 DEF NoRepetition
  <2> QED BY <1>5, <1>6, <2>1 DEF Linked
<1>8. /\ mutexes \subseteq Mutexes /\ owner = [m \in Mutexes |-> NoTask]
      /\ pc \in [Task -> Places] /\ \A t \in Task : pc[t] = "idle"
  BY DEF Init, Places, Mutexes
<1>9. \A m : InsideMutex(pc, m) = {} /\ AskedMutex(pc, m) = {}
  BY <1>8 DEF InsideMutex, AskedMutex, Inner
<1>10. ASSUME NEW m \in mutexes PROVE Locked(w, m, InsideMutex(pc, m), AskedMutex(pc, m))
  <2>1. Past(w, m, {}, {}) = {}
    BY DEF Past
  <2>2. w.value[m] = 1 /\ 1 <= 1
    BY <1>3, <1>5, <1>8
  <2>3. Locked(w, m, {}, {})
    BY <1>6, <2>1, <2>2 DEF Locked
  <2> QED BY <1>9, <2>3
<1>11. Kept(mutexes, users, w, pc, owner)
  <2>1. ASSUME NEW t \in Task PROVE Seated(mutexes, users, w, pc, owner, t)
    <3>1. Mutex(t) \in Mutexes /\ owner[Mutex(t)] = NoTask /\ NoTask # t
      BY <1>8, Names, MsgQueueAssumption
    <3> QED BY <1>6, <1>8, <3>1 DEF Seated, Inner
  <2>2. \A m \in Mutexes : w.value[m] <= 1
    BY <1>3, <1>5
  <2>3. owner \in [Mutexes -> Task \cup {NoTask}]
    BY <1>8
  <2> QED BY <1>6, <1>7, <1>8, <1>10, <2>1, <2>2, <2>3 DEF Kept
<1>12. TotalOf(w, pc) = msg_max /\ InsideOf(w, pc) = 0 /\ StoredOf(w, pc) = 0
  <2>1. GettersIn(w, pc) = {} /\ PuttersIn(pc) = {} /\ WorkingIn(w, pc) = {}
    BY <1>8, MsgQueueAssumption DEF GettersIn, PuttersIn, WorkingIn, GrantedIn
  <2>2. Cardinality(GettersIn(w, pc)) = 0 /\ Cardinality(PuttersIn(pc)) = 0 /\ Cardinality(WorkingIn(w, pc)) = 0
    BY <2>1, FS_EmptySet
  <2>3. \A t \in Putters : pc[t] # "copied"
    BY <1>8, MsgQueueAssumption
  <2>4. TotalOf(w, pc) = msg_max /\ InsideOf(w, pc) = 0
    BY <1>1, <1>3, <1>5, <2>2 DEF TotalOf, InsideOf
  <2> QED BY <2>3, <2>4 DEF StoredOf
<1>13. Typed
  <2>1. IsBuffer(buf, msg_max, Msg)
    <3>1. AnyMsg \in Msg /\ buf = [i \in Index |-> AnyMsg]
      BY CallFields DEF Init
    <3> QED BY <1>1, <3>1 DEF IsBuffer, Index
  <2>2. call \in [Task -> CallRecords]
    BY CallFields DEF Init
  <2>3. handed \in [task : Task \cup {NoTask}, items : Seq(Msg)]
    BY DEF Init, Nothing
  <2>4. users \subseteq Task \cup {Device} /\ Disciplined /\ head \in Index /\ tail \in Index
    BY <1>1 DEF Init
  <2> QED BY <2>1, <2>2, <2>3, <2>4 DEF Typed
<1>14. Amounts
  <2> DEFINE z == 0
  <2>1. z \in 0 .. msg_max - 1 /\ z \in 0 .. msg_max /\ z + z = z /\ (z + z < msg_max)
    BY <1>1
  <2>2. head = z /\ tail = z /\ StoredOf(w, pc) = z
    BY <1>12 DEF Init
  <2> HIDE DEF z
  <2>3. (z + z) % msg_max = z
    BY <1>1, <2>1, Round
  <2>4. Behind(tail, head, StoredOf(w, pc))
    BY <2>2, <2>3 DEF Behind
  <2>5. \A t \in Getters : pc[t] # "copied"
    BY <1>8, MsgQueueAssumption
  <2> QED BY <1>12, <2>4, <2>5 DEF Amounts
<1>15. Contents = <<>>
  <2>1. Contents = [i \in 1 .. 0 |-> buf[Slot(msg_max, head, i)]]
    BY <1>12, ContentsWindow DEF Window
  <2>2. 1 .. 0 = {}
    OBVIOUS
  <2> QED BY <2>1, <2>2
<1> QED BY <1>11, <1>13, <1>14, <1>15 DEF IInv, Promise!Init, Promise!Nothing, Init, Nothing

(***************************************************************************)
(* Every step keeps the invariant, and is a step of the channel or leaves  *)
(* what is inside as it is.                                                *)
(***************************************************************************)
LEMMA NextKeeps ==
  ASSUME IInv, [Next]_vars
  PROVE  IInv' /\ [Promise!Next]_<<Contents, handed>>
<1>1. CASE UNCHANGED vars
  <2>1. /\ UNCHANGED <<created, w, owner, buffer, pc, call, handed>> /\ mutexes' = mutexes /\ users' = users
        /\ w' = w /\ owner' = owner /\ buf' = buf /\ head' = head /\ tail' = tail
        /\ pc' = pc /\ call' = call /\ handed' = handed
    BY <1>1 DEF vars, created, buffer
  <2>2. Kept(mutexes', users', w', pc', owner')
    BY <2>1 DEF IInv
  <2>3. Typed' /\ Amounts'
    BY <2>1 DEF IInv, Typed, Amounts, Disciplined
  <2>4. Contents' = Contents
    BY <2>1, ContentsWindow
  <2> QED BY <2>1, <2>2, <2>3, <2>4 DEF IInv
<1>2. ASSUME NEW t \in Task, Calls(t) \/ GoesOn(t) \/ TimesOutOf(t)
      PROVE  Stutters \/ (IInv' /\ (Promise!Put \/ \E u \in Task : Promise!Get(u)))
  <2>1. CASE Calls(t)
    <3>1. PICK n \in Waits, m \in Msg : Call(t, n, m)
      BY <2>1, CallFields DEF Calls
    <3> QED BY <3>1, CallKeeps
  <2>2. CASE Entered(t)
    BY <2>2, EnteredKeeps
  <2>3. CASE Ask(t)
    BY <2>3, AskKeeps
  <2>4. CASE Refused(t)
    BY <2>4, RefusedKeeps
  <2>5. CASE Copy(t)
    BY <2>5, CopyKeeps
  <2>6. CASE Advance(t)
    <3>1. t \in Getters \/ t \in Putters
      BY MsgQueueAssumption
    <3>2. CASE t \in Getters
      BY <2>6, <3>2, AdvanceGetter
    <3>3. CASE t \in Putters
      BY <2>6, <3>3, AdvancePutter
    <3> QED BY <3>1, <3>2, <3>3
  <2>7. CASE Give(t)
    BY <2>7, GiveKeeps
  <2>8. CASE LeaveMutex(t)
    BY <2>8, LeaveMutexKeeps
  <2>9. CASE TimesOutOf(t)
    BY <2>9, TimesOutOfKeeps
  <2> QED BY <1>2, <2>1, <2>2, <2>3, <2>4, <2>5, <2>6, <2>7, <2>8, <2>9 DEF GoesOn
<1>3. CASE Next
  <2>1. CASE \E t \in Task : Calls(t) \/ GoesOn(t) \/ TimesOutOf(t)
    BY <1>2, <2>1 DEF Stutters, Promise!Next
  <2>2. CASE \E m \in Msg : DeviceInt(m)
    BY <2>2, DeviceIntKeeps DEF Promise!Next
  <2> QED BY <1>3, <2>1, <2>2 DEF Next
<1> QED BY <1>1, <1>3

(***************************************************************************)
(* The inductive invariant holds: msgqueue.c over mutex.c and sem.c, for   *)
(* the users the comment of msgqueue.c:34-36 allows.                       *)
(***************************************************************************)
THEOREM IInvHolds == Spec => []IInv
<1>1. Init => IInv
  BY InitKeeps
<1>2. IInv /\ [Next]_vars => IInv'
  BY NextKeeps
<1> QED BY <1>1, <1>2, PTL DEF Spec

(***************************************************************************)
(* The variables have their types: no semaphore counts above msg_max, no   *)
(* index leaves the buffer.                                                *)
(***************************************************************************)
THEOREM TypeCorrect == Spec => []TypeOK
<1>1. IInv => TypeOK
  <2> SUFFICES ASSUME IInv PROVE TypeOK
    OBVIOUS
  <2>1. /\ w \in Records /\ w.value \in [Sem -> Nat] /\ w.list \in [Queue -> Seq(Task)]
        /\ w.timed \subseteq Task /\ w.success \in [Task -> BOOLEAN] /\ \A m \in Mutexes : w.value[m] <= 1
    BY RecordsFields DEF IInv, Kept, Linked
  <2>2. ASSUME NEW s \in Sem PROVE w.value[s] \in 0 .. msg_max
    <3>1. w.value[s] \in Nat /\ msg_max \in Nat \ {0}
      BY <2>1, MsgQueueAssumption
    <3>2. CASE s \in Mutexes
      <4>1. w.value[s] <= 1
        BY <2>1, <3>2
      <4> QED BY <3>1, <4>1
    <3>3. CASE s \in Counters
      <4>1. /\ w.value[sem_get] \in Nat /\ w.value[sem_put] \in Nat /\ Cardinality(WorkingIn(w, pc)) \in Nat
            /\ w.value[sem_get] + w.value[sem_put] + Cardinality(WorkingIn(w, pc)) = msg_max
        BY Data, CountTypes, Counted DEF IInv, Amounts, TotalOf
      <4>2. w.value[sem_get] <= msg_max /\ w.value[sem_put] <= msg_max
        BY <3>1, <4>1
      <4> QED BY <3>1, <3>3, <4>2 DEF Counters
    <3> QED BY <3>2, <3>3, Names
  <2>3. w.value \in [Sem -> 0 .. msg_max]
    BY <2>1, <2>2
  <2>4. w \in [value : [Sem -> 0 .. msg_max], list : [Sem -> Seq(Task)],
               timed : SUBSET Task, success : [Task -> BOOLEAN]]
    BY <2>1, <2>3, Names DEF Records
  <2>5. buf \in [Index -> Msg]
    BY DEF IInv, Typed, IsBuffer, Index
  <2>6. pc \in [Task -> {"idle", "enter", "ask", "granted?", "copied", "give", "leave"}]
    <3>1. Places = {"idle", "enter", "ask", "granted?", "copied", "give", "leave"}
      BY DEF Places, Inner
    <3> QED BY <3>1 DEF IInv, Kept
  <2>7. /\ mutexes \subseteq {mutex_get, mutex_put} /\ users \subseteq Task \cup {Device}
        /\ owner \in [{mutex_get, mutex_put} -> Task \cup {NoTask}] /\ head \in Index /\ tail \in Index
        /\ call \in [Task -> [msecs : Waits, msg : Msg]]
        /\ handed \in [task : Task \cup {NoTask}, items : Seq(Msg)]
    BY DEF IInv, Kept, Typed, Mutexes, CallRecords
  <2> QED BY <2>4, <2>5, <2>6, <2>7 DEF TypeOK
<1> QED BY <1>1, IInvHolds, PTL

(***************************************************************************)
(* Every place of the buffer is free, holds a message, or is in the hands  *)
(* of one task, also when waits time out; and nobody waits on a count that *)
(* is above zero (msgqueue.c over sem.c).                                  *)
(***************************************************************************)
THEOREM PlacesConservedHolds == Spec => []PlacesConserved
<1>1. IInv => PlacesConserved
  <2> SUFFICES ASSUME IInv PROVE PlacesConserved
    OBVIOUS
  <2>1. w.value[sem_get] + w.value[sem_put] + Cardinality({t \in Task : Working(t)}) = msg_max
    BY CountsEqual DEF IInv, Amounts, TotalOf
  <2>2. ASSUME NEW s \in Sem, w.value[s] > 0 PROVE w.list[s] = <<>>
    <3>1. Linked(w) /\ s \in Queue /\ w.value[s] # 0
      BY <2>2, Data, Names
    <3>2. \A t \in Task : where(w)[t] # {s}
      BY <3>1 DEF IInv, Kept
    <3> QED BY <3>1, <3>2, QueueMembers
  <2> QED BY <2>1, <2>2 DEF PlacesConserved
<1> QED BY <1>1, IInvHolds, PTL

(***************************************************************************)
(* A mutex belongs to the one task of its side that is past it, and its    *)
(* semaphore is down then (mutex.c:61-66, 86-90).                          *)
(***************************************************************************)
THEOREM MutexAgreesHolds == Spec => []MutexAgrees
<1>1. IInv => MutexAgrees
  <2> SUFFICES ASSUME IInv, NEW t \in Task, Mutex(t) \in mutexes
               PROVE  /\ pc[t] \in Inner <=> owner[Mutex(t)] = t
                      /\ owner[Mutex(t)] = t => w.value[Mutex(t)] = 0
    BY DEF MutexAgrees, Inner
  <2> DEFINE m == Mutex(t)
  <2>1. pc[t] \in Inner <=> owner[m] = t
    BY DEF IInv, Kept, Seated
  <2>2. ASSUME owner[m] = t PROVE w.value[m] = 0
    <3>1. Locked(w, m, InsideMutex(pc, m), AskedMutex(pc, m)) /\ w.value[m] \in Nat
      BY Data, Names DEF Kept
    <3>2. t \in Past(w, m, InsideMutex(pc, m), AskedMutex(pc, m))
      BY <2>1, <2>2 DEF Past, InsideMutex
    <3> HIDE DEF m
    <3>3. w.value[m] <= 1 /\ w.value[m] # 1
      BY <3>1, <3>2 DEF Locked
    <3> QED BY <3>1, <3>3
  <2> QED BY <2>1, <2>2
<1> QED BY <1>1, IInvHolds, PTL

(***************************************************************************)
(* The message queue implements the channel: messages come out once, in    *)
(* the order they went in, and never more than msg_max are inside.         *)
(***************************************************************************)
THEOREM MsgQueueImplementsChannel == Spec => ImplementsChannel
<1>1. Init => Promise!Init
  BY InitKeeps
<1>2. IInv /\ [Next]_vars => [Promise!Next]_<<Contents, handed>>
  BY NextKeeps
<1> QED BY <1>1, <1>2, IInvHolds, PTL DEF Spec, ImplementsChannel, Promise!Spec
=============================================================================
