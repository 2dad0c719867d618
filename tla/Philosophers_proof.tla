-------------------------- MODULE Philosophers_proof --------------------------
(***************************************************************************)
(* The dining philosophers share their forks, for any number of them and   *)
(* in all four programs: no fork is held twice, in_use says which are      *)
(* held, and a philosopher that may eat is always about to be woken.       *)
(***************************************************************************)
EXTENDS Philosophers, SyncState_proof

Programs == {"filo", "sfilo", "xfilo", "afilo"}
Asking == {"enter", "return", "reenter"}
Inside == {"test", "taken", "leave_forks", "broadcast", "signal_left", "signal_right", "left"}
TasksAt(p, places) == {t \in Task : p[t] \in places}

(* The condition of a philosopher, in program g.                           *)
condOf(g, t) == IF g = "sfilo" THEN all ELSE own[t]

(* Where a philosopher may wait, given its place.                          *)
Seated(g, v, p, o, t) ==
  /\ p[t] \in Asking => (where(v)[t] = {} => v.success[t])
  /\ p[t] = "woken" => where(v)[t] = {} \/ where(v)[t] = {condOf(g, t)}
  /\ p[t] \notin Asking \cup {"woken"} => where(v)[t] = {}
  /\ p[t] \in Inside => o = t

(* The monitor is kept: g, v, p and o are program, w, pc and owner.        *)
Kept(g, v, p, o) ==
  /\ Linked(v) /\ p \in [Task -> Places] /\ o \in Task \cup {NoTask}
  /\ Locked(v, mon, TasksAt(p, Inside), TasksAt(p, Asking))
  /\ \A t \in Task : Seated(g, v, p, o, t)

(* The others that wait for forks go on to do so.                          *)
Others(v, p, e, t) ==
  \A u \in Task : u # t /\ p[u] = "woken" => where(e)[u] = where(v)[u]

-----------------------------------------------------------------------------
(***************************************************************************)
(* The names of the queues differ.                                         *)
(***************************************************************************)
LEMMA Names ==
  /\ mon \in Sem /\ mon \in Queue /\ FOREVER \in Waits /\ FOREVER # 0
  /\ Task = Phil /\ NoTask \notin Task
  /\ \A g : \A t \in Task : condOf(g, t) \in Queue /\ condOf(g, t) # mon
  /\ \A t, u \in Task : own[t] = own[u] => t = u
  /\ all \in Queue /\ all # mon /\ \A t \in Task : own[t] \in Queue /\ own[t] # mon
<1>1. mon \in Sem /\ all \in Cond /\ Task = Phil /\ NoTask \notin Task /\ Sem \cap Cond = {}
  BY PhilosophersAssumption, SyncStateAssumption
<1>2. \A t \in Task : own[t] \in Cond
  BY PhilosophersAssumption
<1>3. FOREVER # 0 /\ FOREVER \in Waits
  BY SyncStateAssumption DEF Waits
<1>4. \A t, u \in Task : own[t] = own[u] => t = u
  BY PhilosophersAssumption
<1>5. \A c \in Cond : c \in Queue /\ c # mon
  BY <1>1 DEF Queue
<1>6. mon \in Queue
  BY <1>1 DEF Queue
<1> QED BY <1>1, <1>2, <1>3, <1>4, <1>5, <1>6 DEF condOf

(***************************************************************************)
(* A philosopher asks for the monitor.                                     *)
(***************************************************************************)
LEMMA Asks ==
  ASSUME NEW g, NEW v, NEW p, NEW o, Kept(g, v, p, o), NEW t \in Task, where(v)[t] = {},
         p[t] \in {"hungry", "eat", "woken"}, NEW c \in Asking
  PROVE  LET e == WaitSem(v, t, mon, FOREVER)
         IN  Kept(g, e, [p EXCEPT ![t] = c], o) /\ Others(v, p, e, t)
<1> DEFINE e == WaitSem(v, t, mon, FOREVER)
           p2 == [p EXCEPT ![t] = c]
<1>1. /\ Linked(v) /\ p \in [Task -> Places] /\ c \in Places /\ p2 \in [Task -> Places] /\ p2[t] = c
      /\ \A u \in Task : u # t => p2[u] = p[u]
      /\ TasksAt(p2, Inside) = TasksAt(p, Inside) /\ TasksAt(p2, Asking) = TasksAt(p, Asking) \cup {t}
      /\ t \notin TasksAt(p, Inside) \cup TasksAt(p, Asking)
  BY DEF Kept, Asking, Places, Inside, TasksAt
<1>2. \/ Passes(v, e, t, mon)
      \/ v.value[mon] = 0 /\ Joins(v, e, t, mon)
  BY <1>1, Names, WaitSemEffect
<1> HIDE DEF e, p2
<1>3. Locked(e, mon, TasksAt(p2, Inside), TasksAt(p2, Asking))
  BY <1>1, <1>2, Names, LockAsked DEF Kept
<1>4. v.success \in [Task -> BOOLEAN]
  BY <1>1, RecordsFields DEF Linked
<1>5. /\ Linked(e)
      /\ \A u \in Task : u # t => where(e)[u] = where(v)[u] /\ e.success[u] = v.success[u]
      /\ where(e)[t] = {} => e.success[t]
  BY <1>2, <1>4 DEF Passes, Joins, Stays, where, Kept
<1>7. ASSUME NEW u \in Task PROVE Seated(g, e, p2, o, u)
  <2>1. CASE u = t
    BY <1>1, <1>5, <2>1 DEF Seated, Asking, Inside
  <2>2. CASE u # t
    BY <1>1, <1>5, <2>2 DEF Seated, Kept
  <2> QED BY <2>1, <2>2
<1>8. Others(v, p, e, t)
  BY <1>5 DEF Others
<1> QED BY <1>1, <1>3, <1>5, <1>7, <1>8 DEF Kept, e, p2

(***************************************************************************)
(* A philosopher that asked for the monitor and runs is the one that owns  *)
(* it.                                                                     *)
(***************************************************************************)
LEMMA Gets ==
  ASSUME NEW g, NEW v, NEW p, NEW o, Kept(g, v, p, o), NEW t \in Task, where(v)[t] = {},
         p[t] \in Asking, NEW c \in Inside
  PROVE  LET e == Returned(v, t)
         IN  Kept(g, e, [p EXCEPT ![t] = c], t) /\ where(e) = where(v)
<1> DEFINE e == Returned(v, t)
           p2 == [p EXCEPT ![t] = c]
<1>1. /\ Linked(v) /\ p \in [Task -> Places] /\ c \in Places /\ p2 \in [Task -> Places] /\ p2[t] = c
      /\ \A u \in Task : u # t => p2[u] = p[u]
      /\ TasksAt(p2, Inside) = TasksAt(p, Inside) \cup {t}
      /\ TasksAt(p2, Asking) = TasksAt(p, Asking) \ {t}
      /\ t \in TasksAt(p, Asking)
  BY DEF Kept, Asking, Places, Inside, TasksAt
<1>2. Stays(v, e) /\ e.value = v.value /\ e.success = [v.success EXCEPT ![t] = FALSE]
  BY <1>1, ReturnedEffect
<1> HIDE DEF e, p2
<1>3. v.success[t]
  BY DEF Kept, Seated
<1>4. Locked(e, mon, TasksAt(p2, Inside), TasksAt(p2, Asking))
  BY <1>1, <1>2, <1>3, Names, LockAnswered DEF Kept
<1>5. v.success \in [Task -> BOOLEAN]
  BY <1>1, RecordsFields DEF Linked
<1>6. /\ Linked(e) /\ where(e) = where(v)
      /\ \A u \in Task : u # t => e.success[u] = v.success[u]
  BY <1>2, <1>5 DEF Stays, Kept
<1>7. \A u \in Task : p[u] \notin Inside
  BY <1>1, <1>3 DEF Kept, Locked, Past, TasksAt
<1>8. ASSUME NEW u \in Task PROVE Seated(g, e, p2, t, u)
  <2>1. CASE u = t
    BY <1>1, <1>6, <2>1 DEF Seated, Asking, Inside
  <2>2. CASE u # t
    BY <1>1, <1>6, <1>7, <2>2 DEF Seated, Kept
  <2> QED BY <2>1, <2>2
<1> QED BY <1>1, <1>4, <1>6, <1>8 DEF Kept, e, p2

(***************************************************************************)
(* The philosopher inside leaves the monitor, to eat, to think or to wait. *)
(***************************************************************************)
LEMMA Leaves ==
  ASSUME NEW g, NEW v, NEW p, NEW o, Kept(g, v, p, o), NEW t \in Task,
         p[t] \in Inside, NEW c \in {"think", "eat", "woken"}
  PROVE  LET e == SignalSem(v, mon)
         IN  /\ Kept(g, e, [p EXCEPT ![t] = c], NoTask)
             /\ where(e)[t] = {} /\ Others(v, p, e, t)
<1> DEFINE e == SignalSem(v, mon)
           p2 == [p EXCEPT ![t] = c]
<1>1. /\ Linked(v) /\ p \in [Task -> Places] /\ c \in Places /\ p2 \in [Task -> Places] /\ p2[t] = c
      /\ \A u \in Task : u # t => p2[u] = p[u]
      /\ TasksAt(p2, Inside) = TasksAt(p, Inside) \ {t} /\ TasksAt(p2, Asking) = TasksAt(p, Asking)
      /\ t \in TasksAt(p, Inside) /\ p[t] \notin Asking \cup {"woken"} /\ c \notin Asking
  BY DEF Kept, Asking, Places, Inside, TasksAt
<1>2. Raises(v, e, mon) \/ \E u \in Task : Wakes(v, e, u, mon, TRUE)
  BY <1>1, Names, SignalSemEffect
<1> HIDE DEF e, p2
<1>3. Locked(e, mon, TasksAt(p2, Inside), TasksAt(p2, Asking))
  <2> DEFINE inside == TasksAt(p, Inside)
             asked == TasksAt(p, Asking)
  <2>1. t \in inside /\ Locked(v, mon, inside, asked)
    BY <1>1 DEF Kept
  <2> HIDE DEF inside, asked
  <2>2. Locked(e, mon, inside \ {t}, asked)
    BY <1>1, <1>2, <2>1, Names, LockReleased
  <2> QED BY <1>1, <2>2 DEF inside, asked
<1>4. v.success \in [Task -> BOOLEAN] /\ where(v)[t] = {}
  BY <1>1, RecordsFields DEF Linked, Kept, Seated
<1>5. /\ Linked(e)
      /\ \A u \in Task : \/ where(e)[u] = where(v)[u] /\ e.success[u] = v.success[u]
                         \/ where(v)[u] = {mon} /\ where(e)[u] = {} /\ e.success[u]
  BY <1>2, <1>4 DEF Raises, Wakes, Stays, where
<1>6. where(e)[t] = {}
  BY <1>4, <1>5
<1>7. \A u \in Task : u # t => p[u] \notin Inside
  BY <1>1 DEF Kept, Locked, Past, TasksAt
<1>8. ASSUME NEW u \in Task PROVE Seated(g, e, p2, NoTask, u)
  <2>1. CASE u = t
    BY <1>1, <1>6, <2>1 DEF Seated, Inside
  <2>2. CASE u # t
    BY <1>1, <1>5, <1>7, <2>2, Names DEF Seated, Kept
  <2> QED BY <2>1, <2>2
<1>9. Others(v, p, e, t)
  <2>1. \A u \in Task : where(v)[u] = {mon} => p[u] # "woken"
    BY DEF Kept, Locked, TasksAt, Asking
  <2> QED BY <1>5, <2>1 DEF Others
<1> QED BY <1>1, <1>3, <1>5, <1>6, <1>8, <1>9 DEF Kept, e, p2

(***************************************************************************)
(* The philosopher waits for its condition.                                *)
(***************************************************************************)
LEMMA WaitsForCondition ==
  ASSUME NEW g, NEW v, NEW p, NEW o, Kept(g, v, p, o), NEW t \in Task, p[t] = "woken", where(v)[t] = {}
  PROVE  LET e == WaitQueue(v, t, condOf(g, t), FOREVER)
         IN  Kept(g, e, p, o) /\ Others(v, p, e, t) /\ where(e)[t] = {condOf(g, t)}
<1> DEFINE q == condOf(g, t)
           n == FOREVER
           e == WaitQueue(v, t, q, n)
<1>1. Linked(v) /\ v.success \in [Task -> BOOLEAN] /\ v.value \in [Sem -> Nat] /\ q \in Queue /\ q # mon
  BY RecordsFields, Names DEF Kept, Linked
<1>2. Joins(v, e, t, q)
  <2>1. n \in Waits /\ n # 0
    BY Names
  <2> HIDE DEF q, n
  <2> QED BY <1>1, <2>1, WaitQueueEffect
<1> HIDE DEF q
<1> HIDE DEF e
<1>3. /\ Linked(e) /\ e.value = v.value /\ e.success = v.success
      /\ \A u \in Task : u # t => where(e)[u] = where(v)[u]
      /\ where(e)[t] = {q}
  BY <1>1, <1>2 DEF Joins, where, Kept
<1>4. t \notin TasksAt(p, Asking) /\ where(e)[t] # {mon}
  BY <1>1, <1>3 DEF TasksAt, Asking
<1>5. Locked(e, mon, TasksAt(p, Inside), TasksAt(p, Asking))
  <2> DEFINE inside == TasksAt(p, Inside)
             asked == TasksAt(p, Asking)
  <2>1. e.value[mon] = v.value[mon] /\ Locked(v, mon, inside, asked) /\ t \notin asked
    BY <1>3, <1>4 DEF Kept
  <2> HIDE DEF inside, asked
  <2>2. \A u \in Task : \/ where(e)[u] = where(v)[u] /\ e.success[u] = v.success[u]
                        \/ u \notin asked /\ where(e)[u] # {mon}
    BY <1>3, <1>4, <2>1
  <2>3. Locked(e, mon, inside, asked)
    BY <2>1, <2>2, Names, LockKept
  <2> QED BY <2>3 DEF inside, asked
<1>6. ASSUME NEW u \in Task PROVE Seated(g, e, p, o, u)
  <2>1. CASE u = t
    BY <1>3, <2>1 DEF Seated, Inside, Asking, q
  <2>2. CASE u # t
    BY <1>3, <2>2 DEF Seated, Kept
  <2> QED BY <2>1, <2>2
<1>7. Others(v, p, e, t)
  BY <1>3 DEF Others
<1> QED BY <1>3, <1>5, <1>6, <1>7 DEF Kept, e, q, n

(***************************************************************************)
(* The tasks that wait for their forks are woken, some or all of them.     *)
(***************************************************************************)
LEMMA EndsWaits ==
  ASSUME NEW g, NEW v, NEW p, NEW o, Kept(g, v, p, o), NEW e, Linked(e), e.value = v.value,
         \A u \in Task : \/ where(e)[u] = where(v)[u] /\ e.success[u] = v.success[u]
                         \/ p[u] = "woken" /\ where(e)[u] = {}
  PROVE  Kept(g, e, p, o)
<1>1. Locked(e, mon, TasksAt(p, Inside), TasksAt(p, Asking))
  <2> DEFINE inside == TasksAt(p, Inside)
             asked == TasksAt(p, Asking)
  <2>1. e.value[mon] = v.value[mon] /\ Locked(v, mon, inside, asked)
    BY DEF Kept
  <2>2. \A u \in Task : p[u] = "woken" => u \notin asked
    BY DEF TasksAt, Asking
  <2> HIDE DEF inside, asked
  <2>3. \A u \in Task : \/ where(e)[u] = where(v)[u] /\ e.success[u] = v.success[u]
                        \/ u \notin asked /\ where(e)[u] # {mon}
    BY <2>2
  <2>4. Locked(e, mon, inside, asked)
    BY <2>1, <2>3, Names, LockKept
  <2> QED BY <2>4 DEF inside, asked
<1>2. ASSUME NEW u \in Task PROVE Seated(g, e, p, o, u)
  <2>1. CASE where(e)[u] = where(v)[u] /\ e.success[u] = v.success[u]
    BY <2>1 DEF Seated, Kept
  <2>2. CASE p[u] = "woken" /\ where(e)[u] = {}
    BY <2>2 DEF Seated, Asking, Inside
  <2> QED BY <2>1, <2>2
<1> QED BY <1>1, <1>2 DEF Kept

(***************************************************************************)
(* The philosopher inside goes from a place to another one.                *)
(***************************************************************************)
LEMMA GoesOnInside ==
  ASSUME NEW g, NEW v, NEW p, NEW o, Kept(g, v, p, o), NEW t \in Task, p[t] \in Inside, NEW c \in Inside
  PROVE  Kept(g, v, [p EXCEPT ![t] = c], o)
<1> DEFINE p2 == [p EXCEPT ![t] = c]
<1>1. /\ p2 \in [Task -> Places] /\ p2[t] = c /\ \A u \in Task : u # t => p2[u] = p[u]
      /\ TasksAt(p2, Inside) = TasksAt(p, Inside) /\ TasksAt(p2, Asking) = TasksAt(p, Asking)
  BY DEF Kept, Asking, Places, Inside, TasksAt
<1> HIDE DEF p2
<1>2. ASSUME NEW u \in Task PROVE Seated(g, v, p2, o, u)
  <2>1. CASE u = t
    BY <1>1, <2>1 DEF Seated, Kept, Inside, Asking
  <2>2. CASE u # t
    BY <1>1, <2>2 DEF Seated, Kept
  <2> QED BY <2>1, <2>2
<1> QED BY <1>1, <1>2 DEF Kept, p2

(***************************************************************************)
(* A philosopher outside the monitor goes from a place to another one.     *)
(***************************************************************************)
LEMMA GoesOnOutside ==
  ASSUME NEW g, NEW v, NEW p, NEW o, Kept(g, v, p, o), NEW t \in Task, where(v)[t] = {},
         p[t] \notin Inside \cup Asking, NEW c \in Places \ (Inside \cup Asking)
  PROVE  Kept(g, v, [p EXCEPT ![t] = c], o)
<1> DEFINE p2 == [p EXCEPT ![t] = c]
<1>1. /\ p2 \in [Task -> Places] /\ p2[t] = c /\ \A u \in Task : u # t => p2[u] = p[u]
      /\ TasksAt(p2, Inside) = TasksAt(p, Inside) /\ TasksAt(p2, Asking) = TasksAt(p, Asking)
  BY DEF Kept, TasksAt
<1> HIDE DEF p2
<1>2. ASSUME NEW u \in Task PROVE Seated(g, v, p2, o, u)
  <2>1. CASE u = t
    BY <1>1, <2>1 DEF Seated
  <2>2. CASE u # t
    BY <1>1, <2>2 DEF Seated, Kept
  <2> QED BY <2>1, <2>2
<1> QED BY <1>1, <1>2 DEF Kept, p2

-----------------------------------------------------------------------------
(***************************************************************************)
(* The table is round.                                                     *)
(***************************************************************************)
LEMMA Circle ==
  /\ \A i \in Phil : /\ next(i) \in Phil /\ prev(i) \in Phil /\ next(i) # i /\ prev(i) # i
                     /\ next(prev(i)) = i /\ prev(next(i)) = i
  /\ \A i, j \in Phil : Forks(i) \cap Forks(j) # {} <=> j \in {i, next(i), prev(i)}
<1>1. NF \in Nat /\ NF >= 2
  BY PhilosophersAssumption
<1>2. ASSUME NEW i \in Phil
      PROVE  /\ next(i) \in Phil /\ prev(i) \in Phil /\ next(i) # i /\ prev(i) # i
             /\ next(prev(i)) = i /\ prev(next(i)) = i
  <2>1. i \in Nat /\ i <= NF - 1
    BY <1>1 DEF Phil
  <2>2. next(i) \in Phil /\ prev(i) \in Phil /\ next(i) # i /\ prev(i) # i
    BY <1>1, <2>1 DEF Phil, next, prev
  <2>3. next(prev(i)) = i
    BY <1>1, <2>1 DEF next, prev
  <2>4. prev(next(i)) = i
    BY <1>1, <2>1 DEF next, prev
  <2> QED BY <2>2, <2>3, <2>4
<1>3. ASSUME NEW i \in Phil, NEW j \in Phil
      PROVE  Forks(i) \cap Forks(j) # {} <=> j \in {i, next(i), prev(i)}
  <2>1. Forks(i) \cap Forks(j) # {} <=> (i = j \/ i = next(j) \/ next(i) = j \/ next(i) = next(j))
    BY DEF Forks
  <2>2. next(i) = next(j) => i = j
    BY <1>2
  <2>3. i = next(j) <=> j = prev(i)
    BY <1>2
  <2> QED BY <2>1, <2>2, <2>3
<1> QED BY <1>2, <1>3

(* The forks of the philosophers in H, and no two of these sit side by     *)
(* side.                                                                   *)
ForksOf(H) == UNION {Forks(i) : i \in H}
Apart(H) == H \subseteq Phil /\ \A i \in H : next(i) \notin H
Shared(u, H) == u = ForksOf(H) /\ Apart(H)

(***************************************************************************)
(* The forks of a philosopher are free if neither it nor those beside it   *)
(* hold theirs.                                                            *)
(***************************************************************************)
LEMMA ForksFree ==
  ASSUME NEW u, NEW H, Shared(u, H), NEW i \in Phil
  PROVE  Forks(i) \cap u = {} <=> i \notin H /\ next(i) \notin H /\ prev(i) \notin H
<1>1. H \subseteq Phil
  BY DEF Shared, Apart
<1>2. Forks(i) \cap u # {} <=> \E j \in H : Forks(i) \cap Forks(j) # {}
  BY DEF Shared, ForksOf
<1>3. \A j \in H : Forks(i) \cap Forks(j) # {} <=> j \in {i, next(i), prev(i)}
  BY <1>1, Circle
<1> QED BY <1>2, <1>3

(***************************************************************************)
(* Free forks are taken.                                                   *)
(***************************************************************************)
LEMMA ForksTaken ==
  ASSUME NEW u, NEW H, Shared(u, H), NEW i \in Phil, Forks(i) \cap u = {}
  PROVE  Shared(u \cup Forks(i), H \cup {i})
<1>1. i \notin H /\ next(i) \notin H /\ prev(i) \notin H
  BY ForksFree
<1>2. ForksOf(H \cup {i}) = u \cup Forks(i)
  BY DEF Shared, ForksOf
<1>3. \A j \in H : next(j) # i
  BY <1>1, Circle DEF Shared, Apart
<1>4. next(i) # i
  BY Circle
<1> QED BY <1>1, <1>2, <1>3, <1>4 DEF Shared, Apart

(***************************************************************************)
(* Forks are left.                                                         *)
(***************************************************************************)
LEMMA ForksLeft ==
  ASSUME NEW u, NEW H, Shared(u, H), NEW i \in H
  PROVE  Shared(u \ Forks(i), H \ {i})
<1>1. H \subseteq Phil
  BY DEF Shared, Apart
<1>2. ASSUME NEW j \in H \ {i} PROVE Forks(j) \cap Forks(i) = {}
  <2>1. i # j /\ i # next(j) /\ next(i) # j
    BY <1>2 DEF Shared, Apart
  <2>2. i # prev(j)
    BY <1>1, <2>1, Circle
  <2> QED BY <1>1, <2>1, <2>2, Circle
<1>3. ForksOf(H \ {i}) = u \ Forks(i)
  BY <1>2 DEF Shared, ForksOf
<1> QED BY <1>3 DEF Shared, Apart
-----------------------------------------------------------------------------
Holding == {"taken", "eat", "return", "leave_forks"}
Signals == {"signal_left", "signal_right", "broadcast"}
Waiting == {"hungry", "enter", "test", "woken", "reenter"}

(* Those that hold their forks, and those that wait until they are woken:  *)
(* g, v, p and ps are program, w, pc and paused.                           *)
HoldersOf(g, v, p, ps) ==
  {i \in Phil :
    \/ p[i] \in Holding
    \/ g \in {"xfilo", "afilo"}
       /\ (p[i] = "reenter" \/ (p[i] = "woken" /\ i \notin ps /\ where(v)[i] = {}))}

SleepersOf(v, p, ps) == {i \in Phil : p[i] = "woken" /\ (i \in ps \/ where(v)[i] # {})}

(* What the programs differ in; h is hungry.                               *)
Ways(g, v, p, h, ps) ==
  /\ g = "afilo" =>
       \A i \in Phil : p[i] \in {"think", "hungry", "woken", "eat"} /\ where(v)[i] = {}
  /\ g # "afilo" => ps = {}
  /\ ps \subseteq TasksAt(p, {"woken"})
  /\ h = IF g \in {"xfilo", "afilo"} THEN TasksAt(p, {"woken", "reenter"}) ELSE {}

(* Those of S whose forks are free, while u are in use, will be looked at. *)
Due(p, S, u) ==
  \A i \in S : Forks(i) \cap u = {} =>
    \/ p[next(i)] = "signal_left"
    \/ p[prev(i)] \in {"signal_left", "signal_right"}
    \/ \E j \in Phil : p[j] = "broadcast"

Fine(g, v, p, o, u, h, ps) ==
  /\ Kept(g, v, p, o) /\ Ways(g, v, p, h, ps)
  /\ Shared(u, HoldersOf(g, v, p, ps))
  /\ Due(p, SleepersOf(v, p, ps), u)

IInv == program \in Programs /\ Fine(program, w, pc, owner, in_use, hungry, paused)

PhaseOf(H, p) ==
  [i \in Phil |-> IF i \in H THEN "eating" ELSE IF p[i] \in Waiting THEN "hungry" ELSE "thinking"]

(***************************************************************************)
(* What the properties say of those that hold and of those that sleep.     *)
(***************************************************************************)
LEMMA Meaning ==
  ASSUME IInv
  PROVE  /\ \A i \in Phil : Holds(i) <=> i \in HoldersOf(program, w, pc, paused)
         /\ \A i \in Phil : Sleeps(i) <=> i \in SleepersOf(w, pc, paused)
         /\ phase = PhaseOf(HoldersOf(program, w, pc, paused), pc)
<1>1. /\ Task = Phil
      /\ \A i \in Phil : Runs(w, i) <=> where(w)[i] = {}
  BY Names, RunsNowhere
<1>2. /\ hungry = IF program \in {"xfilo", "afilo"} THEN TasksAt(pc, {"woken", "reenter"}) ELSE {}
      /\ program # "afilo" => paused = {}
      /\ program = "afilo" => \A i \in Phil : pc[i] # "reenter"
  BY DEF IInv, Fine, Ways
<1>3. \A i \in Phil : Holds(i) <=> i \in HoldersOf(program, w, pc, paused)
  BY <1>1, <1>2 DEF Holds, Given, HandsOver, HoldersOf, Holding, TasksAt
<1>4. \A i \in Phil : Sleeps(i) <=> i \in SleepersOf(w, pc, paused)
  BY <1>1 DEF Sleeps, SleepersOf
<1>5. phase = PhaseOf(HoldersOf(program, w, pc, paused), pc)
  BY <1>3 DEF phase, PhaseOf, Waiting
<1> QED BY <1>3, <1>4, <1>5

(***************************************************************************)
(* The same after a step.                                                  *)
(***************************************************************************)
LEMMA MeaningNext ==
  ASSUME IInv'
  PROVE  phase' = PhaseOf(HoldersOf(program', w', pc', paused'), pc')
<1>1. /\ Task = Phil
      /\ \A i \in Phil : Runs(w', i) <=> where(w')[i] = {}
  BY Names, RunsNowhere
<1>2. /\ hungry' = IF program' \in {"xfilo", "afilo"} THEN TasksAt(pc', {"woken", "reenter"}) ELSE {}
      /\ program' # "afilo" => paused' = {}
      /\ program' = "afilo" => \A i \in Phil : pc'[i] # "reenter"
  BY DEF IInv, Fine, Ways
<1>3. \A i \in Phil : Holds(i)' <=> i \in HoldersOf(program', w', pc', paused')
  BY <1>1, <1>2 DEF Holds, Given, HandsOver, HoldersOf, Holding, TasksAt
<1> QED BY <1>3 DEF phase, PhaseOf, Waiting

(***************************************************************************)
(* One philosopher moves: nothing changes for the others.                  *)
(***************************************************************************)
LEMMA Rest ==
  ASSUME NEW g, NEW v, NEW p \in [Task -> Places], NEW ps, NEW t \in Phil, NEW c \in Places,
         NEW e, Others(v, p, e, t)
  PROVE  LET p2 == [p EXCEPT ![t] = c]
         IN  \A i \in Phil \ {t} :
               /\ p2[i] = p[i]
               /\ i \in HoldersOf(g, e, p2, ps) <=> i \in HoldersOf(g, v, p, ps)
               /\ i \in SleepersOf(e, p2, ps) <=> i \in SleepersOf(v, p, ps)
<1> DEFINE p2 == [p EXCEPT ![t] = c]
<1>1. Task = Phil /\ \A i \in Phil \ {t} : p2[i] = p[i]
  BY Names
<1> HIDE DEF p2
<1>2. ASSUME NEW i \in Phil \ {t}
      PROVE  /\ i \in HoldersOf(g, e, p2, ps) <=> i \in HoldersOf(g, v, p, ps)
             /\ i \in SleepersOf(e, p2, ps) <=> i \in SleepersOf(v, p, ps)
  <2>1. p2[i] = p[i] /\ (p[i] = "woken" => where(e)[i] = where(v)[i])
    BY <1>1 DEF Others
  <2> QED BY <2>1 DEF HoldersOf, SleepersOf
<1> QED BY <1>1, <1>2 DEF p2

(***************************************************************************)
(* hungry, when a philosopher of a monitor moves.                          *)
(***************************************************************************)
LEMMA WaysKept ==
  ASSUME NEW g \in Programs \ {"afilo"}, NEW v, NEW p \in [Task -> Places], NEW h, NEW ps, Ways(g, v, p, h, ps),
         NEW t \in Phil, NEW c \in Places, NEW e
  PROVE  /\ Ways(g, e, [p EXCEPT ![t] = c],
                 IF g = "xfilo" /\ c \in {"woken", "reenter"} THEN h \cup {t} ELSE h \ {t}, ps)
         /\ ps = {}
<1> DEFINE p2 == [p EXCEPT ![t] = c]
           h2 == IF g = "xfilo" /\ c \in {"woken", "reenter"} THEN h \cup {t} ELSE h \ {t}
<1>1. p2[t] = c /\ \A i \in Task : i # t => p2[i] = p[i]
  BY Names
<1>2. ps = {} /\ h = IF g = "xfilo" THEN TasksAt(p, {"woken", "reenter"}) ELSE {}
  BY DEF Ways
<1> HIDE DEF p2
<1>3. h2 = IF g = "xfilo" THEN TasksAt(p2, {"woken", "reenter"}) ELSE {}
  BY <1>1, <1>2, Names DEF TasksAt
<1> HIDE DEF h2
<1>4. Ways(g, e, p2, h2, ps)
  BY <1>2, <1>3 DEF Ways
<1> QED BY <1>2, <1>4 DEF p2, h2

(* What a step of the monitor does that takes no forks, leaves none and    *)
(* wakes nobody who waits for them.                                        *)
Calm(g, v, p, o, u, h, ps, t, c, e, o2) ==
  /\ Fine(g, v, p, o, u, h, ps) /\ g \in Programs \ {"afilo"} /\ t \in Phil /\ c \in Places
  /\ Kept(g, e, [p EXCEPT ![t] = c], o2) /\ Others(v, p, e, t)
  /\ p[t] \notin Signals
  /\ c = "woken" => where(e)[t] # {} /\ Forks(t) \cap u # {}
  /\ t \in HoldersOf(g, v, p, ps) <=> c \in Holding \cup (IF g = "xfilo" THEN {"reenter"} ELSE {})

Calmed(g, v, p, u, h, ps, t, c, e, o2) ==
  LET p2 == [p EXCEPT ![t] = c]
      h2 == IF g = "xfilo" /\ c \in {"woken", "reenter"} THEN h \cup {t} ELSE h \ {t}
  IN  /\ Fine(g, e, p2, o2, u, h2, ps)
      /\ HoldersOf(g, e, p2, ps) = HoldersOf(g, v, p, ps)

(***************************************************************************)
(* Such a step changes nothing for the forks.                              *)
(***************************************************************************)
LEMMA CalmKeeps ==
  ASSUME NEW g, NEW v, NEW p, NEW o, NEW u, NEW h, NEW ps, NEW t, NEW c, NEW e, NEW o2,
         Calm(g, v, p, o, u, h, ps, t, c, e, o2)
  PROVE  Calmed(g, v, p, u, h, ps, t, c, e, o2)
<1> DEFINE p2 == [p EXCEPT ![t] = c]
           h2 == IF g = "xfilo" /\ c \in {"woken", "reenter"} THEN h \cup {t} ELSE h \ {t}
           H == HoldersOf(g, v, p, ps)
           H2 == HoldersOf(g, e, p2, ps)
           S == SleepersOf(v, p, ps)
           S2 == SleepersOf(e, p2, ps)
<1>1. /\ p \in [Task -> Places] /\ t \in Phil /\ c \in Places /\ g \in Programs \ {"afilo"}
      /\ Ways(g, v, p, h, ps) /\ Shared(u, H) /\ Due(p, S, u) /\ Kept(g, e, p2, o2)
      /\ Others(v, p, e, t) /\ Task = Phil
  BY Names DEF Calm, Fine, Kept
<1>2. ps = {} /\ Ways(g, e, p2, h2, ps)
  BY <1>1, WaysKept
<1>3. \A i \in Phil \ {t} : /\ p2[i] = p[i]
                            /\ i \in H2 <=> i \in H
                            /\ i \in S2 <=> i \in S
  BY <1>1, Rest
<1>4. p2[t] = c
  BY <1>1
<1> HIDE DEF p2, h2
<1>5. t \in H2 <=> t \in H
  <2>1. t \in H2 <=> c \in Holding \cup (IF g = "xfilo" THEN {"reenter"} ELSE {})
    BY <1>1, <1>2, <1>4 DEF HoldersOf, Calm, Programs, Holding
  <2> QED BY <2>1 DEF Calm
<1>6. H2 = H
  <2>1. H2 \subseteq Phil /\ H \subseteq Phil
    BY DEF HoldersOf
  <2> HIDE DEF H, H2, S, S2
  <2> QED BY <1>3, <1>5, <2>1
<1>7. Due(p2, S2, u)
  <2>1. t \in S2 => Forks(t) \cap u # {}
    BY <1>2, <1>4 DEF SleepersOf, Calm
  <2>2. p[t] \notin Signals /\ S2 \subseteq Phil
    BY DEF Calm, SleepersOf
  <2> HIDE DEF H, H2, S, S2
  <2>3. ASSUME NEW i \in S2, Forks(i) \cap u = {}
        PROVE  \/ p2[next(i)] = "signal_left"
               \/ p2[prev(i)] \in {"signal_left", "signal_right"}
               \/ \E j \in Phil : p2[j] = "broadcast"
    <3>1. i \in Phil /\ i \in S /\ next(i) \in Phil /\ prev(i) \in Phil
      BY <1>3, <2>1, <2>2, <2>3, Circle
    <3>2. \A j \in Phil : p[j] \in Signals => p2[j] = p[j]
      BY <1>3, <2>2
    <3> QED BY <1>1, <2>3, <3>1, <3>2 DEF Due, Signals
  <2> QED BY <2>3 DEF Due
<1>8. Fine(g, e, p2, o2, u, h2, ps) /\ HoldersOf(g, e, p2, ps) = HoldersOf(g, v, p, ps)
  BY <1>1, <1>2, <1>6, <1>7 DEF Fine
<1> HIDE DEF H, H2, S, S2
<1> QED BY <1>8 DEF Calmed, p2, h2
-----------------------------------------------------------------------------
(* The monitor.                                                            *)

(***************************************************************************)
(* A philosopher that acts waits nowhere.                                  *)
(***************************************************************************)
LEMMA AtNowhere ==
  ASSUME NEW i \in Phil, NEW c, At(i, c)
  PROVE  pc[i] = c /\ where(w)[i] = {} /\ i \notin paused /\ i \in Task
BY RunsNowhere, Names DEF At

(***************************************************************************)
(* The parts of the invariant.                                             *)
(***************************************************************************)
LEMMA Parts ==
  ASSUME IInv
  PROVE  /\ program \in Programs /\ Fine(program, w, pc, owner, in_use, hungry, paused)
         /\ Kept(program, w, pc, owner) /\ Linked(w) /\ pc \in [Task -> Places] /\ Task = Phil
         /\ Ways(program, w, pc, hungry, paused)
         /\ Shared(in_use, HoldersOf(program, w, pc, paused))
         /\ Due(pc, SleepersOf(w, pc, paused), in_use)
         /\ program # "afilo" =>
              /\ paused = {}
              /\ \A i \in Phil : i \in hungry <=> program = "xfilo" /\ pc[i] \in {"woken", "reenter"}
<1>1. program \in Programs /\ Fine(program, w, pc, owner, in_use, hungry, paused) /\ Task = Phil
  BY Names DEF IInv
<1>2. Kept(program, w, pc, owner) /\ Ways(program, w, pc, hungry, paused)
  BY <1>1 DEF Fine
<1>3. ASSUME program # "afilo"
      PROVE  /\ paused = {}
             /\ \A i \in Phil : i \in hungry <=> program = "xfilo" /\ pc[i] \in {"woken", "reenter"}
  BY <1>1, <1>2, <1>3 DEF Ways, TasksAt
<1> QED BY <1>1, <1>2, <1>3 DEF Fine, Kept

(* What a step does: it keeps the invariant and is a step of Dining, or    *)
(* changes no phase.                                                       *)
Does == IInv' /\ (phase' = phase \/ Table!Next)

(***************************************************************************)
(* A calm step of a program with a monitor.                                *)
(***************************************************************************)
LEMMA CalmStep ==
  ASSUME IInv, NEW t \in Phil, NEW c \in Places,
         Calm(program, w, pc, owner, in_use, hungry, paused, t, c, w', owner'),
         program' = program, in_use' = in_use, paused' = paused, pc' = [pc EXCEPT ![t] = c],
         hungry' = IF program = "xfilo" /\ c \in {"woken", "reenter"} THEN hungry \cup {t} ELSE hungry \ {t}
  PROVE  /\ IInv' /\ phase' = PhaseOf(HoldersOf(program, w, pc, paused), pc')
         /\ (t \in HoldersOf(program, w, pc, paused) \/ (pc[t] \in Waiting <=> c \in Waiting)) => phase' = phase
<1> DEFINE H == HoldersOf(program, w, pc, paused)
<1>1. /\ Fine(program, w', pc', owner', in_use', hungry', paused')
      /\ HoldersOf(program, w', pc', paused') = H
  <2> DEFINE p2 == [pc EXCEPT ![t] = c]
             h2 == IF program = "xfilo" /\ c \in {"woken", "reenter"} THEN hungry \cup {t} ELSE hungry \ {t}
  <2>1. /\ Fine(program, w', p2, owner', in_use, h2, paused)
        /\ HoldersOf(program, w', p2, paused) = H
    <3>1. Calmed(program, w, pc, in_use, hungry, paused, t, c, w', owner')
      BY CalmKeeps
    <3> QED BY <3>1 DEF Calmed
  <2>2. pc' = p2 /\ hungry' = h2
    OBVIOUS
  <2> HIDE DEF p2, h2, H
  <2> QED BY <2>1, <2>2
<1>2. IInv'
  BY <1>1 DEF IInv
<1>3. phase' = PhaseOf(H, pc') /\ phase = PhaseOf(H, pc)
  BY <1>1, <1>2, Meaning, MeaningNext
<1>4. pc'[t] = c /\ \A i \in Phil : i # t => pc'[i] = pc[i]
  BY Parts
<1> HIDE DEF H
<1>5. ASSUME t \in H \/ (pc[t] \in Waiting <=> c \in Waiting) PROVE phase' = phase
  BY <1>3, <1>4, <1>5 DEF PhaseOf
<1> QED BY <1>2, <1>3, <1>5 DEF H

(***************************************************************************)
(* The delay of think ends, in a program with a monitor.                   *)
(***************************************************************************)
LEMMA BecomeHungryKeeps ==
  ASSUME IInv, NEW i \in Phil, BecomeHungry(i), program # "afilo"
  PROVE  Does
<1>1. pc[i] = "think" /\ where(w)[i] = {} /\ i \in Task
  BY AtNowhere DEF BecomeHungry
<1>2. pc' = [pc EXCEPT ![i] = "hungry"] /\ UNCHANGED <<program, w, owner, in_use, hungry, paused>>
  BY DEF BecomeHungry, GoTo
<1> DEFINE c == "hungry"
           H == HoldersOf(program, w, pc, paused)
<1>3. c \in Places /\ c \notin Inside \cup Asking /\ c \notin {"woken", "reenter"} /\ c \in Waiting /\ c \notin Holding
  BY DEF Places, Inside, Asking, Waiting, Holding
<1>4. i \notin H /\ pc[i] \notin Signals /\ pc[i] \notin Inside \cup Asking
  BY <1>1 DEF HoldersOf, Holding, Signals, Inside, Asking
<1> HIDE DEF c
<1>5. Kept(program, w, [pc EXCEPT ![i] = c], owner)
  BY <1>1, <1>3, <1>4, Parts, GoesOnOutside
<1>6. Calm(program, w, pc, owner, in_use, hungry, paused, i, c, w', owner')
  BY <1>2, <1>3, <1>4, <1>5, Parts DEF Calm, Others, H
<1>7. hungry' = IF program = "xfilo" /\ c \in {"woken", "reenter"} THEN hungry \cup {i} ELSE hungry \ {i}
  BY <1>1, <1>2, <1>3, Parts
<1>8. IInv' /\ phase' = PhaseOf(H, pc')
  BY <1>2, <1>3, <1>6, <1>7, CalmStep DEF c
<1>9. Table!BecomeHungry(i)
  <2>1. phase = PhaseOf(H, pc)
    BY Meaning
  <2>2. pc'[i] = c /\ \A j \in Phil : j # i => pc'[j] = pc[j]
    BY <1>2, Parts DEF c
  <2>3. phase[i] = "thinking"
    BY <1>1, <1>4, <2>1 DEF PhaseOf, Waiting
  <2> HIDE DEF H
  <2>4. phase' = [phase EXCEPT ![i] = "hungry"]
    BY <1>3, <1>4, <1>8, <2>1, <2>2 DEF PhaseOf
  <2> QED BY <2>3, <2>4 DEF Table!BecomeHungry
<1> QED BY <1>8, <1>9 DEF Does, Table!Next

(***************************************************************************)
(* EnterMonitor.                                                           *)
(***************************************************************************)
LEMMA EnterMonitorKeeps ==
  ASSUME IInv, NEW i \in Phil, EnterMonitor(i), program # "afilo"
  PROVE  Does
<1>1. (pc[i] = "hungry" \/ pc[i] = "eat") /\ where(w)[i] = {} /\ i \in Task
  BY AtNowhere DEF EnterMonitor
<1> DEFINE c == IF pc[i] = "hungry" THEN "enter" ELSE "return"
           H == HoldersOf(program, w, pc, paused)
<1>2. /\ pc' = [pc EXCEPT ![i] = c] /\ w' = WaitSem(w, i, mon, FOREVER)
      /\ UNCHANGED <<program, owner, in_use, hungry, paused>>
  BY AtNowhere DEF EnterMonitor, GoTo
<1>3. /\ c \in Places /\ c \in Asking /\ c \notin {"woken", "reenter"} /\ (c \in Holding <=> pc[i] \in Holding)
      /\ pc[i] \in Waiting <=> c \in Waiting
  BY <1>1 DEF Places, Asking, Waiting, Holding
<1>4. (i \in H <=> pc[i] \in Holding) /\ pc[i] \notin Signals /\ i \notin hungry
  BY <1>1, Parts DEF HoldersOf, Signals
<1> HIDE DEF c
<1>5. Kept(program, w', [pc EXCEPT ![i] = c], owner) /\ Others(w, pc, w', i)
  BY <1>1, <1>2, <1>3, Parts, Asks
<1>6. Calm(program, w, pc, owner, in_use, hungry, paused, i, c, w', owner')
  BY <1>2, <1>3, <1>4, <1>5, Parts DEF Calm, H
<1> QED BY <1>2, <1>3, <1>4, <1>6, CalmStep DEF Does

(***************************************************************************)
(* The way back of EnterMonitor.                                           *)
(***************************************************************************)
LEMMA EnteredKeeps ==
  ASSUME IInv, NEW i \in Phil, Entered(i), program # "afilo"
  PROVE  Does
<1>1. (pc[i] = "enter" \/ pc[i] = "return") /\ where(w)[i] = {} /\ i \in Task
  BY AtNowhere DEF Entered
<1> DEFINE c == IF pc[i] = "enter" THEN "test" ELSE "leave_forks"
           H == HoldersOf(program, w, pc, paused)
<1>2. /\ pc' = [pc EXCEPT ![i] = c] /\ w' = Returned(w, i) /\ owner' = i
      /\ UNCHANGED <<program, in_use, hungry, paused>>
  BY AtNowhere DEF Entered, GoTo
<1>3. /\ c \in Places /\ c \in Inside /\ c \notin {"woken", "reenter"} /\ (c \in Holding <=> pc[i] \in Holding)
      /\ pc[i] \in Waiting <=> c \in Waiting
      /\ pc[i] \in Asking
  BY <1>1 DEF Places, Inside, Waiting, Holding, Asking
<1>4. (i \in H <=> pc[i] \in Holding) /\ pc[i] \notin Signals /\ i \notin hungry
  BY <1>1, Parts DEF HoldersOf, Signals
<1> HIDE DEF c
<1>5. Kept(program, w', [pc EXCEPT ![i] = c], owner') /\ Others(w, pc, w', i)
  BY <1>1, <1>2, <1>3, Parts, Gets DEF Others
<1>6. Calm(program, w, pc, owner, in_use, hungry, paused, i, c, w', owner')
  BY <1>2, <1>3, <1>4, <1>5, Parts DEF Calm, H
<1> QED BY <1>2, <1>3, <1>4, <1>6, CalmStep DEF Does

(***************************************************************************)
(* LeaveMonitor.                                                           *)
(***************************************************************************)
LEMMA LeaveMonitorKeeps ==
  ASSUME IInv, NEW i \in Phil, LeaveMonitor(i), program # "afilo"
  PROVE  Does
<1>1. (pc[i] = "taken" \/ pc[i] = "left") /\ where(w)[i] = {} /\ i \in Task
  BY AtNowhere DEF LeaveMonitor
<1> DEFINE c == IF pc[i] = "taken" THEN "eat" ELSE "think"
           H == HoldersOf(program, w, pc, paused)
<1>2. /\ pc' = [pc EXCEPT ![i] = c] /\ w' = SignalSem(w, mon) /\ owner' = NoTask
      /\ UNCHANGED <<program, in_use, hungry, paused>>
  BY AtNowhere DEF LeaveMonitor, GoTo
<1>3. /\ c \in Places /\ c \in {"think", "eat", "woken"} /\ c \notin {"woken", "reenter"}
      /\ c \in Holding <=> pc[i] \in Holding
      /\ pc[i] \in Waiting <=> c \in Waiting
      /\ pc[i] \in Inside
  BY <1>1 DEF Places, Inside, Waiting, Holding
<1>4. (i \in H <=> pc[i] \in Holding) /\ pc[i] \notin Signals /\ i \notin hungry
  BY <1>1, Parts DEF HoldersOf, Signals
<1> HIDE DEF c
<1>5. Kept(program, w', [pc EXCEPT ![i] = c], owner') /\ Others(w, pc, w', i)
  BY <1>1, <1>2, <1>3, Parts, Leaves
<1>6. Calm(program, w, pc, owner, in_use, hungry, paused, i, c, w', owner')
  BY <1>2, <1>3, <1>4, <1>5, Parts DEF Calm, H
<1> QED BY <1>2, <1>3, <1>4, <1>6, CalmStep DEF Does

(***************************************************************************)
(* A philosopher that was woken asks for the monitor again.                *)
(***************************************************************************)
LEMMA WokenKeeps ==
  ASSUME IInv, NEW i \in Phil, Woken(i), program # "afilo"
  PROVE  Does
<1>1. pc[i] = "woken" /\ where(w)[i] = {} /\ i \in Task /\ i \notin paused
  BY AtNowhere DEF Woken
<1> DEFINE c == "reenter"
           H == HoldersOf(program, w, pc, paused)
<1>2. /\ pc' = [pc EXCEPT ![i] = c] /\ w' = WaitSem(w, i, mon, FOREVER)
      /\ UNCHANGED <<program, owner, in_use, hungry, paused>>
  BY DEF Woken, GoTo
<1>3. /\ c \in Places /\ c \in Asking /\ c \in {"woken", "reenter"} /\ c # "woken" /\ c \notin Holding
      /\ pc[i] \in Waiting <=> c \in Waiting
  BY <1>1 DEF Places, Asking, Waiting, Holding
<1>4. /\ i \in H <=> program = "xfilo"
      /\ pc[i] \notin Signals
      /\ i \in hungry <=> program = "xfilo"
  BY <1>1, Parts DEF HoldersOf, Signals, Holding
<1>5. c \in Holding \cup (IF program = "xfilo" THEN {"reenter"} ELSE {}) <=> program = "xfilo"
  BY DEF Holding
<1> HIDE DEF c
<1>6. Kept(program, w', [pc EXCEPT ![i] = c], owner) /\ Others(w, pc, w', i)
  BY <1>1, <1>2, <1>3, Parts, Asks
<1>7. Calm(program, w, pc, owner, in_use, hungry, paused, i, c, w', owner')
  BY <1>2, <1>3, <1>4, <1>5, <1>6, Parts DEF Calm, H
<1>8. hungry' = IF program = "xfilo" /\ c \in {"woken", "reenter"} THEN hungry \cup {i} ELSE hungry \ {i}
  BY <1>2, <1>3, <1>4
<1> QED BY <1>2, <1>3, <1>7, <1>8, CalmStep DEF Does

(***************************************************************************)
(* The way back of WaitCondition, with the forks or to test again.         *)
(***************************************************************************)
LEMMA ReenteredKeeps ==
  ASSUME IInv, NEW i \in Phil, Reentered(i), program # "afilo"
  PROVE  Does
<1>1. pc[i] = "reenter" /\ where(w)[i] = {} /\ i \in Task /\ i \notin paused
  BY AtNowhere DEF Reentered
<1> DEFINE c == IF program = "xfilo" THEN "taken" ELSE "test"
           H == HoldersOf(program, w, pc, paused)
<1>2. /\ pc' = [pc EXCEPT ![i] = c] /\ w' = Returned(w, i) /\ owner' = i /\ hungry' = hungry \ {i}
      /\ UNCHANGED <<program, in_use, paused>>
  BY DEF Reentered, GoTo, HandsOver
<1>3. /\ c \in Places /\ c \in Inside /\ c \notin {"woken", "reenter"} /\ (c \in Holding <=> program = "xfilo")
      /\ pc[i] \in Asking /\ (program # "xfilo" => (pc[i] \in Waiting <=> c \in Waiting))
  BY <1>1 DEF Places, Inside, Waiting, Holding, Asking
<1>4. (i \in H <=> program = "xfilo") /\ pc[i] \notin Signals
  BY <1>1, Parts DEF HoldersOf, Signals, Holding
<1> HIDE DEF c
<1>5. Kept(program, w', [pc EXCEPT ![i] = c], owner') /\ Others(w, pc, w', i)
  BY <1>1, <1>2, <1>3, Parts, Gets DEF Others
<1>6. Calm(program, w, pc, owner, in_use, hungry, paused, i, c, w', owner')
  BY <1>2, <1>3, <1>4, <1>5, Parts DEF Calm, H
<1> QED BY <1>2, <1>3, <1>4, <1>6, CalmStep DEF Does

(***************************************************************************)
(* WaitCondition, if a fork is in use.                                     *)
(***************************************************************************)
LEMMA WaitForForksKeeps ==
  ASSUME IInv, NEW i \in Phil, WaitForForks(i), program # "afilo"
  PROVE  Does
<1>1. pc[i] = "test" /\ where(w)[i] = {} /\ i \in Task /\ Forks(i) \cap in_use # {}
  BY AtNowhere DEF WaitForForks, forks_avail
<1> DEFINE c == "woken"
           H == HoldersOf(program, w, pc, paused)
           v == SignalSem(w, mon)
           p == [pc EXCEPT ![i] = c]
<1>2. /\ pc' = p /\ w' = WaitQueue(v, i, condOf(program, i), FOREVER) /\ owner' = NoTask
      /\ hungry' = IF program = "xfilo" THEN hungry \cup {i} ELSE hungry
      /\ UNCHANGED <<program, in_use, paused>>
  BY DEF WaitForForks, GoTo, HandsOver, cond, condOf
<1>3. /\ c \in Places /\ c \in {"think", "eat", "woken"} /\ c \in {"woken", "reenter"} /\ c \notin Holding
      /\ c # "reenter" /\ pc[i] \in Inside
      /\ pc[i] \in Waiting <=> c \in Waiting
  BY <1>1 DEF Places, Inside, Waiting, Holding
<1>4. i \notin H /\ pc[i] \notin Signals /\ i \notin hungry
  BY <1>1, Parts DEF HoldersOf, Signals, Holding
<1>5. p[i] = "woken" /\ \A u \in Task : u # i => p[u] = pc[u]
  BY <1>1, Parts
<1>6. Kept(program, v, p, NoTask) /\ where(v)[i] = {} /\ Others(w, pc, v, i)
  <2> HIDE DEF c
  <2> QED BY <1>1, <1>3, Parts, Leaves
<1> HIDE DEF c, v, p
<1>7. Kept(program, w', p, NoTask) /\ Others(v, p, w', i) /\ where(w')[i] # {}
  <2>1. Kept(program, w', p, NoTask) /\ Others(v, p, w', i) /\ where(w')[i] = {condOf(program, i)}
    BY <1>1, <1>2, <1>5, <1>6, WaitsForCondition
  <2> QED BY <2>1
<1>8. Others(w, pc, w', i)
  BY <1>5, <1>6, <1>7 DEF Others
<1>9. Calm(program, w, pc, owner, in_use, hungry, paused, i, c, w', owner')
  <2>1. c \notin Holding \cup (IF program = "xfilo" THEN {"reenter"} ELSE {})
    BY <1>3
  <2> QED BY <1>1, <1>2, <1>3, <1>4, <1>7, <1>8, <2>1, Parts DEF Calm, H, p
<1>10. hungry' = IF program = "xfilo" /\ c \in {"woken", "reenter"} THEN hungry \cup {i} ELSE hungry \ {i}
  BY <1>2, <1>3, <1>4
<1> QED BY <1>2, <1>3, <1>9, <1>10, CalmStep DEF Does, p
-----------------------------------------------------------------------------
(* Taking and leaving forks.                                               *)

(***************************************************************************)
(* Nobody that was about to be looked at is forgotten, when a philosopher  *)
(* moves that does not look at others.                                     *)
(***************************************************************************)
LEMMA DueKept ==
  ASSUME NEW p \in [Task -> Places], NEW S, NEW u, Due(p, S, u), NEW t \in Phil, p[t] \notin Signals,
         NEW c \in Places, NEW S2, S2 \subseteq S, S \subseteq Phil, NEW u2, u \subseteq u2
  PROVE  Due([p EXCEPT ![t] = c], S2, u2)
<1> DEFINE p2 == [p EXCEPT ![t] = c]
<1>1. \A j \in Phil : p[j] \in Signals => p2[j] = p[j]
  BY Names
<1> HIDE DEF p2
<1>2. ASSUME NEW i \in S2, Forks(i) \cap u2 = {}
      PROVE  \/ p2[next(i)] = "signal_left"
             \/ p2[prev(i)] \in {"signal_left", "signal_right"}
             \/ \E j \in Phil : p2[j] = "broadcast"
  <2>1. i \in S /\ i \in Phil /\ Forks(i) \cap u = {} /\ next(i) \in Phil /\ prev(i) \in Phil
    BY <1>2, Circle
  <2> QED BY <1>1, <2>1 DEF Due, Signals
<1> QED BY <1>2 DEF Due, p2

(***************************************************************************)
(* A philosopher whose forks are free may eat.                             *)
(***************************************************************************)
LEMMA MayEatNow ==
  ASSUME IInv, NEW i \in Phil, Forks(i) \cap in_use = {}, pc[i] \in Waiting
  PROVE  Table!MayEat(i)
<1> DEFINE H == HoldersOf(program, w, pc, paused)
<1>1. i \notin H /\ next(i) \notin H /\ prev(i) \notin H /\ next(i) \in Phil /\ prev(i) \in Phil
  BY Parts, ForksFree, Circle
<1>2. phase = PhaseOf(H, pc)
  BY Meaning
<1> HIDE DEF H
<1>3. phase[i] = "hungry" /\ phase[next(i)] # "eating" /\ phase[prev(i)] # "eating"
  BY <1>1, <1>2 DEF PhaseOf
<1>4. Neighbours[i] = {prev(i), next(i)}
  BY DEF Neighbours
<1> QED BY <1>3, <1>4 DEF Table!MayEat

(* Nobody but i begins or ends to wait for forks.                          *)
SameWaiting(p, p2, i) == \A j \in Phil : j # i => (p2[j] \in Waiting <=> p[j] \in Waiting)

(* A philosopher begins to eat, or stops and feeds others, as in Dining.   *)
Eats(a, b, i) == b = [a EXCEPT ![i] = "eating"]

Stops(a, b, i, fed) ==
  b = [j \in Phil |-> IF j = i THEN "thinking" ELSE IF j \in fed THEN "eating" ELSE a[j]]

(***************************************************************************)
(* The phases when a philosopher begins to eat.                            *)
(***************************************************************************)
LEMMA PhasesEating ==
  ASSUME NEW H, NEW p, NEW p2, NEW i \in Phil, SameWaiting(p, p2, i)
  PROVE  Eats(PhaseOf(H, p), PhaseOf(H \cup {i}, p2), i)
BY DEF PhaseOf, SameWaiting, Eats

(***************************************************************************)
(* The phases when a philosopher stops eating and feeds others.            *)
(***************************************************************************)
LEMMA PhasesStopping ==
  ASSUME NEW H, NEW p, NEW p2, NEW i \in Phil, NEW fed, SameWaiting(p, p2, i),
         p2[i] \notin Waiting, i \notin fed
  PROVE  Stops(PhaseOf(H, p), PhaseOf((H \ {i}) \cup fed, p2), i, fed)
BY DEF PhaseOf, SameWaiting, Stops

(***************************************************************************)
(* take_forks.                                                             *)
(***************************************************************************)
LEMMA TakeForksKeeps ==
  ASSUME IInv, NEW i \in Phil, TakeForks(i), program # "afilo"
  PROVE  Does
<1>1. pc[i] = "test" /\ where(w)[i] = {} /\ i \in Task /\ Forks(i) \cap in_use = {}
  BY AtNowhere DEF TakeForks, forks_avail
<1> DEFINE c == "taken"
           p == [pc EXCEPT ![i] = c]
           H == HoldersOf(program, w, pc, paused)
           S == SleepersOf(w, pc, paused)
           u == in_use \cup Forks(i)
<1>2. pc' = p /\ in_use' = u /\ UNCHANGED <<program, w, owner, hungry, paused>>
  BY DEF TakeForks, GoTo, take_forks
<1>3. /\ c \in Places /\ c \in Inside /\ c \notin {"woken", "reenter"} /\ c \in Holding /\ c # "woken"
      /\ pc[i] \in Inside /\ pc[i] \in Waiting /\ pc[i] \notin Signals /\ i \notin hungry
  BY <1>1, Parts DEF Places, Inside, Waiting, Holding, Signals
<1>4. p[i] = c /\ \A j \in Phil : j # i => p[j] = pc[j]
  BY Parts
<1> HIDE DEF c
<1>5. Kept(program, w, p, owner)
  BY <1>1, <1>3, Parts, GoesOnInside
<1>6. Ways(program, w, p, hungry, paused)
  <2>1. Ways(program, w, p, hungry \ {i}, paused)
    BY <1>3, Parts, WaysKept
  <2>2. hungry \ {i} = hungry
    BY <1>3
  <2> QED BY <2>1, <2>2
<1>7. HoldersOf(program, w, p, paused) = H \cup {i} /\ SleepersOf(w, p, paused) \subseteq S /\ S \subseteq Phil
  <2>1. i \in HoldersOf(program, w, p, paused) /\ i \notin SleepersOf(w, p, paused)
    BY <1>3, <1>4 DEF HoldersOf, SleepersOf
  <2>2. \A j \in Phil \ {i} : /\ j \in HoldersOf(program, w, p, paused) <=> j \in H
                              /\ j \in SleepersOf(w, p, paused) <=> j \in S
    BY <1>4 DEF HoldersOf, SleepersOf
  <2>3. /\ HoldersOf(program, w, p, paused) \subseteq Phil /\ H \subseteq Phil
        /\ SleepersOf(w, p, paused) \subseteq Phil /\ S \subseteq Phil
    BY DEF HoldersOf, SleepersOf
  <2> HIDE DEF H, S, p
  <2> QED BY <2>1, <2>2, <2>3
<1>8. Shared(u, H \cup {i})
  BY <1>1, Parts, ForksTaken
<1>9. Due(p, SleepersOf(w, p, paused), u)
  BY <1>3, <1>7, Parts, DueKept
<1> HIDE DEF H, S, p, u
<1>10. IInv'
  <2>1. Fine(program, w, p, owner, u, hungry, paused)
    BY <1>5, <1>6, <1>7, <1>8, <1>9 DEF Fine
  <2> QED BY <1>2, <2>1, Parts DEF IInv
<1>11. Table!Eat(i)
  <2>1. phase = PhaseOf(H, pc)
    BY Meaning DEF H
  <2>2. phase' = PhaseOf(H \cup {i}, p)
    BY <1>2, <1>7, <1>10, MeaningNext
  <2>3. phase' = [phase EXCEPT ![i] = "eating"]
    <3>1. SameWaiting(pc, p, i)
      BY <1>4 DEF SameWaiting
    <3>2. Eats(PhaseOf(H, pc), PhaseOf(H \cup {i}, p), i)
      BY <3>1, PhasesEating
    <3> QED BY <2>1, <2>2, <3>2 DEF Eats
  <2> QED BY <1>1, <1>3, <2>3, MayEatNow DEF Table!Eat
<1> QED BY <1>10, <1>11 DEF Does, Table!Next

(***************************************************************************)
(* leave_forks.                                                            *)
(***************************************************************************)
LEMMA LeaveForksKeeps ==
  ASSUME IInv, NEW i \in Phil, LeaveForks(i), program # "afilo"
  PROVE  Does
<1>1. pc[i] = "leave_forks" /\ where(w)[i] = {} /\ i \in Task
  BY AtNowhere DEF LeaveForks
<1> DEFINE c == IF program = "sfilo" THEN "broadcast" ELSE "signal_left"
           p == [pc EXCEPT ![i] = c]
           H == HoldersOf(program, w, pc, paused)
           S == SleepersOf(w, pc, paused)
           u == in_use \ Forks(i)
<1>2. pc' = p /\ in_use' = u /\ UNCHANGED <<program, w, owner, hungry, paused>>
  BY DEF LeaveForks, GoTo, leave_forks
<1>3. /\ c \in Places /\ c \in Inside /\ c \notin {"woken", "reenter"} /\ c \notin Holding
      /\ c = "broadcast" \/ c = "signal_left"
      /\ c \notin Waiting /\ c # "woken" /\ c # "reenter"
      /\ pc[i] \in Inside /\ pc[i] \notin Waiting /\ pc[i] \notin Signals /\ i \notin hungry
      /\ i \in H
  BY <1>1, Parts DEF Places, Inside, Waiting, Holding, Signals, HoldersOf
<1>4. p[i] = c /\ \A j \in Phil : j # i => p[j] = pc[j]
  BY Parts
<1> HIDE DEF c
<1>5. Kept(program, w, p, owner)
  BY <1>1, <1>3, Parts, GoesOnInside
<1>6. Ways(program, w, p, hungry, paused)
  <2>1. Ways(program, w, p, hungry \ {i}, paused)
    BY <1>3, Parts, WaysKept
  <2>2. hungry \ {i} = hungry
    BY <1>3
  <2> QED BY <2>1, <2>2
<1>7. HoldersOf(program, w, p, paused) = H \ {i} /\ SleepersOf(w, p, paused) = S /\ S \subseteq Phil
  <2>1. i \notin HoldersOf(program, w, p, paused) /\ i \notin SleepersOf(w, p, paused) /\ i \notin S
    BY <1>1, <1>3, <1>4 DEF HoldersOf, SleepersOf
  <2>2. \A j \in Phil \ {i} : /\ j \in HoldersOf(program, w, p, paused) <=> j \in H
                              /\ j \in SleepersOf(w, p, paused) <=> j \in S
    BY <1>4 DEF HoldersOf, SleepersOf
  <2>3. /\ HoldersOf(program, w, p, paused) \subseteq Phil /\ H \subseteq Phil
        /\ SleepersOf(w, p, paused) \subseteq Phil /\ S \subseteq Phil
    BY DEF HoldersOf, SleepersOf
  <2> HIDE DEF H, S, p
  <2> QED BY <2>1, <2>2, <2>3
<1>8. Shared(u, H \ {i})
  <2>1. Shared(in_use, H) /\ i \in H
    BY <1>3, Parts
  <2> HIDE DEF H
  <2> QED BY <2>1, ForksLeft
<1>9. Due(p, S, u)
  <2>1. ASSUME NEW k \in S, Forks(k) \cap u = {}
        PROVE  \/ p[next(k)] = "signal_left"
               \/ p[prev(k)] \in {"signal_left", "signal_right"}
               \/ \E j \in Phil : p[j] = "broadcast"
    <3>1. k \in Phil /\ k # i /\ next(k) \in Phil /\ prev(k) \in Phil
      BY <1>1, <1>7, <2>1, Circle DEF SleepersOf
    <3>2. CASE Forks(k) \cap in_use = {}
      <4>1. \A j \in Phil : pc[j] \in Signals => p[j] = pc[j]
        BY <1>3, <1>4
      <4> HIDE DEF p
      <4> QED BY <2>1, <3>1, <3>2, <4>1, Parts DEF Due, Signals
    <3>3. CASE Forks(k) \cap in_use # {}
      <4>1. Forks(k) \cap Forks(i) # {}
        BY <2>1, <3>3
      <4>2. i = next(k) \/ i = prev(k)
        BY <3>1, <4>1, Circle
      <4> HIDE DEF p
      <4> QED BY <1>3, <1>4, <4>2
    <3> QED BY <3>2, <3>3
  <2> HIDE DEF S, u, p
  <2> QED BY <2>1 DEF Due
<1> HIDE DEF H, S, p, u
<1>10. IInv'
  <2>1. Fine(program, w, p, owner, u, hungry, paused)
    BY <1>5, <1>6, <1>7, <1>8, <1>9 DEF Fine
  <2> QED BY <1>2, <2>1, Parts DEF IInv
<1>11. Table!Stop(i)
  <2> DEFINE fed == {}
  <2>1. phase = PhaseOf(H, pc)
    BY Meaning DEF H
  <2>2. phase' = PhaseOf((H \ {i}) \cup fed, p)
    <3>1. phase' = PhaseOf(H \ {i}, p)
      BY <1>2, <1>7, <1>10, MeaningNext
    <3> QED BY <3>1
  <2>3. phase[i] = "eating"
    BY <1>3, <2>1 DEF PhaseOf
  <2>4. fed \in SUBSET Neighbours[i] /\ i \notin fed /\ \A j : j \notin fed
    OBVIOUS
  <2> HIDE DEF fed
  <2>5. Stops(phase, phase', i, fed)
    <3>1. SameWaiting(pc, p, i) /\ p[i] \notin Waiting
      BY <1>3, <1>4 DEF SameWaiting
    <3>2. Stops(PhaseOf(H, pc), PhaseOf((H \ {i}) \cup fed, p), i, fed)
      BY <2>4, <3>1, PhasesStopping
    <3> QED BY <2>1, <2>2, <3>2
  <2> QED BY <2>3, <2>4, <2>5 DEF Table!Stop, Stops
<1> QED BY <1>10, <1>11 DEF Does, Table!Next-----------------------------------------------------------------------------
(* Waking those who may use the forks.                                     *)

(***************************************************************************)
(* Those in a queue other than that of the monitor wait for forks.         *)
(***************************************************************************)
LEMMA InCondition ==
  ASSUME NEW g, NEW v, NEW p, NEW o, Kept(g, v, p, o), NEW t \in Task, NEW q, q # mon, where(v)[t] = {q}
  PROVE  p[t] = "woken" /\ q = condOf(g, t)
<1>1. p[t] \notin Asking
  BY DEF Kept, Locked, TasksAt
<1> QED BY <1>1 DEF Kept, Seated

(***************************************************************************)
(* BroadcastCondition wakes all who wait for forks.                        *)
(***************************************************************************)
LEMMA BroadcastKeeps ==
  ASSUME IInv, NEW i \in Phil, BroadcastCondition(i), program = "sfilo"
  PROVE  Does
<1>1. pc[i] = "broadcast" /\ where(w)[i] = {} /\ i \in Task
  BY AtNowhere DEF BroadcastCondition
<1> DEFINE c == "left"
           p == [pc EXCEPT ![i] = c]
           ok == TRUE
           e == FlushQueue(w, all, ok)
           H == HoldersOf(program, w, pc, paused)
<1>2. pc' = p /\ w' = e /\ UNCHANGED <<program, owner, in_use, hungry, paused>>
  BY DEF BroadcastCondition, GoTo
<1>3. /\ c \in Places /\ c \in Inside /\ c \notin {"woken", "reenter"} /\ c \notin Holding /\ c \notin Waiting
      /\ pc[i] \in Inside /\ pc[i] \notin Waiting /\ pc[i] \notin Holding /\ i \notin hungry
      /\ program # "afilo"
  BY <1>1, Parts DEF Places, Inside, Waiting, Holding
<1>4. p[i] = c /\ \A j \in Phil : j # i => p[j] = pc[j]
  BY Parts
<1>5. /\ Linked(e) /\ e.value = w.value
      /\ \A t \in Task : where(e)[t] = where(w)[t] \ {all}
      /\ \A t \in Task : where(w)[t] # {all} => e.success[t] = w.success[t]
  <2>1. ok \in BOOLEAN /\ all \in Queue /\ Linked(w)
    BY Names, Parts
  <2> HIDE DEF ok
  <2>2. /\ Linked(e) /\ e.value = w.value /\ where(e) = [t \in Task |-> where(w)[t] \ {all}]
        /\ \A t \in Task : where(w)[t] # {all} => e.success[t] = w.success[t]
    BY <2>1, FlushQueueEffect
  <2> HIDE DEF e
  <2> QED BY <2>2
<1> HIDE DEF c, e
<1>6. \A t \in Task : where(w)[t] = {} \/ \E q \in Queue : where(w)[t] = {q}
  BY Parts DEF Linked
<1>7. ASSUME NEW t \in Task
      PROVE  \/ where(e)[t] = where(w)[t] /\ e.success[t] = w.success[t]
             \/ pc[t] = "woken" /\ where(e)[t] = {}
  <2>1. CASE where(w)[t] = {all}
    BY <1>5, <2>1, Names, Parts, InCondition
  <2>2. CASE where(w)[t] # {all}
    BY <1>5, <1>6, <2>2
  <2> QED BY <2>1, <2>2
<1>8. Kept(program, e, p, owner)
  <2>1. Kept(program, e, pc, owner)
    BY <1>5, <1>7, Parts, EndsWaits
  <2> QED BY <1>1, <1>3, <2>1, GoesOnInside
<1>9. Ways(program, e, p, hungry, paused)
  <2>1. Ways(program, e, p, hungry \ {i}, paused)
    BY <1>3, Parts, WaysKept
  <2>2. hungry \ {i} = hungry
    BY <1>3
  <2> QED BY <2>1, <2>2
<1>10. HoldersOf(program, e, p, paused) = H
  BY <1>3, <1>4 DEF HoldersOf
<1>11. SleepersOf(e, p, paused) = {}
  <2>1. ASSUME NEW j \in Phil, p[j] = "woken" PROVE where(e)[j] = {}
    <3>1. pc[j] = "woken" /\ j \in Task
      BY <1>3, <1>4, <2>1, Parts
    <3>2. where(w)[j] = {} \/ where(w)[j] = {all}
      BY <3>1, Parts DEF Kept, Seated, condOf
    <3> QED BY <1>5, <3>1, <3>2
  <2> QED BY <1>3, <2>1, Parts DEF SleepersOf
<1> HIDE DEF H, p
<1>12. IInv'
  <2>1. Fine(program, e, p, owner, in_use, hungry, paused)
    BY <1>8, <1>9, <1>10, <1>11, Parts DEF Fine, Due, H
  <2> QED BY <1>2, <2>1, Parts DEF IInv
<1>13. phase' = phase
  <2>1. phase = PhaseOf(H, pc)
    BY Meaning DEF H
  <2>2. phase' = PhaseOf(H, p)
    BY <1>2, <1>10, <1>12, MeaningNext
  <2> QED BY <1>3, <1>4, <2>1, <2>2 DEF PhaseOf
<1> QED BY <1>12, <1>13 DEF Does
(* Of those that wait for forks, only j goes on.                           *)
OnlyWakes(g, v, p, o, j, e) ==
  /\ Kept(g, e, p, o)
  /\ \A t \in Phil : t # j => where(e)[t] = where(v)[t]
  /\ p[j] = "woken" => where(e)[j] = {}

(***************************************************************************)
(* SignalQueue on the condition of a philosopher wakes that one.           *)
(***************************************************************************)
LEMMA Signalled ==
  ASSUME NEW g \in Programs \ {"sfilo"}, NEW v, NEW p, NEW o, Kept(g, v, p, o), NEW j \in Phil
  PROVE  OnlyWakes(g, v, p, o, j, SignalQueue(v, own[j]))
<1> DEFINE q == own[j]
           e == SignalQueue(v, q)
<1>1. /\ Linked(v) /\ q \in Queue /\ q # mon /\ Task = Phil /\ v.success \in [Task -> BOOLEAN]
      /\ \A t \in Task : own[t] = q => t = j
  BY Names, RecordsFields DEF Kept, Linked
<1>2. \A t \in Task : where(v)[t] = {q} => t = j /\ p[t] = "woken"
  <2> HIDE DEF q
  <2>1. ASSUME NEW t \in Task, where(v)[t] = {q} PROVE t = j /\ p[t] = "woken"
    <3>1. p[t] = "woken" /\ q = condOf(g, t)
      BY <1>1, <2>1, InCondition
    <3> QED BY <1>1, <3>1 DEF condOf
  <2> QED BY <2>1
<1>3. p[j] = "woken" => where(v)[j] = {} \/ where(v)[j] = {q}
  BY <1>1 DEF Kept, Seated, condOf
<1> HIDE DEF q
<1>4. \/ e = v /\ \A t \in Task : where(v)[t] # {q}
      \/ \E t \in Task : Wakes(v, e, t, q, TRUE)
  BY <1>1, SignalQueueEffect
<1> HIDE DEF e
<1>5. CASE e = v /\ \A t \in Task : where(v)[t] # {q}
  BY <1>1, <1>3, <1>5 DEF OnlyWakes, e, q
<1>6. CASE \E t \in Task : Wakes(v, e, t, q, TRUE)
  <2>1. PICK t \in Task : Wakes(v, e, t, q, TRUE)
    BY <1>6
  <2>2. where(v)[t] = {q} /\ t = j /\ p[j] = "woken"
    BY <1>2, <2>1 DEF Wakes
  <2>3. Linked(e) /\ e.value = v.value
    BY <2>1 DEF Wakes
  <2>4. \A u \in Task : u # j => where(e)[u] = where(v)[u] /\ e.success[u] = v.success[u]
    BY <1>1, <2>1, <2>2 DEF Wakes, where
  <2>5. where(e)[j] = {}
    BY <1>1, <2>1, <2>2 DEF Wakes, where
  <2>6. Kept(g, e, p, o)
    <3>1. \A u \in Task : \/ where(e)[u] = where(v)[u] /\ e.success[u] = v.success[u]
                          \/ p[u] = "woken" /\ where(e)[u] = {}
      BY <2>2, <2>4, <2>5
    <3> QED BY <2>3, <3>1, EndsWaits
  <2> QED BY <1>1, <2>2, <2>4, <2>5, <2>6 DEF OnlyWakes, e, q
<1> QED BY <1>4, <1>5, <1>6

(* The philosopher t, at a place, looks at j and goes on to place c.       *)
LooksAt(p, t, j, c) ==
  \/ p[t] = "signal_left" /\ c = "signal_right" /\ j = prev(t)
  \/ p[t] = "signal_right" /\ c = "left" /\ j = next(t)

(***************************************************************************)
(* The neighbour that has been looked at need not be looked at any more.   *)
(***************************************************************************)
LEMMA DueLooked ==
  ASSUME NEW p \in [Task -> Places], NEW S, NEW u, Due(p, S, u), NEW t \in Phil,
         NEW j, NEW c \in Places, LooksAt(p, t, j, c),
         NEW S2, S2 \subseteq S, S \subseteq Phil, NEW u2, u \subseteq u2,
         j \in S2 => Forks(j) \cap u2 # {}
  PROVE  Due([p EXCEPT ![t] = c], S2, u2)
<1> DEFINE p2 == [p EXCEPT ![t] = c]
<1>1. p2[t] = c /\ \A k \in Phil : k # t => p2[k] = p[k]
  BY Names
<1> HIDE DEF p2
<1>2. ASSUME NEW i \in S2, Forks(i) \cap u2 = {}
      PROVE  \/ p2[next(i)] = "signal_left"
             \/ p2[prev(i)] \in {"signal_left", "signal_right"}
             \/ \E k \in Phil : p2[k] = "broadcast"
  <2>1. /\ i \in S /\ i \in Phil /\ Forks(i) \cap u = {} /\ next(i) \in Phil /\ prev(i) \in Phil
        /\ prev(next(i)) = i /\ next(prev(i)) = i
    BY <1>2, Circle
  <2>2. i # j
    BY <1>2
  <2>3. CASE p[next(i)] = "signal_left"
    <3>1. next(i) # t
      BY <2>1, <2>2, <2>3 DEF LooksAt
    <3> QED BY <1>1, <2>1, <2>3, <3>1
  <2>4. CASE p[prev(i)] \in {"signal_left", "signal_right"}
    <3>1. prev(i) = t => c = "signal_right"
      BY <2>1, <2>2, <2>4 DEF LooksAt
    <3> QED BY <1>1, <2>1, <2>4, <3>1
  <2>5. CASE \E k \in Phil : p[k] = "broadcast"
    BY <1>1, <2>5 DEF LooksAt
  <2> QED BY <2>1, <2>3, <2>4, <2>5 DEF Due
<1> QED BY <1>2 DEF Due, p2
(* A step in which i looks at j.                                           *)
Looks(i, j, c) ==
  /\ i \in Phil /\ j \in Phil /\ c \in {"signal_right", "left"} /\ LooksAt(pc, i, j, c)
  /\ program \in {"filo", "xfilo"}
  /\ pc' = [pc EXCEPT ![i] = c] /\ UNCHANGED <<program, owner, hungry, paused>>

(* What is to be shown of such a step.                                     *)
Looked(j) ==
  /\ Kept(program, w', pc, owner)
  /\ Shared(in_use', HoldersOf(program, w', pc', paused)) /\ in_use \subseteq in_use'
  /\ SleepersOf(w', pc', paused) \subseteq SleepersOf(w, pc, paused)
  /\ j \in SleepersOf(w', pc', paused) => Forks(j) \cap in_use' # {}

(***************************************************************************)
(* Such a step keeps the invariant.                                        *)
(***************************************************************************)
LEMMA LookedKeeps ==
  ASSUME IInv, NEW i, NEW j, NEW c, Looks(i, j, c), Looked(j)
  PROVE  IInv'
<1>1. /\ i \in Task /\ i \in Phil /\ c \in Places /\ c \in Inside /\ c \notin {"woken", "reenter"}
      /\ pc[i] \in Inside /\ pc[i] \notin {"woken", "reenter"} /\ program \in Programs \ {"afilo"}
      /\ pc' = [pc EXCEPT ![i] = c] /\ LooksAt(pc, i, j, c)
  BY Names DEF Looks, LooksAt, Places, Inside, Programs
<1>2. Kept(program, w', pc', owner)
  BY <1>1, GoesOnInside DEF Looked
<1>3. Ways(program, w', pc', hungry, paused)
  <2>1. Ways(program, w', pc', hungry \ {i}, paused)
    BY <1>1, Parts, WaysKept
  <2>2. hungry \ {i} = hungry
    BY <1>1, Parts
  <2> QED BY <2>1, <2>2
<1>4. Due(pc', SleepersOf(w', pc', paused), in_use')
  <2> DEFINE S == SleepersOf(w, pc, paused)
             S2 == SleepersOf(w', pc', paused)
             u2 == in_use'
  <2>1. /\ pc \in [Task -> Places] /\ Due(pc, S, in_use) /\ S2 \subseteq S /\ S \subseteq Phil
        /\ in_use \subseteq u2 /\ (j \in S2 => Forks(j) \cap u2 # {})
    BY Parts DEF Looked, SleepersOf
  <2> HIDE DEF S, S2, u2
  <2>2. Due([pc EXCEPT ![i] = c], S2, u2)
    BY <1>1, <2>1, DueLooked
  <2> QED BY <1>1, <2>2 DEF S2, u2
<1>5. Fine(program, w', pc', owner, in_use', hungry, paused)
  BY <1>2, <1>3, <1>4 DEF Fine, Looked
<1> QED BY <1>5, Parts DEF IInv, Looks

(***************************************************************************)
(* Nobody is woken, since the forks of the neighbour are not free or it    *)
(* does not wait for them.                                                 *)
(***************************************************************************)
LEMMA NotSignalled ==
  ASSUME IInv, NEW i, NEW j, NEW c, Looks(i, j, c), w' = w, in_use' = in_use,
         ~ (forks_avail(j) /\ (program = "xfilo" => j \in hungry))
  PROVE  Does
<1>1. /\ i \in Phil /\ j \in Phil /\ pc' = [pc EXCEPT ![i] = c]
      /\ UNCHANGED <<program, owner, hungry, paused>> /\ program # "afilo"
      /\ pc[i] \notin Holding \cup Waiting /\ c \notin Holding \cup Waiting
  BY DEF Looks, LooksAt, Holding, Waiting
<1>2. pc'[i] = c /\ \A k \in Phil : k # i => pc'[k] = pc[k]
  BY <1>1, Parts
<1>3. HoldersOf(program, w, pc', paused) = HoldersOf(program, w, pc, paused)
  BY <1>1, <1>2 DEF HoldersOf, Waiting
<1>4. SleepersOf(w, pc', paused) = SleepersOf(w, pc, paused)
  BY <1>1, <1>2 DEF SleepersOf, Waiting
<1>5. j \in SleepersOf(w, pc, paused) => Forks(j) \cap in_use # {}
  <2>1. j \in SleepersOf(w, pc, paused) /\ program = "xfilo" => j \in hungry
    BY <1>1, Parts DEF SleepersOf
  <2> QED BY <2>1 DEF forks_avail
<1>6. Looked(j)
  BY <1>3, <1>4, <1>5, Parts DEF Looked
<1>7. IInv'
  BY <1>6, LookedKeeps
<1>8. phase' = phase
  <2> DEFINE H == HoldersOf(program, w, pc, paused)
  <2>1. phase = PhaseOf(H, pc)
    BY Meaning
  <2>2. phase' = PhaseOf(H, pc')
    BY <1>1, <1>3, <1>7, MeaningNext
  <2> HIDE DEF H
  <2> QED BY <1>1, <1>2, <2>1, <2>2 DEF PhaseOf
<1> QED BY <1>7, <1>8 DEF Does

(***************************************************************************)
(* The neighbour is woken, to test again (filo).                           *)
(***************************************************************************)
LEMMA SignalledToTest ==
  ASSUME IInv, NEW i, NEW j, NEW c, Looks(i, j, c), program = "filo",
         w' = SignalQueue(w, own[j]), in_use' = in_use
  PROVE  Does
<1>1. /\ i \in Phil /\ j \in Phil /\ pc' = [pc EXCEPT ![i] = c]
      /\ UNCHANGED <<program, owner, hungry, paused>> /\ program \in Programs \ {"sfilo"}
      /\ paused = {}
      /\ pc[i] \notin Holding \cup Waiting /\ c \notin Holding \cup Waiting
  BY Parts DEF Looks, LooksAt, Holding, Waiting, Programs
<1>2. pc'[i] = c /\ \A k \in Phil : k # i => pc'[k] = pc[k]
  BY <1>1, Parts
<1>3. /\ Kept(program, w', pc, owner)
      /\ \A t \in Phil : t # j => where(w')[t] = where(w)[t]
      /\ pc[j] = "woken" => where(w')[j] = {}
  <2>1. program \in Programs \ {"sfilo"} /\ Kept(program, w, pc, owner) /\ j \in Phil
    BY <1>1, Parts
  <2>2. OnlyWakes(program, w, pc, owner, j, SignalQueue(w, own[j]))
    BY <2>1, Signalled
  <2>3. OnlyWakes(program, w, pc, owner, j, w')
    BY <2>2
  <2> QED BY <2>3 DEF OnlyWakes
<1>4. HoldersOf(program, w', pc', paused) = HoldersOf(program, w, pc, paused)
  BY <1>1, <1>2 DEF HoldersOf
<1>5. SleepersOf(w', pc', paused) \subseteq SleepersOf(w, pc, paused) \ {j}
  BY <1>1, <1>2, <1>3 DEF SleepersOf, Waiting
<1>6. Looked(j)
  BY <1>3, <1>4, <1>5, Parts DEF Looked
<1>7. IInv'
  BY <1>6, LookedKeeps
<1>8. phase' = phase
  <2> DEFINE H == HoldersOf(program, w, pc, paused)
  <2>1. phase = PhaseOf(H, pc)
    BY Meaning
  <2>2. phase' = PhaseOf(H, pc')
    BY <1>1, <1>4, <1>7, MeaningNext
  <2> HIDE DEF H
  <2> QED BY <1>1, <1>2, <2>1, <2>2 DEF PhaseOf
<1> QED BY <1>7, <1>8 DEF Does

(***************************************************************************)
(* The forks are taken for the neighbour, which is woken (xfilo).          *)
(***************************************************************************)
LEMMA SignalledToEat ==
  ASSUME IInv, NEW i, NEW j, NEW c, Looks(i, j, c), program = "xfilo",
         forks_avail(j), j \in hungry, w' = SignalQueue(w, own[j]), in_use' = take_forks(j)
  PROVE  Does
<1> DEFINE H == HoldersOf(program, w, pc, paused)
           H2 == HoldersOf(program, w', pc', paused)
<1>1. /\ i \in Phil /\ j \in Phil /\ pc' = [pc EXCEPT ![i] = c]
      /\ UNCHANGED <<program, owner, hungry, paused>> /\ program \in Programs \ {"sfilo"}
      /\ paused = {}
      /\ pc[i] \notin Holding \cup Waiting /\ c \notin Holding \cup Waiting
  BY Parts DEF Looks, LooksAt, Holding, Waiting, Programs
<1>2. pc'[i] = c /\ \A k \in Phil : k # i => pc'[k] = pc[k]
  BY <1>1, Parts
<1>3. /\ Kept(program, w', pc, owner)
      /\ \A t \in Phil : t # j => where(w')[t] = where(w)[t]
      /\ pc[j] = "woken" => where(w')[j] = {}
  <2>1. program \in Programs \ {"sfilo"} /\ Kept(program, w, pc, owner) /\ j \in Phil
    BY <1>1, Parts
  <2>2. OnlyWakes(program, w, pc, owner, j, SignalQueue(w, own[j]))
    BY <2>1, Signalled
  <2>3. OnlyWakes(program, w, pc, owner, j, w')
    BY <2>2
  <2> QED BY <2>3 DEF OnlyWakes
<1>4. Forks(j) \cap in_use = {} /\ Shared(in_use, H) /\ in_use' = in_use \cup Forks(j)
  BY Parts DEF forks_avail, take_forks
<1>5. pc[j] = "woken" /\ i # j
  <2>1. j \notin H /\ pc[j] \in {"woken", "reenter"}
    BY <1>1, <1>4, Parts, ForksFree
  <2> QED BY <1>1, <2>1 DEF HoldersOf, Waiting
<1>6. H2 = H \cup {j}
  <2>1. j \in H2
    BY <1>1, <1>2, <1>3, <1>5 DEF HoldersOf
  <2>2. \A k \in Phil \ {j} : k \in H2 <=> k \in H
    BY <1>1, <1>2, <1>3 DEF HoldersOf, Waiting
  <2>3. H \subseteq Phil /\ H2 \subseteq Phil
    BY DEF HoldersOf
  <2> HIDE DEF H, H2
  <2> QED BY <1>1, <2>1, <2>2, <2>3
<1>7. SleepersOf(w', pc', paused) \subseteq SleepersOf(w, pc, paused) \ {j}
  BY <1>1, <1>2, <1>3 DEF SleepersOf, Waiting
<1>8. Shared(in_use', H \cup {j})
  <2> HIDE DEF H
  <2> QED BY <1>1, <1>4, ForksTaken
<1>9. Looked(j)
  <2>1. Shared(in_use', H2)
    BY <1>6, <1>8
  <2> QED BY <1>3, <1>4, <1>7, <2>1 DEF Looked
<1>10. IInv'
  BY <1>9, LookedKeeps
<1>11. Table!Eat(j)
  <2>1. phase = PhaseOf(H, pc)
    BY Meaning
  <2>2. phase' = PhaseOf(H \cup {j}, pc')
    BY <1>1, <1>6, <1>10, MeaningNext
  <2>3. Table!MayEat(j)
    BY <1>1, <1>4, <1>5, MayEatNow DEF Waiting
  <2> HIDE DEF H
  <2>4. SameWaiting(pc, pc', j)
    BY <1>1, <1>2 DEF SameWaiting
  <2>5. Eats(PhaseOf(H, pc), PhaseOf(H \cup {j}, pc'), j)
    BY <1>1, <2>4, PhasesEating
  <2> QED BY <2>1, <2>2, <2>3, <2>5 DEF Eats, Table!Eat
<1> QED BY <1>1, <1>10, <1>11 DEF Does, Table!Next

(***************************************************************************)
(* SignalCondition for the neighbour, if it may eat.                       *)
(***************************************************************************)
LEMMA SignalKeeps ==
  ASSUME IInv, NEW i, NEW j, NEW c, Looks(i, j, c), SignalCondition(j)
  PROVE  Does
<1>1. program \in {"filo", "xfilo"} /\ (HandsOver <=> program = "xfilo")
  BY DEF Looks, HandsOver
<1>2. CASE ~ (forks_avail(j) /\ (program = "xfilo" => j \in hungry))
  BY <1>1, <1>2, NotSignalled DEF SignalCondition
<1>3. CASE forks_avail(j) /\ program = "filo"
  BY <1>1, <1>3, SignalledToTest DEF SignalCondition
<1>4. CASE forks_avail(j) /\ program = "xfilo" /\ j \in hungry
  BY <1>1, <1>4, SignalledToEat DEF SignalCondition
<1> QED BY <1>1, <1>2, <1>3, <1>4

(***************************************************************************)
(* The neighbour at the left, and the one at the right.                    *)
(***************************************************************************)
LEMMA SignalsKeep ==
  ASSUME IInv, NEW i \in Phil, program \in {"filo", "xfilo"}, SignalLeft(i) \/ SignalRight(i)
  PROVE  Does
<1>1. next(i) \in Phil /\ prev(i) \in Phil
  BY Circle
<1>2. CASE SignalLeft(i)
  <2>1. Looks(i, prev(i), "signal_right") /\ SignalCondition(prev(i))
    BY <1>1, <1>2 DEF SignalLeft, GoTo, At, Looks, LooksAt
  <2> QED BY <2>1, SignalKeeps
<1>3. CASE SignalRight(i)
  <2>1. Looks(i, next(i), "left") /\ SignalCondition(next(i))
    BY <1>1, <1>3 DEF SignalRight, GoTo, At, Looks, LooksAt
  <2> QED BY <2>1, SignalKeeps
<1> QED BY <1>2, <1>3-----------------------------------------------------------------------------
(* afilo.                                                                  *)

AtomicPlaces == {"think", "hungry", "woken", "eat"}

(* Those that hold their forks in afilo.                                   *)
Eating(p, ps) == {k \in Phil : p[k] = "eat" \/ (p[k] = "woken" /\ k \notin ps)}

(***************************************************************************)
(* Those that hold their forks and those that sleep, in afilo.             *)
(***************************************************************************)
LEMMA AtomicHolders ==
  ASSUME NEW v, NEW p, NEW ps, \A k \in Phil : p[k] \in AtomicPlaces /\ where(v)[k] = {},
         ps \subseteq TasksAt(p, {"woken"})
  PROVE  HoldersOf("afilo", v, p, ps) = Eating(p, ps) /\ SleepersOf(v, p, ps) = ps
<1>1. HoldersOf("afilo", v, p, ps) = Eating(p, ps)
  BY DEF HoldersOf, Eating, AtomicPlaces, Holding
<1>2. SleepersOf(v, p, ps) = ps
  BY Names DEF SleepersOf, TasksAt
<1> QED BY <1>1, <1>2

(***************************************************************************)
(* The parts of the invariant in afilo.                                    *)
(***************************************************************************)
LEMMA AtomicParts ==
  ASSUME IInv, program = "afilo"
  PROVE  /\ Kept(program, w, pc, owner) /\ pc \in [Task -> Places] /\ Task = Phil
         /\ \A k \in Phil : pc[k] \in AtomicPlaces /\ where(w)[k] = {}
         /\ \A k \in Phil : k \in hungry <=> pc[k] = "woken"
         /\ hungry \subseteq Phil /\ paused \subseteq hungry
         /\ HoldersOf(program, w, pc, paused) = Eating(pc, paused)
         /\ Shared(in_use, Eating(pc, paused))
         /\ \A k \in paused : Forks(k) \cap in_use # {}
<1>1. /\ Kept(program, w, pc, owner) /\ pc \in [Task -> Places] /\ Task = Phil
      /\ Ways(program, w, pc, hungry, paused)
      /\ Shared(in_use, HoldersOf(program, w, pc, paused))
      /\ Due(pc, SleepersOf(w, pc, paused), in_use)
  BY Parts
<1>2. /\ \A k \in Phil : pc[k] \in AtomicPlaces /\ where(w)[k] = {}
      /\ hungry = TasksAt(pc, {"woken", "reenter"}) /\ paused \subseteq TasksAt(pc, {"woken"})
  BY <1>1 DEF Ways, AtomicPlaces
<1>3. (\A k \in Phil : k \in hungry <=> pc[k] = "woken") /\ hungry \subseteq Phil /\ paused \subseteq hungry
  BY <1>1, <1>2 DEF TasksAt, AtomicPlaces
<1>4. HoldersOf("afilo", w, pc, paused) = Eating(pc, paused) /\ SleepersOf(w, pc, paused) = paused
  BY <1>2, AtomicHolders
<1>5. \A k \in paused : Forks(k) \cap in_use # {}
  <2>1. \A k \in Phil : pc[k] \notin {"signal_left", "signal_right", "broadcast"}
    BY <1>2 DEF AtomicPlaces
  <2>2. \A k \in paused : k \in Phil /\ next(k) \in Phil /\ prev(k) \in Phil
    BY <1>3, Circle
  <2> QED BY <1>1, <1>4, <2>1, <2>2 DEF Due
<1> QED BY <1>1, <1>2, <1>3, <1>4, <1>5

(* What a step of afilo is to keep: the philosopher i goes to place c.     *)
Atomically(i, c) ==
  /\ i \in Phil /\ c \in AtomicPlaces
  /\ pc' = [pc EXCEPT ![i] = c] /\ UNCHANGED <<program, w, owner>>
  /\ hungry' = TasksAt(pc', {"woken"}) /\ paused' \subseteq TasksAt(pc', {"woken"})
  /\ Shared(in_use', Eating(pc', paused'))
  /\ \A k \in paused' : Forks(k) \cap in_use' # {}

(***************************************************************************)
(* A step of afilo.                                                        *)
(***************************************************************************)
LEMMA AtomicStep ==
  ASSUME IInv, program = "afilo", NEW i, NEW c, Atomically(i, c)
  PROVE  /\ IInv'
         /\ phase = PhaseOf(Eating(pc, paused), pc)
         /\ phase' = PhaseOf(Eating(pc', paused'), pc')
<1>1. /\ i \in Phil /\ i \in Task /\ c \in Places /\ c \notin Inside \cup Asking /\ pc' = [pc EXCEPT ![i] = c]
      /\ where(w)[i] = {} /\ pc[i] \notin Inside \cup Asking
  BY AtomicParts DEF Atomically, AtomicPlaces, Places, Inside, Asking
<1>2. Kept(program, w, pc', owner)
  BY <1>1, AtomicParts, GoesOnOutside
<1>3. \A k \in Phil : pc'[k] \in AtomicPlaces /\ where(w)[k] = {}
  BY AtomicParts DEF Atomically
<1>4. TasksAt(pc', {"woken", "reenter"}) = TasksAt(pc', {"woken"})
  BY <1>3, AtomicParts DEF TasksAt, AtomicPlaces
<1>5. Ways(program, w, pc', hungry', paused')
  BY <1>3, <1>4 DEF Ways, Atomically, AtomicPlaces
<1>6. /\ HoldersOf(program, w, pc', paused') = Eating(pc', paused')
      /\ SleepersOf(w, pc', paused') = paused'
  <2>1. paused' \subseteq TasksAt(pc', {"woken"})
    BY DEF Atomically
  <2>2. HoldersOf("afilo", w, pc', paused') = Eating(pc', paused') /\ SleepersOf(w, pc', paused') = paused'
    BY <1>3, <2>1, AtomicHolders
  <2> QED BY <2>2
<1>7. Fine(program, w, pc', owner, in_use', hungry', paused')
  <2>1. Due(pc', paused', in_use')
    BY DEF Due, Atomically
  <2> QED BY <1>2, <1>5, <1>6, <2>1 DEF Fine, Atomically
<1>8. IInv' /\ program' = program /\ w' = w
  BY <1>7, Parts DEF IInv, Atomically
<1>9. phase = PhaseOf(Eating(pc, paused), pc)
  BY Meaning, AtomicParts
<1>10. phase' = PhaseOf(Eating(pc', paused'), pc')
  BY <1>6, <1>8, MeaningNext
<1> QED BY <1>8, <1>9, <1>10

(***************************************************************************)
(* The delay of think ends.                                                *)
(***************************************************************************)
LEMMA AtomicHungryKeeps ==
  ASSUME IInv, NEW i \in Phil, BecomeHungry(i), program = "afilo"
  PROVE  Does
<1>1. /\ pc[i] = "think" /\ pc' = [pc EXCEPT ![i] = "hungry"]
      /\ UNCHANGED <<program, w, owner, in_use, hungry, paused>>
  BY DEF BecomeHungry, GoTo, At
<1>2. pc'[i] = "hungry" /\ \A k \in Phil : k # i => pc'[k] = pc[k]
  BY <1>1, AtomicParts
<1>3. Eating(pc', paused') = Eating(pc, paused)
  BY <1>1, <1>2 DEF Eating
<1>4. hungry' = TasksAt(pc', {"woken"})
  BY <1>1, <1>2, AtomicParts DEF TasksAt
<1>5. Atomically(i, "hungry")
  BY <1>1, <1>3, <1>4, AtomicParts DEF Atomically, AtomicPlaces
<1>6. /\ IInv' /\ phase = PhaseOf(Eating(pc, paused), pc)
      /\ phase' = PhaseOf(Eating(pc, paused), pc')
  BY <1>3, <1>5, AtomicStep
<1>7. i \notin Eating(pc, paused)
  BY <1>1 DEF Eating
<1>8. phase[i] = "thinking" /\ phase' = [phase EXCEPT ![i] = "hungry"]
  <2> DEFINE H == Eating(pc, paused)
  <2> HIDE DEF H
  <2> QED BY <1>1, <1>2, <1>6, <1>7 DEF PhaseOf, Waiting, H
<1> QED BY <1>6, <1>8 DEF Does, Table!Next, Table!BecomeHungry

(***************************************************************************)
(* take_forks of afilo.                                                    *)
(***************************************************************************)
LEMMA AtomicTakeKeeps ==
  ASSUME IInv, NEW i \in Phil, AtomicTake(i), program = "afilo"
  PROVE  Does
<1> DEFINE H == Eating(pc, paused)
<1>1. pc[i] = "hungry" /\ i \notin paused /\ UNCHANGED <<program, w, owner>>
  BY DEF AtomicTake, At
<1>2. CASE forks_avail(i)
  <2>1. /\ pc' = [pc EXCEPT ![i] = "eat"] /\ UNCHANGED <<hungry, paused>>
        /\ in_use' = in_use \cup Forks(i) /\ Forks(i) \cap in_use = {}
    BY <1>2 DEF AtomicTake, GoTo, forks_avail, take_forks
  <2>2. pc'[i] = "eat" /\ \A k \in Phil : k # i => pc'[k] = pc[k]
    BY <2>1, AtomicParts
  <2>3. Eating(pc', paused') = H \cup {i}
    <3>1. Eating(pc', paused) = Eating(pc, paused) \cup {i}
      BY <1>1, <2>2 DEF Eating
    <3> QED BY <2>1, <3>1
  <2>4. Shared(in_use', H \cup {i})
    <3>1. Shared(in_use, H)
      BY AtomicParts
    <3> HIDE DEF H
    <3> QED BY <2>1, <3>1, ForksTaken
  <2>5. hungry' = TasksAt(pc', {"woken"})
    BY <1>1, <2>1, <2>2, AtomicParts DEF TasksAt
  <2>6. \A k \in paused' : Forks(k) \cap in_use' # {}
    BY <2>1, AtomicParts
  <2>7. paused' \subseteq hungry'
    BY <2>1, AtomicParts
  <2>8. Atomically(i, "eat")
    BY <1>1, <2>1, <2>3, <2>4, <2>5, <2>6, <2>7 DEF Atomically, AtomicPlaces
  <2>9. IInv' /\ phase = PhaseOf(H, pc) /\ phase' = PhaseOf(H \cup {i}, pc')
    BY <2>3, <2>8, AtomicStep
  <2>10. Table!MayEat(i)
    BY <1>1, <2>1, MayEatNow DEF Waiting
  <2>11. SameWaiting(pc, pc', i)
    BY <2>2 DEF SameWaiting
  <2> HIDE DEF H
  <2>12. Eats(PhaseOf(H, pc), PhaseOf(H \cup {i}, pc'), i)
    BY <2>11, PhasesEating
  <2> QED BY <2>9, <2>10, <2>12 DEF Eats, Does, Table!Next, Table!Eat
<1>3. CASE ~ forks_avail(i)
  <2>1. /\ pc' = [pc EXCEPT ![i] = "woken"] /\ hungry' = hungry \cup {i} /\ paused' = paused \cup {i}
        /\ in_use' = in_use /\ Forks(i) \cap in_use # {}
    BY <1>3 DEF AtomicTake, GoTo, forks_avail
  <2>2. pc'[i] = "woken" /\ \A k \in Phil : k # i => pc'[k] = pc[k]
    BY <2>1, AtomicParts
  <2>3. Eating(pc', paused') = Eating(pc, paused)
    <3>1. Eating(pc', paused \cup {i}) = Eating(pc, paused)
      BY <1>1, <2>2 DEF Eating
    <3> QED BY <2>1, <3>1
  <2>4. hungry' = TasksAt(pc', {"woken"})
    BY <2>1, <2>2, AtomicParts DEF TasksAt
  <2>5. paused' \subseteq hungry'
    BY <2>1, AtomicParts
  <2>6. \A k \in paused' : Forks(k) \cap in_use' # {}
    BY <2>1, AtomicParts
  <2>7. Atomically(i, "woken")
    BY <1>1, <2>1, <2>3, <2>4, <2>5, <2>6, AtomicParts DEF Atomically, AtomicPlaces
  <2>8. IInv' /\ phase = PhaseOf(H, pc) /\ phase' = PhaseOf(H, pc')
    BY <2>3, <2>7, AtomicStep
  <2> HIDE DEF H
  <2>9. phase' = phase
    BY <1>1, <2>2, <2>8 DEF PhaseOf, Waiting
  <2> QED BY <2>8, <2>9 DEF Does
<1> QED BY <1>2, <1>3

(***************************************************************************)
(* Back from Pause, with the forks taken by a neighbour.                   *)
(***************************************************************************)
LEMMA ResumedKeeps ==
  ASSUME IInv, NEW i \in Phil, Resumed(i), program = "afilo"
  PROVE  Does
<1> DEFINE H == Eating(pc, paused)
<1>1. /\ pc[i] = "woken" /\ i \notin paused /\ pc' = [pc EXCEPT ![i] = "eat"]
      /\ hungry' = hungry \ {i} /\ UNCHANGED <<program, w, owner, in_use, paused>>
  BY DEF Resumed, At, GoTo
<1>2. pc'[i] = "eat" /\ \A k \in Phil : k # i => pc'[k] = pc[k]
  BY <1>1, AtomicParts
<1>3. Eating(pc', paused') = H
  <2>1. Eating(pc', paused) = Eating(pc, paused)
    BY <1>1, <1>2 DEF Eating
  <2> QED BY <1>1, <2>1
<1>4. hungry' = TasksAt(pc', {"woken"})
  BY <1>1, <1>2, AtomicParts DEF TasksAt
<1>5. paused' \subseteq hungry'
  BY <1>1, AtomicParts
<1>6. Atomically(i, "eat")
  BY <1>1, <1>3, <1>4, <1>5, AtomicParts DEF Atomically, AtomicPlaces
<1>7. IInv' /\ phase = PhaseOf(H, pc) /\ phase' = PhaseOf(H, pc')
  BY <1>3, <1>6, AtomicStep
<1>8. i \in H
  BY <1>1 DEF Eating
<1> HIDE DEF H
<1>9. phase' = phase
  BY <1>2, <1>7, <1>8 DEF PhaseOf
<1> QED BY <1>7, <1>9 DEF Does
(* The forks that i leaves are free: it feeds first its neighbour at the   *)
(* left, the set a, with the forks m then in use, and then the one at the  *)
(* right, the set b, with the forks n.                                     *)
Hands(i, h, free, a, m, b, n) ==
  /\ a = {j \in {prev(i)} : j \in h /\ Forks(j) \cap free = {}}
  /\ m = IF prev(i) \in a THEN free \cup Forks(prev(i)) ELSE free
  /\ b = {j \in {next(i)} : j \in h /\ Forks(j) \cap m = {}}
  /\ n = free \cup UNION {Forks(j) : j \in a \cup b}

(* The neighbours of i that are fed are those that may eat then: u are the *)
(* forks then in use.                                                      *)
FedBy(i, h, free, u, fed) ==
  /\ i \notin fed /\ fed \subseteq Neighbours[i] \cap h
  /\ free \subseteq u /\ \A k \in fed : Forks(k) \cap free = {}
  /\ \A k \in Neighbours[i] \cap h : Forks(k) \cap u = {} => k \in fed

(***************************************************************************)
(* The forks after that.                                                   *)
(***************************************************************************)
LEMMA ForksHanded ==
  ASSUME NEW u, NEW H, Shared(u, H), NEW h, NEW i \in H, NEW free, free = u \ Forks(i),
         NEW a, NEW m, NEW b, NEW n, Hands(i, h, free, a, m, b, n)
  PROVE  Shared(n, (H \ {i}) \cup (a \cup b)) /\ FedBy(i, h, free, n, a \cup b)
<1>1. /\ i \in Phil /\ prev(i) \in Phil /\ next(i) \in Phil /\ prev(i) # i /\ next(i) # i
      /\ Neighbours[i] = {prev(i), next(i)}
  BY Circle DEF Shared, Apart, Neighbours
<1> USE DEF Hands
<1> DEFINE H0 == H \ {i}
           H1 == H0 \cup a
<1>2. Shared(free, H0)
  BY ForksLeft
<1> HIDE DEF H0
<1>3. Shared(m, H1)
  <2>1. CASE prev(i) \in a
    <3>1. a = {prev(i)} /\ Forks(prev(i)) \cap free = {}
      BY <2>1
    <3> QED BY <1>1, <1>2, <2>1, <3>1, ForksTaken
  <2>2. CASE prev(i) \notin a
    <3>1. a = {} /\ m = free
      BY <2>2
    <3> QED BY <1>2, <3>1
  <2> QED BY <2>1, <2>2
<1>4. m = free \cup UNION {Forks(j) : j \in a}
  <2>1. a = {} \/ a = {prev(i)}
    OBVIOUS
  <2> QED BY <2>1
<1>5. n = m \cup UNION {Forks(j) : j \in b}
  BY <1>4
<1> HIDE DEF H1
<1>6. Shared(n, H1 \cup b)
  <2>1. CASE next(i) \in b
    <3>1. b = {next(i)} /\ Forks(next(i)) \cap m = {} /\ n = m \cup Forks(next(i))
      BY <1>5, <2>1
    <3> QED BY <1>1, <1>3, <3>1, ForksTaken
  <2>2. CASE next(i) \notin b
    <3>1. b = {} /\ n = m
      BY <1>5, <2>2
    <3> QED BY <1>3, <3>1
  <2> QED BY <2>1, <2>2
<1>7. FedBy(i, h, free, n, a \cup b)
  <2>1. i \notin a \cup b /\ a \cup b \subseteq Neighbours[i] \cap h
    BY <1>1
  <2>2. free \subseteq m /\ m \subseteq n
    BY <1>4, <1>5
  <2>3. \A k \in a \cup b : Forks(k) \cap free = {}
    BY <2>2
  <2>4. ASSUME NEW k \in Neighbours[i] \cap h, Forks(k) \cap n = {} PROVE k \in a \cup b
    <3>1. k = prev(i) \/ k = next(i)
      BY <1>1
    <3>2. Forks(k) \cap free = {} /\ Forks(k) \cap m = {}
      BY <2>2, <2>4
    <3> QED BY <2>4, <3>1, <3>2
  <2> QED BY <2>1, <2>2, <2>3, <2>4 DEF FedBy
<1> QED BY <1>6, <1>7 DEF H0, H1

(***************************************************************************)
(* leave_forks of afilo, which feeds the neighbours.                       *)
(***************************************************************************)
LEMMA AtomicLeaveKeeps ==
  ASSUME IInv, NEW i \in Phil, AtomicLeave(i), program = "afilo"
  PROVE  Does
<1> DEFINE H == Eating(pc, paused)
           free == in_use \ Forks(i)
           a == {j \in {prev(i)} : j \in hungry /\ Forks(j) \cap free = {}}
           m == IF prev(i) \in a THEN free \cup Forks(prev(i)) ELSE free
           b == {j \in {next(i)} : j \in hungry /\ Forks(j) \cap m = {}}
           fed == a \cup b
           n == free \cup UNION {Forks(j) : j \in fed}
           ps == paused \ fed
<1>1. /\ pc[i] = "eat" /\ i \notin paused /\ i \in H /\ pc' = [pc EXCEPT ![i] = "think"]
      /\ UNCHANGED <<program, w, owner, hungry>>
  BY DEF AtomicLeave, At, GoTo, Eating
<1>2. in_use' = n /\ paused' = ps
  <2>1. {j \in {prev(i)} : Fed(free, j)} = a
    BY DEF Fed
  <2>2. (IF Fed(free, prev(i)) THEN free \cup Forks(prev(i)) ELSE free) = m
    BY DEF Fed
  <2>3. {j \in {next(i)} : Fed(m, j)} = b
    BY DEF Fed
  <2> QED BY <2>1, <2>2, <2>3 DEF AtomicLeave, leave_forks
<1>3. Shared(in_use, H)
  BY AtomicParts
<1>4. Shared(n, (H \ {i}) \cup fed) /\ FedBy(i, hungry, free, n, fed)
  <2>1. Hands(i, hungry, free, a, m, b, n)
    BY DEF Hands
  <2>2. free = in_use \ Forks(i)
    OBVIOUS
  <2> HIDE DEF H, free, a, m, b, n
  <2>3. Shared(n, (H \ {i}) \cup (a \cup b)) /\ FedBy(i, hungry, free, n, a \cup b)
    BY <1>1, <1>3, <2>1, <2>2, ForksHanded
  <2> QED BY <2>3
<1>5. Shared(free, H \ {i})
  <2> HIDE DEF H
  <2> QED BY <1>1, <1>3, ForksLeft
<1>6. free = in_use \ Forks(i)
  OBVIOUS
<1> HIDE DEF H, free, fed, n
<1>7. pc'[i] = "think" /\ \A k \in Phil : k # i => pc'[k] = pc[k]
  BY <1>1, AtomicParts
<1>8. /\ fed \subseteq hungry /\ i \notin fed /\ i \notin hungry /\ i \in Phil
      /\ \A k \in hungry : k \in Phil /\ k # i /\ pc[k] = "woken"
  BY <1>1, <1>4, AtomicParts DEF FedBy
<1>9. Eating(pc', ps) = (H \ {i}) \cup fed
  BY <1>1, <1>7, <1>8 DEF Eating, H
<1>10. hungry = TasksAt(pc', {"woken"})
  BY <1>1, <1>7, AtomicParts DEF TasksAt
<1>11. \A k \in ps : Forks(k) \cap n # {}
  <2>1. ASSUME NEW k \in ps, Forks(k) \cap n = {} PROVE FALSE
    <3>1. k \in paused /\ k \notin fed /\ k \in hungry /\ Forks(k) \cap in_use # {} /\ k \in Phil /\ k # i
      BY <1>8, AtomicParts
    <3>2. Forks(k) \cap free = {}
      BY <1>4, <2>1 DEF FedBy
    <3>3. Forks(i) \cap Forks(k) # {}
      BY <1>6, <3>1, <3>2
    <3>4. k \in Neighbours[i]
      BY <3>1, <3>3, Circle DEF Neighbours
    <3> QED BY <1>4, <2>1, <3>1, <3>4 DEF FedBy
  <2> QED BY <2>1
<1>12. ps \subseteq hungry
  BY AtomicParts
<1> HIDE DEF ps
<1>13. Atomically(i, "think")
  BY <1>1, <1>2, <1>4, <1>9, <1>10, <1>11, <1>12 DEF Atomically, AtomicPlaces
<1>14. IInv' /\ phase = PhaseOf(H, pc) /\ phase' = PhaseOf((H \ {i}) \cup fed, pc')
  <2>1. IInv' /\ phase = PhaseOf(H, pc) /\ phase' = PhaseOf(Eating(pc', ps), pc')
    BY <1>2, <1>13, AtomicStep DEF H
  <2> QED BY <1>9, <2>1
<1>15. ASSUME NEW j \in fed
       PROVE  /\ phase[j] = "hungry"
              /\ \A k \in Neighbours[j] \ {i} : phase[k] # "eating" /\ k \notin fed
  <2>1. /\ j \in Phil /\ j # i /\ pc[j] = "woken" /\ Forks(j) \cap free = {}
        /\ next(j) \in Phil /\ prev(j) \in Phil /\ next(prev(j)) = j
        /\ Neighbours[j] = {prev(j), next(j)}
    BY <1>4, <1>8, Circle DEF FedBy, Neighbours
  <2>2. j \notin H \ {i} /\ next(j) \notin H \ {i} /\ prev(j) \notin H \ {i}
    BY <1>5, <2>1, ForksFree
  <2>3. phase[j] = "hungry"
    BY <1>14, <2>1, <2>2 DEF PhaseOf, Waiting
  <2>4. ASSUME NEW k \in Neighbours[j] \ {i} PROVE phase[k] # "eating" /\ k \notin fed
    <3>1. k \in Phil /\ k \notin H
      BY <2>1, <2>2
    <3>2. next(j) \notin fed /\ prev(j) \notin fed
      BY <1>4, <2>1 DEF Shared, Apart
    <3> QED BY <1>14, <2>1, <3>1, <3>2 DEF PhaseOf
  <2> QED BY <2>3, <2>4
<1>16. Table!Stop(i)
  <2>1. phase[i] = "eating"
    BY <1>1, <1>14 DEF PhaseOf
  <2>2. fed \in SUBSET Neighbours[i]
    BY <1>4 DEF FedBy
  <2>3. Stops(phase, phase', i, fed)
    <3>1. SameWaiting(pc, pc', i) /\ pc'[i] \notin Waiting
      BY <1>7 DEF SameWaiting, Waiting
    <3>2. Stops(PhaseOf(H, pc), PhaseOf((H \ {i}) \cup fed, pc'), i, fed)
      BY <1>8, <3>1, PhasesStopping
    <3> QED BY <1>14, <3>2
  <2> QED BY <1>15, <2>1, <2>2, <2>3 DEF Table!Stop, Stops
<1> QED BY <1>8, <1>14, <1>16 DEF Does, Table!Next-----------------------------------------------------------------------------
(* The theorems.                                                           *)

(***************************************************************************)
(* At first everybody thinks and all forks are on the table.               *)
(***************************************************************************)
LEMMA InitKeeps ==
  ASSUME Init
  PROVE  IInv /\ Table!Init
<1> DEFINE c == [s \in Sem |-> 1]
           l == [q \in Sem \cup Cond |-> <<>>]
           b == [t \in Task |-> FALSE]
<1>1. /\ w = [value |-> c, list |-> l, timed |-> {}, success |-> b]
      /\ program \in Programs /\ owner = NoTask /\ in_use = {} /\ hungry = {} /\ paused = {}
      /\ pc = [i \in Phil |-> "think"]
  BY DEF Init, Programs
<1>2. /\ c[mon] = 1 /\ c \in [Sem -> Nat] /\ l \in [Queue -> Seq(Task)] /\ b \in [Task -> BOOLEAN]
      /\ \A q \in Queue : l[q] = <<>>
  BY Names DEF Queue
<1> HIDE DEF c, l, b
<1>3. w \in Records /\ w.list = l /\ w.value = c /\ w.timed = {}
  BY <1>1, <1>2 DEF Records
<1>4. \A t \in Task : where(w)[t] = {}
  BY <1>2, <1>3 DEF where, WaitingIn, ToSet
<1>5. Linked(w)
  <2>1. \A q \in Queue : NoRepetition(w.list[q])
    BY <1>2, <1>3 DEF NoRepetition
  <2> QED BY <1>3, <1>4, <2>1 DEF Linked
<1>6. pc \in [Task -> Places] /\ \A t \in Task : pc[t] = "think"
  BY <1>1, Names DEF Places
<1>7. Kept(program, w, pc, owner)
  <2>1. TasksAt(pc, Inside) = {} /\ TasksAt(pc, Asking) = {}
    BY <1>6 DEF TasksAt, Inside, Asking
  <2>2. Past(w, mon, {}, {}) = {}
    BY DEF Past
  <2>3. w.value[mon] = 1 /\ 1 <= 1
    BY <1>2, <1>3
  <2>4. \A t \in Task : where(w)[t] # {mon}
    BY <1>4
  <2>5. Locked(w, mon, {}, {})
    BY <2>2, <2>3, <2>4 DEF Locked
  <2>6. \A t \in Task : Seated(program, w, pc, owner, t)
    BY <1>4, <1>6 DEF Seated, Asking, Inside
  <2> QED BY <1>1, <1>5, <1>6, <2>1, <2>5, <2>6 DEF Kept
<1>8. Ways(program, w, pc, hungry, paused)
  <2>1. TasksAt(pc, {"woken", "reenter"}) = {}
    BY <1>6 DEF TasksAt
  <2> QED BY <1>1, <1>4, <1>6, <2>1, Names DEF Ways
<1>9. HoldersOf(program, w, pc, paused) = {} /\ SleepersOf(w, pc, paused) = {}
  BY <1>6, Names DEF HoldersOf, SleepersOf, Holding
<1>10. IInv
  <2>1. Shared({}, {})
    BY DEF Shared, ForksOf, Apart
  <2> QED BY <1>1, <1>7, <1>8, <1>9, <2>1 DEF IInv, Fine, Due
<1>11. Table!Init
  <2>1. phase = PhaseOf(HoldersOf(program, w, pc, paused), pc)
    BY <1>10, Meaning
  <2>2. phase = PhaseOf({}, pc)
    BY <1>9, <2>1
  <2> QED BY <1>6, <2>2, Names DEF PhaseOf, Waiting, Table!Init
<1> QED BY <1>10, <1>11

(***************************************************************************)
(* Every step keeps the invariant, and is a step of Dining or changes no   *)
(* phase.                                                                  *)
(***************************************************************************)
LEMMA NextKeeps ==
  ASSUME IInv, [Next]_vars
  PROVE  Does
<1>1. CASE UNCHANGED vars
  <2>1. IInv'
    BY <1>1 DEF vars, IInv
  <2>2. phase' = phase
    BY <1>1, <2>1, Meaning, MeaningNext DEF vars
  <2> QED BY <2>1, <2>2 DEF Does
<1>2. ASSUME NEW i \in Phil, philosopher(i) PROVE Does
  <2>1. CASE BecomeHungry(i)
    BY <2>1, BecomeHungryKeeps, AtomicHungryKeeps
  <2>2. CASE TakesForks(i) /\ program # "afilo"
    BY <2>2, EnterMonitorKeeps, EnteredKeeps, TakeForksKeeps, WaitForForksKeeps, WokenKeeps,
       ReenteredKeeps, LeaveMonitorKeeps DEF TakesForks
  <2>3. CASE LeaveForks(i) /\ program # "afilo"
    BY <2>3, LeaveForksKeeps
  <2>4. CASE (SignalLeft(i) \/ SignalRight(i)) /\ program \in {"filo", "xfilo"}
    BY <2>4, SignalsKeep
  <2>5. CASE BroadcastCondition(i) /\ program = "sfilo"
    BY <2>5, BroadcastKeeps
  <2>6. CASE afilo(i)
    BY <2>6, AtomicTakeKeeps, ResumedKeeps, AtomicLeaveKeeps DEF afilo
  <2> QED BY <1>2, <2>1, <2>2, <2>3, <2>4, <2>5, <2>6 DEF philosopher, filo, sfilo, xfilo
<1> QED BY <1>1, <1>2 DEF Next

(***************************************************************************)
(* The inductive invariant.                                                *)
(***************************************************************************)
THEOREM IInvHolds == Spec => []IInv
<1>1. Init => IInv
  BY InitKeeps
<1>2. IInv /\ [Next]_vars => IInv'
  BY NextKeeps DEF Does
<1> QED BY <1>1, <1>2, PTL DEF Spec

(***************************************************************************)
(* The variables have their types: the monitor is never counted above one. *)
(***************************************************************************)
THEOREM TypeCorrect == Spec => []TypeOK
<1>1. IInv => TypeOK
  <2> SUFFICES ASSUME IInv PROVE TypeOK
    OBVIOUS
  <2>1. /\ w \in Records /\ w.value \in [Sem -> Nat] /\ w.list \in [Queue -> Seq(Phil)]
        /\ w.timed \subseteq Phil /\ w.success \in [Phil -> BOOLEAN]
    BY RecordsFields, Parts DEF Linked
  <2>2. w.value[mon] \in Nat /\ w.value[mon] <= 1 /\ Sem = {mon}
    BY <2>1, Parts, Names, PhilosophersAssumption DEF Kept, Locked
  <2>3. w.value \in [Sem -> 0 .. 1]
    <3>1. w.value[mon] \in 0 .. 1
      BY <2>2
    <3> QED BY <2>1, <2>2, <3>1
  <2>4. w \in [value : [Sem -> 0 .. 1], list : [Sem \cup Cond -> Seq(Phil)],
               timed : SUBSET Phil, success : [Phil -> BOOLEAN]]
    BY <2>1, <2>3 DEF Records, Queue
  <2>5. in_use \subseteq Phil
    <3> DEFINE H == HoldersOf(program, w, pc, paused)
    <3>1. in_use = ForksOf(H) /\ H \subseteq Phil
      BY Parts DEF Shared, Apart
    <3> HIDE DEF H
    <3>2. \A i \in H : Forks(i) \subseteq Phil
      BY <3>1, Circle DEF Forks
    <3> QED BY <3>1, <3>2 DEF ForksOf
  <2>6. hungry \subseteq Phil /\ paused \subseteq Phil
    BY Parts DEF Ways, TasksAt
  <2> QED BY <2>4, <2>5, <2>6, Parts DEF TypeOK, Kept, Programs
<1> QED BY <1>1, IInvHolds, PTL

(***************************************************************************)
(* in_use says which forks are held, and no fork is held twice, also when  *)
(* a neighbour took it (filo.c, sfilo.c, xfilo.c, afilo.c).                *)
(***************************************************************************)
THEOREM ForksAgreeHolds == Spec => []ForksAgree
<1>1. IInv => ForksAgree
  <2> SUFFICES ASSUME IInv PROVE ForksAgree
    OBVIOUS
  <2> DEFINE H == HoldersOf(program, w, pc, paused)
  <2>1. in_use = UNION {Forks(i) : i \in H} /\ H \subseteq Phil /\ \A i \in H : next(i) \notin H
    BY Parts DEF Shared, Apart, ForksOf
  <2>2. \A i \in Phil : (Holds(i) <=> i \in H) /\ next(i) \in Phil
    BY Meaning, Circle
  <2> HIDE DEF H
  <2>3. {j \in Phil : Holds(j)} = H
    BY <2>1, <2>2
  <2> QED BY <2>1, <2>2, <2>3 DEF ForksAgree
<1> QED BY <1>1, IInvHolds, PTL

(***************************************************************************)
(* Nobody sleeps beside two free forks, unless a neighbour has still to    *)
(* look at it: the wake-up of the four programs is never lost.             *)
(***************************************************************************)
THEOREM WakeupDueHolds == Spec => []WakeupDue
<1>1. IInv => WakeupDue
  <2> SUFFICES ASSUME IInv PROVE WakeupDue
    OBVIOUS
  <2>1. \A i \in Phil : Sleeps(i) <=> i \in SleepersOf(w, pc, paused)
    BY Meaning
  <2>2. Due(pc, SleepersOf(w, pc, paused), in_use)
    BY Parts
  <2> QED BY <2>1, <2>2 DEF WakeupDue, Due, forks_avail
<1> QED BY <1>1, IInvHolds, PTL

(***************************************************************************)
(* The four programs implement the promise of Dining: nobody begins to eat *)
(* beside a philosopher that eats.                                         *)
(***************************************************************************)
THEOREM PhilosophersImplementDining == Spec => ImplementsDining
<1>1. Init => Table!Init
  BY InitKeeps
<1>2. IInv /\ [Next]_vars => [Table!Next]_phase
  BY NextKeeps DEF Does
<1> QED BY <1>1, <1>2, IInvHolds, PTL DEF Spec, ImplementsDining, Table!Spec
=============================================================================
