---------------------------- MODULE Philosophers ----------------------------
(***************************************************************************)
(* The four programs of the dining philosophers, which share the forks and *)
(* differ in how a philosopher waits for them:                             *)
(*                                                                         *)
(*   filo    on a condition of its own, and tests again when woken         *)
(*   sfilo   on one condition for all, and tests again when woken          *)
(*   xfilo   on a condition of its own, and wakes with the forks taken for *)
(*           it by the neighbour who left them                             *)
(*   afilo   as xfilo, with Atomic, Pause and Ready and no monitor         *)
(*                                                                         *)
(* The steps of the monitor and its conditions are those of monitor.c.     *)
(* Nobody presses the key that ends the program.                           *)
(***************************************************************************)
EXTENDS SyncState

CONSTANTS
  NF,           \* the number of philosophers and of forks
  mon,          \* the semaphore of the monitor
  all,          \* the condition of sfilo
  own,          \* the conditions of the others, one per philosopher
  NoTask

Phil == 0 .. NF - 1

ASSUME PhilosophersAssumption ==
  /\ NF \in Nat \ {0, 1}
  /\ Task = Phil /\ \A i \in Phil : prio[i] = prio[0]     \* DEFAULT_PRIO
  /\ Sem = {mon}
  /\ own \in [Phil -> Cond] /\ all \in Cond
  /\ \A i, j \in Phil : own[i] # all /\ (own[i] = own[j] => i = j)
  /\ NoTask \notin Phil

VARIABLES
  program,
  w,            \* the semaphore of the monitor and the queues (SyncState)
  owner,        \* mon->owner
  in_use,       \* the forks in use
  hungry,       \* the philosophers that wait for forks (xfilo, afilo)
  paused,       \* those in Pause (afilo)
  pc

vars == <<program, w, owner, in_use, hungry, paused, pc>>

HandsOver == program \in {"xfilo", "afilo"}

next(i) == IF i = NF - 1 THEN 0 ELSE i + 1
prev(i) == IF i = 0 THEN NF - 1 ELSE i - 1

Forks(i) == {i, next(i)}
cond(i) == IF program = "sfilo" THEN all ELSE own[i]

Init ==
  /\ program \in {"filo", "sfilo", "xfilo", "afilo"}
  /\ w = [value |-> [s \in Sem |-> 1], list |-> [q \in Sem \cup Cond |-> <<>>],
          timed |-> {}, success |-> [t \in Task |-> FALSE]]
  /\ owner = NoTask
  /\ in_use = {} /\ hungry = {} /\ paused = {}
  /\ pc = [i \in Phil |-> "think"]

At(i, place) == pc[i] = place /\ Runs(w, i) /\ i \notin paused
GoTo(i, place) == pc' = [pc EXCEPT ![i] = place]

forks_avail(i) == Forks(i) \cap in_use = {}
take_forks(i) == in_use \cup Forks(i)
leave_forks(i) == in_use \ Forks(i)

\* The delay of think is over.
BecomeHungry(i) ==
  /\ At(i, "think") /\ GoTo(i, "hungry")
  /\ UNCHANGED <<program, w, owner, in_use, hungry, paused>>

-----------------------------------------------------------------------------
(* The monitor: EnterMonitor, to take the forks and, when the delay of eat *)
(* is over, to leave them, and LeaveMonitor.                               *)

EnterMonitor(i) ==
  /\ \/ At(i, "hungry") /\ GoTo(i, "enter")
     \/ At(i, "eat") /\ GoTo(i, "return")
  /\ w' = WaitSem(w, i, mon, FOREVER)
  /\ UNCHANGED <<program, owner, in_use, hungry, paused>>

Entered(i) ==
  /\ \/ At(i, "enter") /\ GoTo(i, "test")
     \/ At(i, "return") /\ GoTo(i, "leave_forks")
  /\ owner' = i
  /\ w' = Returned(w, i)
  /\ UNCHANGED <<program, in_use, hungry, paused>>

LeaveMonitor(i) ==
  /\ \/ At(i, "taken") /\ GoTo(i, "eat")
     \/ At(i, "left") /\ GoTo(i, "think")
  /\ owner' = NoTask
  /\ w' = SignalSem(w, mon)
  /\ UNCHANGED <<program, in_use, hungry, paused>>

-----------------------------------------------------------------------------
(* Taking the forks, or waiting for them.                                  *)

\* Faulty variant: a philosopher that has been woken does not test again.
TakeForksUntested(i) ==
  /\ At(i, "test")
  /\ forks_avail(i) \/ w.list[cond(i)] = <<>>
  /\ in_use' = take_forks(i)
  /\ GoTo(i, "taken")
  /\ UNCHANGED <<program, w, owner, hungry, paused>>

TakeForks(i) ==
  /\ At(i, "test") /\ forks_avail(i)
  /\ in_use' = take_forks(i)
  /\ GoTo(i, "taken")
  /\ UNCHANGED <<program, w, owner, hungry, paused>>

\* Faulty variant: the philosopher looks again and again, in the monitor.
SpinForForks(i) ==
  /\ At(i, "test") /\ ~ forks_avail(i)
  /\ UNCHANGED vars

\* WaitCondition leaves the monitor and waits in cooperative mode.
WaitForForks(i) ==
  /\ At(i, "test") /\ ~ forks_avail(i)
  /\ hungry' = IF HandsOver THEN hungry \cup {i} ELSE hungry
  /\ owner' = NoTask
  /\ w' = WaitQueue(SignalSem(w, mon), i, cond(i), FOREVER)
  /\ GoTo(i, "woken")
  /\ UNCHANGED <<program, in_use, paused>>

Woken(i) ==
  /\ At(i, "woken")
  /\ w' = WaitSem(w, i, mon, FOREVER)
  /\ GoTo(i, "reenter")
  /\ UNCHANGED <<program, owner, in_use, hungry, paused>>

Reentered(i) ==
  /\ At(i, "reenter")
  /\ owner' = i
  /\ w' = Returned(w, i)
  /\ hungry' = hungry \ {i}
  /\ GoTo(i, IF HandsOver THEN "taken" ELSE "test")
  /\ UNCHANGED <<program, in_use, paused>>

-----------------------------------------------------------------------------
(* Leaving the forks, and waking those who may use them.                   *)

LeaveForks(i) ==
  /\ At(i, "leave_forks")
  /\ in_use' = leave_forks(i)
  /\ GoTo(i, IF program = "sfilo" THEN "broadcast" ELSE "signal_left")
  /\ UNCHANGED <<program, w, owner, hungry, paused>>

BroadcastCondition(i) ==
  /\ At(i, "broadcast")
  /\ w' = FlushQueue(w, all, TRUE)
  /\ GoTo(i, "left")
  /\ UNCHANGED <<program, owner, in_use, hungry, paused>>

\* Faulty variant: the forks are not taken for the neighbour.
SignalOnly(j) ==
  /\ w' = IF forks_avail(j) /\ (HandsOver => j \in hungry) THEN SignalQueue(w, own[j]) ELSE w
  /\ UNCHANGED in_use

SignalCondition(j) ==
  IF forks_avail(j) /\ (HandsOver => j \in hungry)
  THEN /\ w' = SignalQueue(w, own[j])
       /\ in_use' = IF HandsOver THEN take_forks(j) ELSE in_use
  ELSE UNCHANGED <<w, in_use>>

\* Faulty variant: the neighbour at the right is not looked at.
SignalLeftOnly(i) ==
  /\ At(i, "signal_left")
  /\ SignalCondition(prev(i))
  /\ GoTo(i, "left")
  /\ UNCHANGED <<program, owner, hungry, paused>>

SignalLeft(i) ==
  /\ At(i, "signal_left")
  /\ SignalCondition(prev(i))
  /\ GoTo(i, "signal_right")
  /\ UNCHANGED <<program, owner, hungry, paused>>

SignalRight(i) ==
  /\ At(i, "signal_right")
  /\ SignalCondition(next(i))
  /\ GoTo(i, "left")
  /\ UNCHANGED <<program, owner, hungry, paused>>

-----------------------------------------------------------------------------
(* afilo: nobody else runs between Atomic and Unatomic, except while this  *)
(* task is suspended.                                                      *)

AtomicTake(i) ==
  /\ At(i, "hungry")
  /\ IF forks_avail(i)
     THEN in_use' = take_forks(i) /\ GoTo(i, "eat") /\ UNCHANGED <<hungry, paused>>
     ELSE /\ hungry' = hungry \cup {i} /\ paused' = paused \cup {i}
          /\ GoTo(i, "woken") /\ UNCHANGED in_use
  /\ UNCHANGED <<program, w, owner>>

\* Back from Pause.
Resumed(i) ==
  /\ At(i, "woken")
  /\ hungry' = hungry \ {i}
  /\ GoTo(i, "eat")
  /\ UNCHANGED <<program, w, owner, in_use, paused>>

Fed(used, j) == j \in hungry /\ Forks(j) \cap used = {}

AtomicLeave(i) ==
  LET left == prev(i)
      right == next(i)
      free == leave_forks(i)
      used == IF Fed(free, left) THEN free \cup Forks(left) ELSE free
      fed == {j \in {left} : Fed(free, j)} \cup {j \in {right} : Fed(used, j)}
  IN  /\ At(i, "eat")
      /\ in_use' = free \cup UNION {Forks(j) : j \in fed}
      /\ paused' = paused \ fed                           \* Ready
      /\ GoTo(i, "think")
      /\ UNCHANGED <<program, w, owner, hungry>>

-----------------------------------------------------------------------------
TakesForks(i) ==
  EnterMonitor(i) \/ Entered(i) \/ TakeForks(i) \/ WaitForForks(i) \/ Woken(i) \/ Reentered(i)
  \/ LeaveMonitor(i)

filo(i) == program = "filo" /\ (TakesForks(i) \/ LeaveForks(i) \/ SignalLeft(i) \/ SignalRight(i))

sfilo(i) == program = "sfilo" /\ (TakesForks(i) \/ LeaveForks(i) \/ BroadcastCondition(i))

xfilo(i) == program = "xfilo" /\ (TakesForks(i) \/ LeaveForks(i) \/ SignalLeft(i) \/ SignalRight(i))

afilo(i) == program = "afilo" /\ (AtomicTake(i) \/ Resumed(i) \/ AtomicLeave(i))

philosopher(i) == BecomeHungry(i) \/ filo(i) \/ sfilo(i) \/ xfilo(i) \/ afilo(i)

Next == \E i \in Phil : philosopher(i)

Spec == Init /\ [][Next]_vars

\* A task goes on: the delays end (WaitsEnd of Kernel), and tasks of equal
\* priority share the CPU (RoundRobin).
FairSpec == Spec /\ \A i \in Phil : WF_vars(philosopher(i))

-----------------------------------------------------------------------------
(* Properties *)

Places == {"think", "hungry", "enter", "test", "woken", "reenter", "taken", "eat", "return",
           "leave_forks", "broadcast", "signal_left", "signal_right", "left"}

(* The count of the monitor never exceeds one, and so on.                  *)
TypeOK ==
  /\ program \in {"filo", "sfilo", "xfilo", "afilo"}
  /\ w \in [value : [Sem -> 0 .. 1], list : [Sem \cup Cond -> Seq(Phil)],
            timed : SUBSET Phil, success : [Phil -> BOOLEAN]]
  /\ owner \in Phil \cup {NoTask}
  /\ in_use \subseteq Phil /\ hungry \subseteq Phil /\ paused \subseteq Phil
  /\ pc \in [Phil -> Places]

\* Forks were taken for i, which does not run yet.
Given(i) ==
  /\ HandsOver /\ i \in hungry
  /\ \/ pc[i] = "reenter"
     \/ pc[i] = "woken" /\ i \notin paused /\ Runs(w, i)

Holds(i) == pc[i] \in {"taken", "eat", "return", "leave_forks"} \/ Given(i)

(* in_use says which forks are held, and none is held twice, whoever took  *)
(* it: the philosopher itself or, for it, a neighbour (xfilo.c:157-166).   *)
ForksAgree ==
  /\ in_use = UNION {Forks(i) : i \in {j \in Phil : Holds(j)}}
  /\ \A i \in Phil : Holds(i) => ~ Holds(next(i))

\* i waits and nobody has woken it.
Sleeps(i) == pc[i] = "woken" /\ (i \in paused \/ ~ Runs(w, i))

(* Nobody sleeps beside two free forks, unless a neighbour that has just   *)
(* left one of them has still to look at it (filo.c:151-154): the forks    *)
(* are tested when one is left, never when one is taken, so that a         *)
(* neighbour that is forgotten once may sleep for ever.                    *)
WakeupDue ==
  \A i \in Phil : Sleeps(i) /\ forks_avail(i) =>
    \/ pc[next(i)] = "signal_left"
    \/ pc[prev(i)] \in {"signal_left", "signal_right"}
    \/ \E j \in Phil : pc[j] = "broadcast"

Wants(i) == pc[i] \in {"hungry", "enter", "test", "woken", "reenter"} /\ ~ Holds(i)

(* While somebody is hungry, somebody eats again and again.  (Which one is *)
(* not promised: two philosophers can starve the one between them.)        *)
FeastGoesOn == (\E i \in Phil : Wants(i)) ~> (\E i \in Phil : pc[i] = "eat")

(* Every program lets philosophers eat as Dining promises.                 *)
Neighbours == [i \in Phil |-> {prev(i), next(i)}]

phase ==
  [i \in Phil |-> IF Holds(i) THEN "eating"
                  ELSE IF pc[i] \in {"hungry", "enter", "test", "woken", "reenter"} THEN "hungry"
                  ELSE "thinking"]

Table == INSTANCE Dining

ImplementsDining == Table!Spec
=============================================================================
