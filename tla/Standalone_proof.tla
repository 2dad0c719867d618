-------------------------- MODULE Standalone_proof --------------------------
(***************************************************************************)
(* The proofs about the three parts that are modelled on their own.        *)
(*                                                                         *)
(* The first is the queue of differences of queue.c, for every set of      *)
(* tasks and every set of waits: it encodes what is left of each wait, it  *)
(* is in the order in which the waits end, and it implements the timers of *)
(* module Timers.                                                          *)
(*                                                                         *)
(* The second is the file system of fs.c, for every log, buffer and set of *)
(* names: its tree is closed, and it implements the store of module        *)
(* FileStore.  What these proofs follow is the log as it will be once it   *)
(* is synced: it only grows, whatever is written to the disk, and the      *)
(* chain from a map to its inode and its data never leaves the part that   *)
(* is there.                                                               *)
(*                                                                         *)
(* The third is the heap of malloc.c, for every size: until the only block *)
(* of the list is consumed, the blocks on the list and those in use tile   *)
(* it, no two free blocks touch, and it implements module Allocator.  What *)
(* these proofs rest on is that the list is in order of address but for    *)
(* one place, where it goes round; that the walk from a block meets all of *)
(* it is by well-founded induction on the naturals.                        *)
(***************************************************************************)
EXTENDS TimeQueue, Lfs, Heap, OrderedQueue_proof, WellFoundedInduction, TLAPS

-----------------------------------------------------------------------------
(* The time queue. *)

Asked(t) == MsecsToTicks(msecs[t])

(* While mt_enqueue_time looks for the place of call.task, the tasks it    *)
(* has gone past are due sooner, and call.ticks is what its wait has left  *)
(* beyond the last of them.                                                *)
ScanInv ==
  pc = "scan" =>
    /\ call.at \in 1 .. Len(time_q) + 1
    /\ call.task \notin ToSet(time_q)
    /\ msecs[call.task] \in Msecs
    /\ \A j \in 1 .. call.at - 1 : Left(time_q[j]) < Asked(call.task)
    /\ call.ticks = Asked(call.task) - IF call.at = 1 THEN 0 ELSE Left(time_q[call.at - 1])

(* The tasks a clock interrupt has woken were due and have left the queue. *)
WokenInv ==
  /\ pc # "clock" => woken = <<>>
  /\ \A t \in ToSet(woken) : Left(t) = 0
  /\ ToSet(woken) \cap ToSet(time_q) = {}

WaitInv ==
  \A t \in ToSet(time_q) \cup ToSet(woken) :
     asked[t] = Asked(t) /\ msecs[t] \in Msecs

TimeIInv ==
  /\ TimeTypeOK
  /\ DeltaEncoding
  /\ DueOrder
  /\ ScanInv
  /\ WokenInv
  /\ WaitInv
-----------------------------------------------------------------------------

(***************************************************************************)
(* Dividing by the tick rounds to whole ticks and returns a natural.       *)
(***************************************************************************)
LEMMA TicksType == \A m \in Nat : MsecsToTicks(m) \in Nat
<1> SUFFICES ASSUME NEW m \in Nat PROVE MsecsToTicks(m) \in Nat
  OBVIOUS
<1> DEFINE s == m + MSPERTICK - 1
           w == s % Word
<1>1. s \in Nat /\ Word \in Nat \ {0} /\ MSPERTICK \in Nat \ {0}
  BY TimeQueueAssumption
<1> HIDE DEF s
<1>2. w \in Nat
  BY <1>1
<1> HIDE DEF w
<1>3. w \div MSPERTICK \in Nat
  BY <1>1, <1>2
<1> QED BY <1>3 DEF MsecsToTicks, w, s

(***************************************************************************)
(* What is left of every wait in the queue is a natural.                   *)
(***************************************************************************)
LEMMA LeftIsNat ==
  ASSUME TimeTypeOK, DeltaEncoding, DueOrder
  PROVE  /\ \A t \in Task : Left(t) \in Int
         /\ \A i \in 1 .. Len(time_q) : Left(time_q[i]) \in Nat
<1>1. /\ Len(time_q) \in Nat /\ DOMAIN time_q = 1 .. Len(time_q)
      /\ \A i \in 1 .. Len(time_q) : time_q[i] \in Task
  BY LenProperties, ElementOfSeq DEF TimeTypeOK
<1>2. \A t \in Task : Left(t) \in Int
  BY DEF Left, TimeTypeOK
<1>3. ASSUME NEW i \in 1 .. Len(time_q) PROVE Left(time_q[i]) \in Nat
  <2>1. time_q # <<>> /\ 1 \in 1 .. Len(time_q)
    BY <1>1
  <2>2. Left(time_q[1]) \in Nat
    BY <1>1, <2>1 DEF DeltaEncoding, TimeTypeOK
  <2>3. i = 1 \/ 1 < i
    OBVIOUS
  <2>4. Left(time_q[1]) <= Left(time_q[i])
    BY <1>1, <1>2, <2>1, <2>2, <2>3 DEF DueOrder
  <2> QED BY <1>1, <1>2, <2>2, <2>4
<1> QED BY <1>2, <1>3

(***************************************************************************)
(* The empty queue satisfies the invariant.                                *)
(***************************************************************************)
LEMMA InitTimeIInv == TimeInit => TimeIInv
<1> SUFFICES ASSUME TimeInit PROVE TimeIInv
  OBVIOUS
<1> USE DEF TimeInit
<1>1. time_q \in Seq(Task) /\ woken \in Seq(Task) /\ ToSet(time_q) = {} /\ ToSet(woken) = {}
      /\ Len(time_q) = 0 /\ DOMAIN time_q = {}
  BY DEF ToSet
<1>2. TimeTypeOK
  BY <1>1 DEF TimeTypeOK
<1>3. DeltaEncoding
  BY <1>1 DEF DeltaEncoding
<1>4. DueOrder
  BY <1>1 DEF DueOrder, NoRepetition
<1>5. ScanInv /\ WokenInv /\ WaitInv
  BY <1>1 DEF ScanInv, WokenInv, WaitInv
<1> QED BY <1>2, <1>3, <1>4, <1>5 DEF TimeIInv

-----------------------------------------------------------------------------
(* One lemma per action: the step keeps the inductive invariant. *)

(***************************************************************************)
(* Facts every step lemma starts from.                                     *)
(***************************************************************************)
LEMMA QueueFacts ==
  ASSUME TimeIInv
  PROVE  /\ Len(time_q) \in Nat /\ DOMAIN time_q = 1 .. Len(time_q)
         /\ \A i \in 1 .. Len(time_q) : time_q[i] \in Task /\ time_q[i] \in ToSet(time_q)
         /\ \A i, j \in 1 .. Len(time_q) : time_q[i] = time_q[j] => i = j
         /\ \A i, j \in 1 .. Len(time_q) : i < j => Left(time_q[i]) <= Left(time_q[j])
         /\ \A t \in Task : Left(t) \in Int /\ Asked(t) \in Nat
         /\ \A i \in 1 .. Len(time_q) : Left(time_q[i]) \in Nat
         /\ \A t \in Task : ticks[t] \in Nat
<1>1. /\ Len(time_q) \in Nat /\ DOMAIN time_q = 1 .. Len(time_q)
      /\ \A i \in 1 .. Len(time_q) : time_q[i] \in Task
  BY LenProperties, ElementOfSeq DEF TimeIInv, TimeTypeOK
<1>2. \A i \in 1 .. Len(time_q) : time_q[i] \in ToSet(time_q)
  BY <1>1 DEF ToSet
<1>3. \A i, j \in 1 .. Len(time_q) : time_q[i] = time_q[j] => i = j
  BY <1>1 DEF TimeIInv, DueOrder, NoRepetition
<1>4. \A i, j \in 1 .. Len(time_q) : i < j => Left(time_q[i]) <= Left(time_q[j])
  BY <1>1 DEF TimeIInv, DueOrder
<1>5. \A t \in Task : Asked(t) \in Nat
  BY TicksType DEF Asked, TimeIInv, TimeTypeOK
<1>6. \A t \in Task : ticks[t] \in Nat
  BY DEF TimeIInv, TimeTypeOK
<1> QED BY <1>1, <1>2, <1>3, <1>4, <1>5, <1>6, LeftIsNat DEF TimeIInv

(***************************************************************************)
(* A stuttering step keeps the invariant.                                  *)
(***************************************************************************)
LEMMA StutterTimeIInv == TimeIInv /\ UNCHANGED timeVars => TimeIInv'
BY DEF timeVars, TimeIInv, TimeTypeOK, DeltaEncoding, DueOrder, ScanInv, WokenInv, WaitInv, Left, Asked

(***************************************************************************)
(* The call of mt_enqueue_time keeps the invariant.                        *)
(***************************************************************************)
LEMMA EnqueueTimeIInv ==
  ASSUME TimeIInv, NEW t \in Task, NEW m \in Msecs, EnqueueTime(t, m)
  PROVE  TimeIInv'
<1> USE DEF EnqueueTime
<1>1. MsecsToTicks(m) \in Nat /\ m \in Nat
  BY TicksType, TimeQueueAssumption
<1>2. woken = <<>> /\ ToSet(woken) = {}
  BY DEF TimeIInv, WokenInv, ToSet
<1>3. TimeTypeOK'
  BY <1>1 DEF TimeIInv, TimeTypeOK
<1>4. DeltaEncoding' /\ DueOrder'
  BY DEF TimeIInv, DeltaEncoding, DueOrder, Left
<1>5. ScanInv'
  <2>1. msecs'[t] = m /\ Asked(t)' = MsecsToTicks(m)
    BY DEF TimeIInv, TimeTypeOK, Asked
  <2>2. Len(time_q) \in Nat
    BY QueueFacts
  <2> QED BY <1>1, <2>1, <2>2 DEF ScanInv
<1>6. WokenInv'
  BY <1>2 DEF WokenInv
<1>7. WaitInv'
  <2> SUFFICES ASSUME NEW u \in ToSet(time_q)
               PROVE  asked[u] = Asked(u)' /\ msecs'[u] \in Msecs
    BY <1>2 DEF WaitInv
  <2>1. u # t /\ u \in Task
    BY QueueFacts DEF ToSet
  <2>2. msecs'[u] = msecs[u]
    BY <2>1 DEF TimeIInv, TimeTypeOK
  <2> QED BY <2>2 DEF TimeIInv, WaitInv, Asked
<1> QED BY <1>3, <1>4, <1>5, <1>6, <1>7 DEF TimeIInv

(***************************************************************************)
(* A comparison that goes on to the next task keeps the invariant.         *)
(***************************************************************************)
LEMMA ScanNextIInv == TimeIInv /\ ScanNext => TimeIInv'
<1> SUFFICES ASSUME TimeIInv, ScanNext PROVE TimeIInv'
  OBVIOUS
<1> USE DEF ScanNext
<1> DEFINE k == call.at
           u == time_q[k]
           t == call.task
<1>1. /\ k \in 1 .. Len(time_q) /\ call.ticks > ticks[u] /\ call.ticks \in Nat
      /\ u \in Task /\ t \in Task /\ ticks[u] \in Nat /\ k \in Nat \ {0}
  BY QueueFacts, SMTT(20) DEF Passes, TimeIInv, TimeTypeOK
<1>2. call' = [task |-> t, ticks |-> call.ticks - ticks[u], at |-> k + 1]
  BY DEF TimeIInv, TimeTypeOK
<1>3. call'.task = t /\ call'.at = k + 1 /\ call'.ticks = call.ticks - ticks[u]
  BY <1>2, Zenon
<1>4. TimeTypeOK'
  <2> HIDE DEF k, u, t
  <2>1. call.ticks - ticks[u] \in Nat /\ k + 1 \in Nat \ {0}
    BY <1>1
  <2>2. call' \in [task : Task, ticks : Nat, at : Nat \ {0}]
    BY <1>1, <1>2, <2>1
  <2> QED BY <2>2 DEF TimeIInv, TimeTypeOK
<1>5. DeltaEncoding' /\ DueOrder' /\ WokenInv' /\ WaitInv'
  BY DEF TimeIInv, DeltaEncoding, DueOrder, WokenInv, WaitInv, Left, Asked
<1>6. ScanInv'
  <2>1. ticks[u] = Left(u) - IF k = 1 THEN 0 ELSE Left(time_q[k - 1])
    <3>1. CASE k = 1
      BY <1>1, <3>1, QueueFacts DEF TimeIInv, DeltaEncoding
    <3>2. CASE k # 1
      <4>1. k - 1 \in 1 .. Len(time_q) - 1 /\ (k - 1) + 1 = k
        BY <1>1, <3>2, QueueFacts
      <4> QED BY <3>2, <4>1 DEF TimeIInv, DeltaEncoding
    <3> QED BY <3>1, <3>2
  <2>2. /\ call.ticks = Asked(t) - IF k = 1 THEN 0 ELSE Left(time_q[k - 1])
        /\ t \notin ToSet(time_q) /\ msecs[t] \in Msecs
        /\ \A j \in 1 .. k - 1 : Left(time_q[j]) < Asked(t)
    BY DEF TimeIInv, ScanInv
  <2>3. k # 1 => Left(time_q[k - 1]) \in Nat
    BY <1>1, QueueFacts
  <2>4. Left(u) \in Nat /\ Asked(t) \in Nat
    BY <1>1, QueueFacts
  <2> DEFINE before == IF k = 1 THEN 0 ELSE Left(time_q[k - 1])
  <2>5. before \in Nat
    BY <2>3
  <2> HIDE DEF before, k, u, t
  <2>6. call.ticks - ticks[u] = Asked(t) - Left(u) /\ Left(u) < Asked(t)
    BY <1>1, <2>1, <2>2, <2>4, <2>5 DEF before
  <2>7. \A j \in 1 .. k : Left(time_q[j]) < Asked(t)
    <3> SUFFICES ASSUME NEW j \in 1 .. k PROVE Left(time_q[j]) < Asked(t)
      OBVIOUS
    <3>1. j \in 1 .. k - 1 \/ j = k
      BY <1>1
    <3> QED BY <2>2, <2>6, <3>1 DEF u
  <2>8. k + 1 \in 1 .. Len(time_q) + 1 /\ k + 1 # 1 /\ (k + 1) - 1 = k
    BY <1>1, QueueFacts
  <2>9. ScanInv' <=>
           /\ k + 1 \in 1 .. Len(time_q) + 1
           /\ t \notin ToSet(time_q)
           /\ msecs[t] \in Msecs
           /\ \A j \in 1 .. (k + 1) - 1 : Left(time_q[j]) < Asked(t)
           /\ call.ticks - ticks[u] = Asked(t) - IF k + 1 = 1 THEN 0 ELSE Left(time_q[(k + 1) - 1])
    BY <1>3 DEF ScanInv, Left, Asked
  <2> QED BY <2>2, <2>6, <2>7, <2>8, <2>9 DEF u
<1> QED BY <1>4, <1>5, <1>6 DEF TimeIInv

(***************************************************************************)
(* The insertion of a wait keeps the invariant.                            *)
(***************************************************************************)
LEMMA LinkIInv == TimeIInv /\ Link => TimeIInv'
<1> SUFFICES ASSUME TimeIInv, Link PROVE TimeIInv'
  OBVIOUS
<1> DEFINE k == call.at
           t == call.task
           n == Asked(t)
           before == IF k = 1 THEN 0 ELSE Left(time_q[k - 1])
<1>1. /\ k \in 1 .. Len(time_q) + 1 /\ k \in Nat \ {0} /\ t \in Task /\ t \notin ToSet(time_q)
      /\ msecs[t] \in Msecs /\ n \in Nat /\ call.ticks \in Nat
      /\ \A j \in 1 .. k - 1 : Left(time_q[j]) < n
      /\ call.ticks = n - before
      /\ woken = <<>> /\ ToSet(woken) = {}
  BY QueueFacts DEF TimeIInv, TimeTypeOK, ScanInv, WokenInv, Link, ToSet
<1>2. k <= Len(time_q) => call.ticks <= ticks[time_q[k]]
  BY <1>1, QueueFacts DEF Link, Passes
<1>3. /\ time_q' \in Seq(Task)
      /\ Len(time_q') = Len(time_q) + 1 /\ DOMAIN time_q' = 1 .. Len(time_q) + 1
      /\ \A i \in 1 .. k - 1 : time_q'[i] = time_q[i]
      /\ time_q'[k] = t
      /\ \A i \in k .. Len(time_q) : time_q'[i + 1] = time_q[i]
      /\ ToSet(time_q') = ToSet(time_q) \cup {t}
      /\ NoRepetition(time_q')
  <2>1. time_q \in Seq(Task) /\ NoRepetition(time_q)
    BY DEF TimeIInv, TimeTypeOK, DueOrder
  <2>2. time_q' = InsertAt(time_q, k, t)
    BY DEF Link
  <2> HIDE DEF k, t
  <2> QED BY <1>1, <2>1, <2>2, InsertAtElements, InsertAtProperties, SMTT(20)
<1>4. /\ \A x \in Task : ticks'[x] = IF x = t THEN call.ticks
                                     ELSE IF k <= Len(time_q) /\ x = time_q[k] THEN ticks[x] - call.ticks
                                     ELSE ticks[x]
      /\ ticks' = [x \in Task |-> ticks'[x]]
      /\ asked' = [asked EXCEPT ![t] = n] /\ slept' = [slept EXCEPT ![t] = 0]
      /\ pc' = "idle" /\ call' = call /\ woken' = woken /\ msecs' = msecs
  BY DEF Link, Asked
\* what is left of each wait: n for t, and as before for the others
<1> DEFINE L == [x \in Task |-> asked[x] - slept[x]]
           LP == [x \in Task |-> asked'[x] - slept'[x]]
<1>5. LP[t] = n /\ \A x \in Task : x # t => LP[x] = L[x]
  BY <1>1, <1>4 DEF TimeIInv, TimeTypeOK
<1>6. /\ \A x \in Task : Left(x) = L[x] /\ asked'[x] - slept'[x] = LP[x]
      /\ DOMAIN L = Task /\ DOMAIN LP = Task
  BY DEF Left
<1>7. /\ \A i \in 1 .. Len(time_q) : time_q[i] \in Task /\ time_q[i] # t /\ L[time_q[i]] \in Nat
                                     /\ time_q[i] \in ToSet(time_q)
      /\ \A i, j \in 1 .. Len(time_q) : time_q[i] = time_q[j] => i = j
      /\ \A i, j \in 1 .. Len(time_q) : i < j => L[time_q[i]] <= L[time_q[j]]
      /\ Len(time_q) \in Nat
  BY <1>1, <1>6, QueueFacts
<1>8. /\ \A j \in 1 .. k - 1 : L[time_q[j]] < n
      /\ before = IF k = 1 THEN 0 ELSE L[time_q[k - 1]]
      /\ before \in Nat
  <2>1. \A j \in 1 .. k - 1 : j \in 1 .. Len(time_q)
    BY <1>1, <1>7
  <2>2. k # 1 => k - 1 \in 1 .. k - 1
    BY <1>1
  <2> HIDE DEF L, k
  <2> QED BY <1>1, <1>6, <1>7, <2>1, <2>2
<1>9. \A i \in 1 .. Len(time_q) :
        ticks[time_q[i]] = L[time_q[i]] - IF i = 1 THEN 0 ELSE L[time_q[i - 1]]
  <2> SUFFICES ASSUME NEW i \in 1 .. Len(time_q)
               PROVE  ticks[time_q[i]] = L[time_q[i]] - IF i = 1 THEN 0 ELSE L[time_q[i - 1]]
    OBVIOUS
  <2>1. CASE i = 1
    BY <1>6, <1>7, <2>1, QueueFacts DEF TimeIInv, DeltaEncoding
  <2>2. CASE i # 1
    <3>1. i - 1 \in 1 .. Len(time_q) - 1 /\ (i - 1) + 1 = i /\ i - 1 \in 1 .. Len(time_q)
      BY <1>7, <2>2
    <3>2. ticks[time_q[(i - 1) + 1]] = Left(time_q[(i - 1) + 1]) - Left(time_q[i - 1])
      BY <3>1 DEF TimeIInv, DeltaEncoding
    <3> HIDE DEF L
    <3> QED BY <1>6, <1>7, <2>2, <3>1, <3>2
  <2> QED BY <2>1, <2>2
<1>10. k <= Len(time_q) => n <= L[time_q[k]]
  <2> HIDE DEF L, LP, before, n, k
  <2> SUFFICES ASSUME k <= Len(time_q) PROVE n <= L[time_q[k]]
    OBVIOUS
  <2>1. k \in 1 .. Len(time_q)
    BY <1>1
  <2>2. ticks[time_q[k]] = L[time_q[k]] - before /\ L[time_q[k]] \in Nat
    BY <1>7, <1>8, <1>9, <2>1
  <2> QED BY <1>1, <1>2, <1>8, <2>2
<1> HIDE DEF L, LP, before, n, k, t
<1>11. TimeTypeOK'
  <2>1. \A x \in Task : ticks'[x] \in Nat
    <3> SUFFICES ASSUME NEW x \in Task PROVE ticks'[x] \in Nat
      OBVIOUS
    <3>1. ticks[x] \in Nat
      BY DEF TimeIInv, TimeTypeOK
    <3>2. CASE x # t /\ k <= Len(time_q) /\ x = time_q[k]
      BY <1>1, <1>2, <1>4, <3>1, <3>2
    <3> QED BY <1>1, <1>4, <3>1, <3>2
  <2> QED BY <1>1, <1>3, <1>4, <2>1 DEF TimeIInv, TimeTypeOK
<1>12. /\ \A i \in 1 .. k - 1 : LP[time_q'[i]] = L[time_q[i]]
       /\ LP[time_q'[k]] = n
       /\ \A i \in k .. Len(time_q) : LP[time_q'[i + 1]] = L[time_q[i]]
  <2>1. \A i \in 1 .. k - 1 : i \in 1 .. Len(time_q)
    BY <1>1, <1>7
  <2>2. \A i \in k .. Len(time_q) : i \in 1 .. Len(time_q)
    BY <1>1, <1>7
  <2> QED BY <1>3, <1>5, <1>7, <2>1, <2>2
<1>13. DueOrder'
  <2> SUFFICES ASSUME NEW i \in 1 .. Len(time_q) + 1, NEW j \in 1 .. Len(time_q) + 1, i < j
               PROVE  LP[time_q'[i]] <= LP[time_q'[j]]
    <3>1. \A i \in 1 .. Len(time_q) + 1 : time_q'[i] \in Task
      BY <1>3, ElementOfSeq
    <3> QED BY <1>3, <1>6, <3>1 DEF DueOrder, Left
  <2>1. \A m \in k .. Len(time_q) : n <= L[time_q[m]]
    <3> SUFFICES ASSUME NEW m \in k .. Len(time_q) PROVE n <= L[time_q[m]]
      OBVIOUS
    <3>1. k \in 1 .. Len(time_q) /\ m \in 1 .. Len(time_q) /\ (k < m \/ k = m) /\ k <= Len(time_q)
      BY <1>1, <1>7
    <3>2. L[time_q[k]] <= L[time_q[m]]
      BY <1>7, <3>1
    <3> QED BY <1>1, <1>7, <1>10, <3>1, <3>2
  <2>2. CASE j < k
    <3>1. i \in 1 .. k - 1 /\ j \in 1 .. k - 1 /\ i \in 1 .. Len(time_q) /\ j \in 1 .. Len(time_q)
      BY <1>1, <1>7, <2>2
    <3> QED BY <1>7, <1>12, <3>1
  <2>3. CASE j = k
    <3>1. i \in 1 .. k - 1 /\ i \in 1 .. Len(time_q)
      BY <1>1, <1>7, <2>3
    <3> QED BY <1>1, <1>7, <1>8, <1>12, <2>3, <3>1, SMTT(30)
  <2>4. CASE i < k /\ k < j
    <3>1. i \in 1 .. k - 1 /\ j - 1 \in k .. Len(time_q) /\ (j - 1) + 1 = j
          /\ i \in 1 .. Len(time_q) /\ j - 1 \in 1 .. Len(time_q) /\ i < j - 1
      BY <1>1, <1>7, <2>4
    <3>2. LP[time_q'[j]] = L[time_q[j - 1]]
      BY <1>12, <3>1
    <3> QED BY <1>7, <1>12, <3>1, <3>2
  <2>5. CASE i = k
    <3>1. j - 1 \in k .. Len(time_q) /\ (j - 1) + 1 = j
      BY <1>1, <1>7, <2>5
    <3>2. LP[time_q'[j]] = L[time_q[j - 1]]
      BY <1>12, <3>1
    <3> QED BY <1>12, <2>1, <2>5, <3>1, <3>2
  <2>6. CASE k < i
    <3>1. i - 1 \in k .. Len(time_q) /\ (i - 1) + 1 = i /\ i - 1 \in 1 .. Len(time_q)
          /\ j - 1 \in k .. Len(time_q) /\ (j - 1) + 1 = j /\ j - 1 \in 1 .. Len(time_q) /\ i - 1 < j - 1
      BY <1>1, <1>7, <2>6
    <3>2. LP[time_q'[j]] = L[time_q[j - 1]] /\ LP[time_q'[i]] = L[time_q[i - 1]]
      BY <1>12, <3>1
    <3> QED BY <1>7, <3>1, <3>2
  <2> QED BY <1>1, <2>2, <2>3, <2>4, <2>5, <2>6
<1>14. DeltaEncoding'
  <2> SUFFICES ASSUME NEW i \in 1 .. Len(time_q) + 1
               PROVE  ticks'[time_q'[i]] = LP[time_q'[i]] - IF i = 1 THEN 0 ELSE LP[time_q'[i - 1]]
    <3>1. \A m \in 1 .. Len(time_q) + 1 : time_q'[m] \in Task
      BY <1>3, ElementOfSeq
    <3>2. 1 \in 1 .. Len(time_q) + 1 /\ LP[time_q'[1]] \in Int
      <4>1. 1 \in 1 .. Len(time_q) + 1
        BY <1>7
      <4>2. time_q'[1] \in Task
        BY <3>1, <4>1
      <4>3. \A x \in Task : L[x] \in Int
        BY DEF L, TimeIInv, TimeTypeOK
      <4> QED BY <1>1, <1>5, <4>1, <4>2, <4>3
    <3>3. time_q' # <<>> => ticks'[time_q'[1]] = asked'[time_q'[1]] - slept'[time_q'[1]]
      BY <1>6, <3>1, <3>2
    <3>4. \A m \in 1 .. Len(time_q') - 1 :
            ticks'[time_q'[m + 1]]
              = (asked'[time_q'[m + 1]] - slept'[time_q'[m + 1]]) - (asked'[time_q'[m]] - slept'[time_q'[m]])
      <4> SUFFICES ASSUME NEW m \in 1 .. Len(time_q)
                   PROVE  ticks'[time_q'[m + 1]] = LP[time_q'[m + 1]] - LP[time_q'[m]]
        <5>1. Len(time_q') - 1 = Len(time_q)
          BY <1>3, <1>7
        <5>2. \A m \in 1 .. Len(time_q) : m \in 1 .. Len(time_q) + 1 /\ m + 1 \in 1 .. Len(time_q) + 1
          BY <1>7
        <5> QED BY <1>6, <3>1, <5>1, <5>2
      <4>1. m + 1 \in 1 .. Len(time_q) + 1 /\ m + 1 # 1 /\ (m + 1) - 1 = m
        BY <1>7
      <4> QED BY <4>1
    <3> QED BY <3>3, <3>4 DEF DeltaEncoding, Left
  <2>1. CASE i < k
    <3>1. i \in 1 .. k - 1 /\ i \in 1 .. Len(time_q) /\ (i # 1 => i - 1 \in 1 .. k - 1)
      BY <1>1, <1>7, <2>1
    <3>2. time_q[i] # t /\ time_q[i] \in Task /\ (k <= Len(time_q) => time_q[i] # time_q[k])
      BY <1>1, <1>7, <2>1, <3>1
    <3>3. ticks'[time_q'[i]] = ticks[time_q[i]]
      BY <1>3, <1>4, <3>1, <3>2
    <3> QED BY <1>9, <1>12, <3>1, <3>3
  <2>2. CASE i = k
    <3>1. ticks'[time_q'[i]] = n - before /\ LP[time_q'[i]] = n
      BY <1>1, <1>3, <1>4, <1>12, <2>2
    <3>2. i # 1 => LP[time_q'[i - 1]] = L[time_q[i - 1]]
      <4>1. i # 1 => i - 1 \in 1 .. k - 1
        BY <1>1, <2>2
      <4> QED BY <1>12, <4>1
    <3> QED BY <1>8, <2>2, <3>1, <3>2
  <2>3. CASE i = k + 1
    <3>1. k \in k .. Len(time_q) /\ k \in 1 .. Len(time_q) /\ i # 1 /\ i - 1 = k
      BY <1>1, <1>7, <2>3
    <3>2. time_q'[i] = time_q[k] /\ LP[time_q'[i]] = L[time_q[k]] /\ LP[time_q'[i - 1]] = n
      BY <1>3, <1>12, <2>3, <3>1
    <3>3. ticks'[time_q[k]] = ticks[time_q[k]] - call.ticks
      BY <1>4, <1>7, <3>1
    <3>4. ticks[time_q[k]] = L[time_q[k]] - before
      BY <1>8, <1>9, <3>1
    <3>5. L[time_q[k]] \in Nat
      BY <1>7, <3>1
    <3> QED BY <1>1, <1>8, <3>1, <3>2, <3>3, <3>4, <3>5
  <2>4. CASE i > k + 1
    <3>1. /\ i - 1 \in k .. Len(time_q) /\ (i - 1) + 1 = i /\ i - 1 \in 1 .. Len(time_q)
          /\ i - 2 \in k .. Len(time_q) /\ (i - 2) + 1 = i - 1 /\ i # 1 /\ i - 1 # 1
          /\ (i - 1) - 1 = i - 2 /\ k # i - 1 /\ (k <= Len(time_q) => k \in 1 .. Len(time_q))
      BY <1>1, <1>7, <2>4
    <3>2. /\ time_q'[i] = time_q[i - 1] /\ LP[time_q'[i]] = L[time_q[i - 1]]
          /\ LP[time_q'[i - 1]] = L[time_q[i - 2]]
      BY <1>3, <1>12, <3>1
    <3>3. ticks'[time_q[i - 1]] = ticks[time_q[i - 1]]
      BY <1>4, <1>7, <3>1
    <3>4. ticks[time_q[i - 1]] = L[time_q[i - 1]] - L[time_q[i - 2]]
      BY <1>9, <3>1
    <3> QED BY <3>1, <3>2, <3>3, <3>4
  <2> QED BY <1>1, <2>1, <2>2, <2>3, <2>4
<1>15. ScanInv' /\ WokenInv'
  BY <1>1, <1>4 DEF ScanInv, WokenInv
<1>16. WaitInv'
  <2> SUFFICES ASSUME NEW x \in ToSet(time_q) \cup {t}
               PROVE  asked'[x] = Asked(x) /\ msecs[x] \in Msecs
    BY <1>1, <1>3, <1>4 DEF WaitInv, Asked
  <2>1. CASE x = t
    BY <1>1, <1>4, <2>1 DEF TimeIInv, TimeTypeOK, n
  <2>2. CASE x # t
    BY <1>4, <2>2 DEF TimeIInv, TimeTypeOK, WaitInv
  <2> QED BY <2>1, <2>2
<1> QED BY <1>11, <1>13, <1>14, <1>15, <1>16 DEF TimeIInv

(***************************************************************************)
(* mt_dequeue_time keeps the invariant.                                    *)
(***************************************************************************)
LEMMA DequeueTimeIInv ==
  ASSUME TimeIInv, NEW t \in Task, DequeueTime(t)
  PROVE  TimeIInv'
<1>1. PICK pos \in 1 .. Len(time_q) :
        /\ time_q[pos] = t
        /\ time_q' = RemoveAt(time_q, pos)
        /\ ticks' = [u \in Task |->
             IF pos < Len(time_q) /\ u = time_q[pos + 1] THEN ticks[u] + ticks[t] ELSE ticks[u]]
  BY DEF DequeueTime
<1>2. /\ pc = "idle" /\ pc' = pc /\ call' = call /\ woken' = woken
      /\ msecs' = msecs /\ asked' = asked /\ slept' = slept
  BY DEF DequeueTime
<1>3. /\ time_q' \in Seq(Task)
      /\ Len(time_q') = Len(time_q) - 1 /\ DOMAIN time_q' = 1 .. Len(time_q) - 1
      /\ \A i \in 1 .. pos - 1 : time_q'[i] = time_q[i]
      /\ \A i \in pos .. Len(time_q) - 1 : time_q'[i] = time_q[i + 1]
      /\ ToSet(time_q') = ToSet(time_q) \ {t}
      /\ NoRepetition(time_q')
  <2>1. time_q \in Seq(Task) /\ NoRepetition(time_q)
    BY DEF TimeIInv, TimeTypeOK, DueOrder
  <2> DEFINE r == RemoveAt(time_q, pos)
  <2>2. /\ r \in Seq(Task)
        /\ Len(r) = Len(time_q) - 1 /\ DOMAIN r = 1 .. Len(time_q) - 1
        /\ \A i \in 1 .. pos - 1 : r[i] = time_q[i]
        /\ \A i \in pos .. Len(time_q) - 1 : r[i] = time_q[i + 1]
    BY <2>1, RemoveAtElements
  <2>3. ToSet(r) = ToSet(time_q) \ {t} /\ NoRepetition(r)
    BY <1>1, <2>1, RemoveAtProperties
  <2> HIDE DEF r
  <2>4. time_q' = r
    BY <1>1 DEF r
  <2> QED BY <2>2, <2>3, <2>4
<1> DEFINE from(i) == IF i < pos THEN i ELSE i + 1
           L == [x \in Task |-> asked[x] - slept[x]]
<1>4. /\ \A x \in Task : Left(x) = L[x]
      /\ \A x \in Task : L[x] \in Int
  BY DEF Left, TimeIInv, TimeTypeOK
<1>5. /\ \A i \in 1 .. Len(time_q) : time_q[i] \in Task /\ L[time_q[i]] \in Nat
                                     /\ time_q[i] \in ToSet(time_q)
      /\ \A i, j \in 1 .. Len(time_q) : time_q[i] = time_q[j] => i = j
      /\ \A i, j \in 1 .. Len(time_q) : i < j => L[time_q[i]] <= L[time_q[j]]
      /\ Len(time_q) \in Nat
      /\ \A x \in Task : ticks[x] \in Nat
  BY <1>4, QueueFacts
<1>6. \A i \in 1 .. Len(time_q) :
        ticks[time_q[i]] = L[time_q[i]] - IF i = 1 THEN 0 ELSE L[time_q[i - 1]]
  <2> SUFFICES ASSUME NEW i \in 1 .. Len(time_q)
               PROVE  ticks[time_q[i]] = L[time_q[i]] - IF i = 1 THEN 0 ELSE L[time_q[i - 1]]
    OBVIOUS
  <2>1. CASE i = 1
    BY <1>4, <1>5, <2>1, QueueFacts DEF TimeIInv, DeltaEncoding
  <2>2. CASE i # 1
    <3>1. i - 1 \in 1 .. Len(time_q) - 1 /\ (i - 1) + 1 = i /\ i - 1 \in 1 .. Len(time_q)
      BY <1>5, <2>2
    <3>2. ticks[time_q[(i - 1) + 1]] = Left(time_q[(i - 1) + 1]) - Left(time_q[i - 1])
      BY <3>1 DEF TimeIInv, DeltaEncoding
    <3> HIDE DEF L
    <3> QED BY <1>4, <1>5, <2>2, <3>1, <3>2
  <2> QED BY <2>1, <2>2
<1> HIDE DEF L
<1>7. /\ pos \in 1 .. Len(time_q)
      /\ \A i \in 1 .. Len(time_q) - 1 :
           from(i) \in 1 .. Len(time_q) /\ time_q'[i] = time_q[from(i)] /\ from(i) # pos
      /\ \A i, j \in 1 .. Len(time_q) - 1 : i < j => from(i) < from(j)
  BY <1>3, <1>5
<1>8. TimeTypeOK'
  <2>1. ticks[t] \in Nat
    BY <1>5
  <2>2. ticks' \in [Task -> Nat]
    BY <1>1, <1>5, <2>1
  <2> QED BY <1>2, <1>3, <2>2 DEF TimeIInv, TimeTypeOK
<1>9. DueOrder'
  <2> SUFFICES ASSUME NEW i \in 1 .. Len(time_q) - 1, NEW j \in 1 .. Len(time_q) - 1, i < j
               PROVE  L[time_q'[i]] <= L[time_q'[j]]
    <3> HIDE DEF from
    <3>1. \A i \in 1 .. Len(time_q) - 1 : time_q'[i] \in Task
      BY <1>5, <1>7
    <3>2. \A x \in Task : asked'[x] - slept'[x] = L[x]
      BY <1>2, <1>4 DEF Left
    <3>3. Len(time_q') = Len(time_q) - 1 /\ NoRepetition(time_q')
      BY <1>3
    <3>4. \A i, j \in 1 .. Len(time_q') :
            i < j => asked'[time_q'[i]] - slept'[time_q'[i]] <= asked'[time_q'[j]] - slept'[time_q'[j]]
      BY <3>1, <3>2, <3>3
    <3> QED BY <3>3, <3>4 DEF DueOrder, Left
  <2> HIDE DEF from
  <2>1. /\ from(i) \in 1 .. Len(time_q) /\ from(j) \in 1 .. Len(time_q) /\ from(i) < from(j)
        /\ time_q'[i] = time_q[from(i)] /\ time_q'[j] = time_q[from(j)]
    BY <1>7
  <2>2. L[time_q[from(i)]] <= L[time_q[from(j)]]
    BY <1>5, <2>1
  <2> QED BY <2>1, <2>2
<1>10. DeltaEncoding'
  <2>1. ASSUME NEW i \in 1 .. Len(time_q) - 1
        PROVE  ticks'[time_q'[i]] = L[time_q'[i]] - IF i = 1 THEN 0 ELSE L[time_q'[i - 1]]
    <3>1. CASE i < pos
      <4>1. /\ i \in 1 .. pos - 1 /\ i \in 1 .. Len(time_q) /\ (i # 1 => i - 1 \in 1 .. pos - 1)
            /\ (pos < Len(time_q) => pos + 1 \in 1 .. Len(time_q) /\ i # pos + 1)
        BY <1>5, <3>1
      <4>2. ticks'[time_q[i]] = ticks[time_q[i]]
        BY <1>1, <1>5, <4>1
      <4> QED BY <1>3, <1>6, <4>1, <4>2
    <3>2. CASE i = pos
      <4>1. /\ i \in pos .. Len(time_q) - 1 /\ pos < Len(time_q) /\ pos + 1 \in 1 .. Len(time_q)
            /\ pos + 1 # 1 /\ (pos + 1) - 1 = pos /\ (i # 1 => i - 1 \in 1 .. pos - 1)
        BY <1>5, <3>2
      <4>2. time_q'[i] = time_q[pos + 1] /\ (i # 1 => time_q'[i - 1] = time_q[pos - 1])
        BY <1>3, <3>2, <4>1
      <4>3. ticks'[time_q[pos + 1]] = ticks[time_q[pos + 1]] + ticks[time_q[pos]]
        BY <1>1, <1>5, <4>1
      <4>4. ticks[time_q[pos + 1]] = L[time_q[pos + 1]] - L[time_q[pos]]
        BY <1>6, <4>1
      <4>5. ticks[time_q[pos]] = L[time_q[pos]] - IF pos = 1 THEN 0 ELSE L[time_q[pos - 1]]
        BY <1>6
      <4>6. L[time_q[pos + 1]] \in Nat /\ L[time_q[pos]] \in Nat /\ (pos # 1 => L[time_q[pos - 1]] \in Nat)
        <5>1. pos # 1 => pos - 1 \in 1 .. Len(time_q)
          BY <1>5
        <5> QED BY <1>5, <4>1, <5>1
      <4> QED BY <3>2, <4>2, <4>3, <4>4, <4>5, <4>6
    <3>3. CASE i > pos
      <4>1. /\ i \in pos .. Len(time_q) - 1 /\ i - 1 \in pos .. Len(time_q) - 1 /\ i # 1
            /\ i + 1 \in 1 .. Len(time_q) /\ i + 1 # 1 /\ (i + 1) - 1 = i /\ (i - 1) + 1 = i
            /\ pos < Len(time_q) /\ pos + 1 \in 1 .. Len(time_q) /\ i + 1 # pos + 1
        BY <1>5, <3>3
      <4>2. time_q'[i] = time_q[i + 1] /\ time_q'[i - 1] = time_q[i]
        BY <1>3, <4>1
      <4>3. ticks'[time_q[i + 1]] = ticks[time_q[i + 1]]
        BY <1>1, <1>5, <4>1
      <4>4. ticks[time_q[i + 1]] = L[time_q[i + 1]] - L[time_q[i]]
        BY <1>6, <4>1
      <4> QED BY <4>1, <4>2, <4>3, <4>4
    <3> QED BY <3>1, <3>2, <3>3
  <2>2. \A i \in 1 .. Len(time_q) - 1 : time_q'[i] \in Task
    BY <1>5, <1>7
  <2>3. time_q' # <<>> => ticks'[time_q'[1]] = asked'[time_q'[1]] - slept'[time_q'[1]]
    <3> SUFFICES ASSUME time_q' # <<>> PROVE ticks'[time_q'[1]] = asked'[time_q'[1]] - slept'[time_q'[1]]
      OBVIOUS
    <3>1. 1 \in 1 .. Len(time_q) - 1
      BY <1>3, <1>5
    <3>2. L[time_q'[1]] = asked'[time_q'[1]] - slept'[time_q'[1]] /\ L[time_q'[1]] \in Int
      BY <1>2, <1>4, <2>2, <3>1 DEF Left
    <3> QED BY <2>1, <3>1, <3>2
  <2>4. \A m \in 1 .. Len(time_q') - 1 :
          ticks'[time_q'[m + 1]]
            = (asked'[time_q'[m + 1]] - slept'[time_q'[m + 1]]) - (asked'[time_q'[m]] - slept'[time_q'[m]])
    <3> SUFFICES ASSUME NEW m \in 1 .. Len(time_q') - 1
                 PROVE  ticks'[time_q'[m + 1]] = L[time_q'[m + 1]] - L[time_q'[m]]
      <4>1. \A m \in 1 .. Len(time_q') - 1 : m \in 1 .. Len(time_q) - 1 /\ m + 1 \in 1 .. Len(time_q) - 1
        BY <1>3, <1>5
      <4> QED BY <1>2, <1>4, <2>2, <4>1 DEF Left
    <3>1. m + 1 \in 1 .. Len(time_q) - 1 /\ m + 1 # 1 /\ (m + 1) - 1 = m
      BY <1>3, <1>5
    <3> QED BY <2>1, <3>1
  <2> QED BY <2>3, <2>4 DEF DeltaEncoding, Left
<1>11. ScanInv' /\ WokenInv' /\ WaitInv'
  BY <1>2, <1>3 DEF TimeIInv, ScanInv, WokenInv, WaitInv, Left, Asked
<1> QED BY <1>8, <1>9, <1>10, <1>11 DEF TimeIInv

(***************************************************************************)
(* The entry of clockint keeps the invariant.                              *)
(***************************************************************************)
LEMMA ClockIntIInv == TimeIInv /\ ClockInt => TimeIInv'
BY DEF ClockInt, TimeIInv, TimeTypeOK, DeltaEncoding, DueOrder, ScanInv, WokenInv, WaitInv, Left, Asked

(***************************************************************************)
(* A turn of the loop of clockint keeps the invariant.                     *)
(***************************************************************************)
LEMMA WakeHeadIInv == TimeIInv /\ WakeHead => TimeIInv'
<1> SUFFICES ASSUME TimeIInv, WakeHead PROVE TimeIInv'
  OBVIOUS
<1> DEFINE h == Head(time_q)
<1>1. /\ time_q # <<>> /\ ticks[h] = 0 /\ time_q' = Tail(time_q) /\ woken' = Append(woken, h)
      /\ ticks' = ticks /\ pc = "clock" /\ pc' = pc /\ call' = call
      /\ msecs' = msecs /\ asked' = asked /\ slept' = slept
  BY DEF WakeHead, HeadIsDue
<1>2. /\ h \in Task /\ h \in ToSet(time_q) /\ h = time_q[1] /\ 1 \in 1 .. Len(time_q)
      /\ time_q' \in Seq(Task) /\ Len(time_q') = Len(time_q) - 1
      /\ \A i \in 1 .. Len(time_q) - 1 : time_q'[i] = time_q[i + 1]
      /\ ToSet(time_q') = ToSet(time_q) \ {h}
      /\ NoRepetition(time_q')
      /\ DOMAIN time_q' = 1 .. Len(time_q) - 1
  <2>1. time_q \in Seq(Task) /\ NoRepetition(time_q)
    BY DEF TimeIInv, TimeTypeOK, DueOrder
  <2>2. /\ Tail(time_q) \in Seq(Task) /\ Len(Tail(time_q)) = Len(time_q) - 1
        /\ h \in Task /\ h \in ToSet(time_q) /\ h = time_q[1] /\ 1 \in DOMAIN time_q
        /\ \A i \in 1 .. Len(time_q) - 1 : Tail(time_q)[i] = time_q[i + 1]
        /\ ToSet(Tail(time_q)) = ToSet(time_q) \ {h}
        /\ NoRepetition(Tail(time_q))
    BY <1>1, <2>1, TailProperties
  <2>3. DOMAIN Tail(time_q) = 1 .. Len(time_q) - 1
    BY <2>2, LenProperties
  <2> QED BY <1>1, <2>1, <2>2, <2>3, LenProperties
<1>3. /\ woken' \in Seq(Task) /\ ToSet(woken') = ToSet(woken) \cup {h}
  <2>1. woken \in Seq(Task)
    BY DEF TimeIInv, TimeTypeOK
  <2>2. /\ Append(woken, h) \in Seq(Task) /\ Len(Append(woken, h)) = Len(woken) + 1
        /\ \A i \in 1 .. Len(woken) : Append(woken, h)[i] = woken[i]
        /\ Append(woken, h)[Len(woken) + 1] = h
    BY <1>2, <2>1, AppendProperties
  <2>3. DOMAIN Append(woken, h) = 1 .. Len(woken) + 1 /\ DOMAIN woken = 1 .. Len(woken) /\ Len(woken) \in Nat
    BY <2>1, <2>2, LenProperties
  <2> HIDE DEF h
  <2>4. \A i \in 1 .. Len(woken) + 1 : i \in 1 .. Len(woken) \/ i = Len(woken) + 1
    BY <2>3
  <2>5. \A i \in 1 .. Len(woken) : i \in 1 .. Len(woken) + 1
    BY <2>3
  <2>6. Len(woken) + 1 \in 1 .. Len(woken) + 1
    BY <2>3
  <2> QED BY <1>1, <2>2, <2>3, <2>4, <2>5, <2>6 DEF ToSet
<1> HIDE DEF h
<1>4. /\ Len(time_q) \in Nat
      /\ \A t \in Task : Left(t) \in Int
      /\ \A i \in 1 .. Len(time_q) : time_q[i] \in Task
      /\ Left(h) = 0
  <2>1. ticks[time_q[1]] = Left(time_q[1])
    BY <1>1 DEF TimeIInv, DeltaEncoding
  <2> QED BY <1>1, <1>2, <2>1, QueueFacts
<1>5. TimeTypeOK'
  BY <1>1, <1>2, <1>3 DEF TimeIInv, TimeTypeOK
<1>6. DueOrder'
  <2>1. \A i, j \in 1 .. Len(time_q) : i < j => Left(time_q[i]) <= Left(time_q[j])
    BY QueueFacts
  <2>2. \A i \in 1 .. Len(time_q) - 1 : i + 1 \in 1 .. Len(time_q)
    BY <1>4
  <2>3. \A i, j \in 1 .. Len(time_q) - 1 : i < j => i + 1 < j + 1
    OBVIOUS
  <2>4. \A i, j \in 1 .. Len(time_q) - 1 : i < j => Left(time_q[i + 1]) <= Left(time_q[j + 1])
    BY <2>1, <2>2, <2>3
  <2>5. \A i, j \in 1 .. Len(time_q) - 1 : i < j => Left(time_q'[i]) <= Left(time_q'[j])
    BY <1>2, <2>4
  <2>6. \A i, j \in 1 .. Len(time_q) - 1 : i < j =>
          asked[time_q'[i]] - slept[time_q'[i]] <= asked[time_q'[j]] - slept[time_q'[j]]
    BY <2>5 DEF Left
  <2> QED BY <1>1, <1>2, <2>6 DEF DueOrder, Left
<1>7. DeltaEncoding'
  <2>1. \A i \in 1 .. Len(time_q) - 1 :
          ticks[time_q[i + 1]] = Left(time_q[i + 1]) - Left(time_q[i])
    BY DEF TimeIInv, DeltaEncoding
  <2>2. time_q' # <<>> => ticks[time_q'[1]] = Left(time_q'[1])
    <3> SUFFICES ASSUME time_q' # <<>> PROVE ticks[time_q'[1]] = Left(time_q'[1])
      OBVIOUS
    <3>1. 1 \in 1 .. Len(time_q) - 1 /\ 2 \in 1 .. Len(time_q) /\ 1 + 1 = 2
      BY <1>2, <1>4
    <3>2. ticks[time_q[2]] = Left(time_q[2]) - Left(time_q[1]) /\ time_q'[1] = time_q[2]
      BY <1>2, <2>1, <3>1
    <3>3. Left(time_q[2]) \in Int /\ Left(time_q[1]) = 0
      BY <1>2, <1>4, <3>1
    <3> QED BY <3>2, <3>3
  <2>3. \A i \in 1 .. Len(time_q') - 1 :
          ticks[time_q'[i + 1]] = Left(time_q'[i + 1]) - Left(time_q'[i])
    <3> SUFFICES ASSUME NEW i \in 1 .. Len(time_q') - 1
                 PROVE  ticks[time_q'[i + 1]] = Left(time_q'[i + 1]) - Left(time_q'[i])
      OBVIOUS
    <3>1. i \in 1 .. Len(time_q) - 1 /\ i + 1 \in 1 .. Len(time_q) - 1
      BY <1>2, <1>4
    <3>2. time_q'[i] = time_q[i + 1] /\ time_q'[i + 1] = time_q[(i + 1) + 1]
      BY <1>2, <3>1
    <3>3. ticks[time_q[(i + 1) + 1]] = Left(time_q[(i + 1) + 1]) - Left(time_q[i + 1])
      BY <2>1, <3>1
    <3> QED BY <3>2, <3>3
  <2> QED BY <1>1, <2>2, <2>3 DEF DeltaEncoding, Left
<1>8. ScanInv'
  BY <1>1 DEF ScanInv
<1>9. WokenInv'
  BY <1>1, <1>2, <1>3, <1>4 DEF TimeIInv, WokenInv, Left
<1>10. WaitInv'
  BY <1>1, <1>2, <1>3 DEF TimeIInv, WaitInv, Asked
<1> QED BY <1>5, <1>6, <1>7, <1>8, <1>9, <1>10 DEF TimeIInv

(***************************************************************************)
(* The end of clockint keeps the invariant.                                *)
(***************************************************************************)
LEMMA ClockEndIInv == TimeIInv /\ ClockEnd => TimeIInv'
<1> SUFFICES ASSUME TimeIInv, ClockEnd PROVE TimeIInv'
  OBVIOUS
<1>1. /\ ~ (time_q # <<>> /\ ticks[Head(time_q)] = 0)
      /\ ticks' = IF time_q = <<>> THEN ticks ELSE [ticks EXCEPT ![Head(time_q)] = @ - 1]
      /\ slept' = [t \in Task |-> IF t \in ToSet(time_q) THEN slept[t] + 1 ELSE slept[t]]
      /\ pc' = "idle" /\ woken' = <<>> /\ ToSet(woken') = {}
      /\ time_q' = time_q /\ call' = call /\ msecs' = msecs /\ asked' = asked
  BY DEF ClockEnd, HeadIsDue, ToSet
<1>2. /\ Len(time_q) \in Nat /\ DOMAIN time_q = 1 .. Len(time_q)
      /\ \A i \in 1 .. Len(time_q) : time_q[i] \in Task /\ time_q[i] \in ToSet(time_q)
      /\ \A i, j \in 1 .. Len(time_q) : time_q[i] = time_q[j] => i = j
      /\ \A i, j \in 1 .. Len(time_q) : i < j => Left(time_q[i]) <= Left(time_q[j])
      /\ \A t \in Task : ticks[t] \in Nat
  BY QueueFacts
<1> DEFINE L == [x \in Task |-> asked[x] - slept[x]]
           LP == [x \in Task |-> asked'[x] - slept'[x]]
<1>3. /\ \A x \in Task : Left(x) = L[x] /\ L[x] \in Int /\ asked'[x] - slept'[x] = LP[x]
      /\ \A x \in ToSet(time_q) : x \in Task => LP[x] = L[x] - 1
  BY <1>1, SMTT(20) DEF Left, TimeIInv, TimeTypeOK
<1> HIDE DEF L, LP
<1>4. time_q # <<>> => /\ Head(time_q) = time_q[1] /\ 1 \in 1 .. Len(time_q)
                       /\ ticks[time_q[1]] \in Nat \ {0}
  BY <1>1, <1>2
<1>5. TimeTypeOK'
  <2>1. ticks' \in [Task -> Nat]
    BY <1>1, <1>2, <1>4, SMTT(20) DEF TimeIInv, TimeTypeOK
  <2>2. slept' \in [Task -> Nat]
    BY <1>1, SMTT(20) DEF TimeIInv, TimeTypeOK
  <2> QED BY <1>1, <2>1, <2>2, SMTT(20) DEF TimeIInv, TimeTypeOK
<1>6. DueOrder'
  <2>1. \A i, j \in 1 .. Len(time_q) : i < j => LP[time_q[i]] <= LP[time_q[j]]
    BY <1>2, <1>3
  <2>2. NoRepetition(time_q)
    BY DEF TimeIInv, DueOrder
  <2>3. \A i, j \in 1 .. Len(time_q) : i < j =>
          asked'[time_q[i]] - slept'[time_q[i]] <= asked'[time_q[j]] - slept'[time_q[j]]
    BY <1>2, <1>3, <2>1
  <2>4. DueOrder' <=>
          /\ NoRepetition(time_q)
          /\ \A i, j \in DOMAIN time_q : i < j =>
               asked'[time_q[i]] - slept'[time_q[i]] <= asked'[time_q[j]] - slept'[time_q[j]]
    BY <1>1 DEF DueOrder, Left
  <2> QED BY <1>2, <2>2, <2>3, <2>4
<1>7. DeltaEncoding'
  <2>1. time_q # <<>> => ticks'[time_q[1]] = LP[time_q[1]]
    <3> SUFFICES ASSUME time_q # <<>> PROVE ticks'[time_q[1]] = LP[time_q[1]]
      OBVIOUS
    <3>1. ticks[time_q[1]] = L[time_q[1]]
      BY <1>2, <1>3, <1>4 DEF TimeIInv, DeltaEncoding
    <3>2. ticks'[time_q[1]] = ticks[time_q[1]] - 1
      BY <1>1, <1>2, <1>4 DEF TimeIInv, TimeTypeOK
    <3>3. LP[time_q[1]] = L[time_q[1]] - 1
      BY <1>2, <1>3, <1>4
    <3> QED BY <3>1, <3>2, <3>3
  <2>2. \A i \in 1 .. Len(time_q) - 1 : ticks'[time_q[i + 1]] = LP[time_q[i + 1]] - LP[time_q[i]]
    <3> SUFFICES ASSUME NEW i \in 1 .. Len(time_q) - 1
                 PROVE  ticks'[time_q[i + 1]] = LP[time_q[i + 1]] - LP[time_q[i]]
      OBVIOUS
    <3>1. i \in 1 .. Len(time_q) /\ i + 1 \in 1 .. Len(time_q) /\ i + 1 # 1 /\ 1 \in 1 .. Len(time_q) /\ time_q # <<>>
      BY <1>2
    <3>2. ticks[time_q[i + 1]] = L[time_q[i + 1]] - L[time_q[i]]
      BY <1>2, <1>3, <3>1 DEF TimeIInv, DeltaEncoding
    <3>3. ticks'[time_q[i + 1]] = ticks[time_q[i + 1]]
      BY <1>1, <1>2, <1>4, <3>1
    <3>4. LP[time_q[i + 1]] = L[time_q[i + 1]] - 1 /\ LP[time_q[i]] = L[time_q[i]] - 1
          /\ L[time_q[i + 1]] \in Int /\ L[time_q[i]] \in Int
      BY <1>2, <1>3, <3>1
    <3> QED BY <3>2, <3>3, <3>4
  <2>3. \A i \in 1 .. Len(time_q) : LP[time_q[i]] = asked'[time_q[i]] - slept'[time_q[i]]
    BY <1>2, <1>3
  <2>4. time_q # <<>> => ticks'[time_q[1]] = asked'[time_q[1]] - slept'[time_q[1]]
    BY <1>4, <2>1, <2>3
  <2>5. \A i \in 1 .. Len(time_q) - 1 :
          ticks'[time_q[i + 1]]
            = (asked'[time_q[i + 1]] - slept'[time_q[i + 1]]) - (asked'[time_q[i]] - slept'[time_q[i]])
    <3>1. \A i \in 1 .. Len(time_q) - 1 : i \in 1 .. Len(time_q) /\ i + 1 \in 1 .. Len(time_q)
      BY <1>2
    <3> QED BY <2>2, <2>3, <3>1
  <2> QED BY <1>1, <2>4, <2>5 DEF DeltaEncoding, Left
<1>8. ScanInv' /\ WokenInv'
  BY <1>1 DEF ScanInv, WokenInv
<1>9. WaitInv'
  BY <1>1 DEF TimeIInv, WaitInv, Asked
<1> QED BY <1>5, <1>6, <1>7, <1>8, <1>9 DEF TimeIInv

(***************************************************************************)
(* The invariant is inductive.                                             *)
(***************************************************************************)
LEMMA NextTimeIInv == TimeIInv /\ [TimeNext]_timeVars => TimeIInv'
<1> SUFFICES ASSUME TimeIInv, [TimeNext]_timeVars PROVE TimeIInv'
  OBVIOUS
<1>1. ASSUME NEW t \in Task, NEW m \in Msecs, EnqueueTime(t, m) PROVE TimeIInv'
  BY <1>1, EnqueueTimeIInv
<1>2. CASE ScanNext
  BY <1>2, ScanNextIInv
<1>3. CASE Link
  BY <1>3, LinkIInv
<1>4. ASSUME NEW t \in Task, DequeueTime(t) PROVE TimeIInv'
  BY <1>4, DequeueTimeIInv
<1>5. CASE ClockInt
  BY <1>5, ClockIntIInv
<1>6. CASE WakeHead
  BY <1>6, WakeHeadIInv
<1>7. CASE ClockEnd
  BY <1>7, ClockEndIInv
<1>8. CASE UNCHANGED timeVars
  BY <1>8, StutterTimeIInv
<1> QED BY <1>1, <1>2, <1>3, <1>4, <1>5, <1>6, <1>7, <1>8 DEF TimeNext

-----------------------------------------------------------------------------
(* The theorems. *)

(***************************************************************************)
(* The inductive invariant holds in every reachable state.                 *)
(***************************************************************************)
THEOREM TimeIInvHolds == TimeSpec => []TimeIInv
BY InitTimeIInv, NextTimeIInv, PTL DEF TimeSpec

(***************************************************************************)
(* Every field of the queue keeps its type; in particular no differential  *)
(* count (an unsigned in queue.c) is ever decremented below zero, neither  *)
(* by mt_enqueue_time nor by clockint.                                     *)
(***************************************************************************)
THEOREM TimeTypeCorrect == TimeSpec => []TimeTypeOK
BY TimeIInvHolds, PTL DEF TimeIInv

(***************************************************************************)
(* The counts encode what is left of each wait, and the queue stands in    *)
(* the order in which the waits end.                                       *)
(***************************************************************************)
THEOREM DeltaCorrect == TimeSpec => [](DeltaEncoding /\ DueOrder)
BY TimeIInvHolds, PTL DEF TimeIInv

(***************************************************************************)
(* For waits whose rounding does not overflow an unsigned, no task is      *)
(* woken by the clock before the milliseconds it asked for have passed.    *)
(***************************************************************************)
THEOREM NeverEarlyHolds ==
  ASSUME \A m \in Msecs : m + MSPERTICK - 1 < Word
  PROVE  TimeSpec => []NeverEarly
<1>1. ASSUME NEW m \in Msecs PROVE MsecsToTicks(m) * MSPERTICK >= m
  <2> DEFINE s == m + MSPERTICK - 1
  <2>1. /\ m \in Nat \ {0} /\ Word \in Nat \ {0} /\ MSPERTICK \in Nat \ {0} /\ s \in Nat /\ s < Word
    BY TimeQueueAssumption
  <2>2. s % Word = s
    <3> HIDE DEF s
    <3> QED BY <2>1
  <2> DEFINE d == s \div MSPERTICK
             r == s % MSPERTICK
  <2>3. s = d * MSPERTICK + r /\ r \in 0 .. MSPERTICK - 1 /\ d \in Nat
    <3> HIDE DEF s
    <3> QED BY <2>1
  <2>4. MsecsToTicks(m) = d
    BY <2>2 DEF MsecsToTicks
  <2> DEFINE dm == d * MSPERTICK
  <2>5. dm \in Int
    <3> HIDE DEF d
    <3> QED BY <2>1, <2>3
  <2> HIDE DEF d, r
  <2>6. dm + r = m + MSPERTICK - 1
    BY <2>3
  <2> HIDE DEF dm
  <2>7. dm >= m
    BY <2>1, <2>3, <2>5, <2>6
  <2> QED BY <2>4, <2>7 DEF dm
<1>2. TimeIInv => NeverEarly
  <2> SUFFICES ASSUME TimeIInv, NEW i \in DOMAIN woken
               PROVE  slept[woken[i]] * MSPERTICK >= msecs[woken[i]]
    BY DEF NeverEarly
  <2> DEFINE t == woken[i]
  <2>1. t \in ToSet(woken) /\ t \in Task
    BY DEF ToSet, TimeIInv, TimeTypeOK
  <2>2. asked[t] - slept[t] = 0 /\ asked[t] = MsecsToTicks(msecs[t]) /\ msecs[t] \in Msecs
    BY <2>1 DEF TimeIInv, WokenInv, WaitInv, Left, Asked
  <2>3. slept[t] = MsecsToTicks(msecs[t])
    BY <2>1, <2>2 DEF TimeIInv, TimeTypeOK
  <2> QED BY <1>1, <2>2, <2>3
<1> QED BY <1>2, TimeIInvHolds, PTL

(***************************************************************************)
(* Every step of the queue of differences is a step of the timers, or      *)
(* leaves them as they are: linking a task in starts its timer at the      *)
(* place a search by absolute times would find, and a whole clock          *)
(* interrupt, loop and decrement, is one tick.                             *)
(***************************************************************************)
LEMMA StepRefinement ==
  ASSUME TimeIInv, [TimeNext]_timeVars
  PROVE  [Promise!Next]_(Promise!timersVars)
<1> USE DEF Promise!timersVars
<1>1. /\ time_q \in Seq(Task) /\ woken \in Seq(Task) /\ NoRepetition(time_q)
      /\ Len(time_q) \in Nat /\ Len(woken) \in Nat
      /\ DOMAIN time_q = 1 .. Len(time_q) /\ DOMAIN woken = 1 .. Len(woken)
  BY LenProperties DEF TimeIInv, TimeTypeOK, DueOrder
<1>2. ASSUME NEW t \in Task, NEW m \in Msecs, EnqueueTime(t, m)
      PROVE  UNCHANGED Promise!timersVars
  BY <1>2 DEF EnqueueTime
<1>3. CASE ScanNext
  BY <1>3 DEF ScanNext
<1>4. CASE Link
  <2> DEFINE k == call.at
             t == call.task
             n == Asked(t)
  <2>1. /\ k \in 1 .. Len(time_q) + 1 /\ t \in Task /\ t \notin ToSet(time_q)
        /\ n \in Waits /\ n \in Nat
        /\ woken = <<>>
        /\ \A j \in 1 .. k - 1 : Left(time_q[j]) < n
        /\ call.ticks = n - IF k = 1 THEN 0 ELSE Left(time_q[k - 1])
    BY <1>4, QueueFacts DEF TimeIInv, TimeTypeOK, ScanInv, WokenInv, Link, Waits, Asked
  <2>2. k <= Len(time_q) => n <= Left(time_q[k])
    <3> SUFFICES ASSUME k <= Len(time_q) PROVE n <= Left(time_q[k])
      OBVIOUS
    <3>1. k \in 1 .. Len(time_q)
      BY <1>1, <2>1
    <3>2. call.ticks <= ticks[time_q[k]] /\ call.ticks \in Nat
      <4>1. ~ (call.ticks > ticks[time_q[k]])
        BY <1>4, <3>1, <1>1 DEF Link, Passes
      <4>2. call.ticks \in Nat
        BY DEF TimeIInv, TimeTypeOK
      <4>3. ticks[time_q[k]] \in Nat
        BY <3>1, QueueFacts
      <4> HIDE DEF k
      <4> QED BY <4>1, <4>2, <4>3
    <3>3. ticks[time_q[k]] = Left(time_q[k]) - IF k = 1 THEN 0 ELSE Left(time_q[k - 1])
      <4>1. CASE k = 1
        BY <3>1, <4>1, QueueFacts DEF TimeIInv, DeltaEncoding
      <4>2. CASE k # 1
        <5>1. k - 1 \in 1 .. Len(time_q) - 1 /\ (k - 1) + 1 = k
          BY <1>1, <3>1, <4>2
        <5> QED BY <4>2, <5>1 DEF TimeIInv, DeltaEncoding
      <4> QED BY <4>1, <4>2
    <3> DEFINE before == IF k = 1 THEN 0 ELSE Left(time_q[k - 1])
    <3>4. before \in Nat /\ Left(time_q[k]) \in Nat
      <4>1. k # 1 => k - 1 \in 1 .. Len(time_q)
        BY <1>1, <3>1
      <4> QED BY <3>1, <4>1, QueueFacts
    <3>5. ticks[time_q[k]] \in Nat
      BY <3>1, QueueFacts
    <3> HIDE DEF before, k, t, n
    <3> QED BY <2>1, <3>2, <3>3, <3>4, <3>5 DEF before
  <2>3. /\ time_q' = InsertAt(time_q, k, t)
        /\ asked' = [asked EXCEPT ![t] = n] /\ slept' = [slept EXCEPT ![t] = 0]
        /\ woken' = woken
    BY <1>4 DEF Link, Asked
  <2> HIDE DEF k, t, n
  <2>4. woken \o time_q = time_q /\ woken' \o time_q' = time_q'
    <3>1. time_q' \in Seq(Task)
      BY <1>1, <2>1, <2>3, InsertAtElements
    <3> QED BY <1>1, <2>1, <2>3, <3>1, ConcatEmptySeq
  <2>5. Promise!Start(t, n)
    BY <2>1, <2>2, <2>3, <2>4 DEF Promise!Start, Promise!Left, Left, Promise!ToSet, ToSet, Promise!InsertAt, InsertAt
  <2> QED BY <2>1, <2>5 DEF Promise!Next
<1>5. ASSUME NEW t \in Task, DequeueTime(t) PROVE Promise!Next
  <2>1. woken = <<>> /\ woken' = <<>> /\ asked' = asked /\ slept' = slept
    BY <1>5 DEF DequeueTime, TimeIInv, WokenInv
  <2>2. PICK pos \in 1 .. Len(time_q) : time_q[pos] = t /\ time_q' = RemoveAt(time_q, pos)
    BY <1>5 DEF DequeueTime
  <2>3. time_q' \in Seq(Task)
    BY <1>1, <2>2, RemoveAtElements
  <2>4. woken \o time_q = time_q /\ woken' \o time_q' = time_q'
    BY <1>1, <2>1, <2>3, ConcatEmptySeq
  <2>5. Promise!Stop(t)
    BY <2>1, <2>2, <2>4 DEF Promise!Stop, Promise!RemoveAt, RemoveAt
  <2> QED BY <2>5 DEF Promise!Next
<1>6. CASE ClockInt
  BY <1>6 DEF ClockInt
<1>7. CASE WakeHead
  <2> DEFINE h == Head(time_q)
             q == Tail(time_q)
  <2>1. time_q # <<>> /\ woken' = Append(woken, h) /\ time_q' = q /\ asked' = asked /\ slept' = slept
    BY <1>7 DEF WakeHead, HeadIsDue
  <2>2. h \in Task /\ q \in Seq(Task) /\ Len(q) = Len(time_q) - 1 /\ h = time_q[1]
        /\ \A i \in 1 .. Len(time_q) - 1 : q[i] = time_q[i + 1]
    BY <1>1, <2>1, TailProperties
  <2> DEFINE w == Append(woken, h)
             old == woken \o time_q
             new == w \o q
  <2>3. /\ w \in Seq(Task) /\ Len(w) = Len(woken) + 1
        /\ \A i \in 1 .. Len(woken) : w[i] = woken[i]
        /\ w[Len(woken) + 1] = h
    BY <1>1, <2>2, AppendProperties
  <2> HIDE DEF h, q, w
  <2>4. /\ old \in Seq(Task) /\ Len(old) = Len(woken) + Len(time_q)
        /\ \A i \in 1 .. Len(woken) + Len(time_q) :
             old[i] = IF i <= Len(woken) THEN woken[i] ELSE time_q[i - Len(woken)]
    BY <1>1, ConcatProperties
  <2>5. /\ new \in Seq(Task) /\ Len(new) = Len(w) + Len(q)
        /\ \A i \in 1 .. Len(w) + Len(q) : new[i] = IF i <= Len(w) THEN w[i] ELSE q[i - Len(w)]
    BY <2>2, <2>3, ConcatProperties
  <2> HIDE DEF old, new
  <2>6. Len(old) = Len(new)
    BY <1>1, <2>2, <2>3, <2>4, <2>5
  <2>7. \A i \in 1 .. Len(old) : old[i] = new[i]
    <3> SUFFICES ASSUME NEW i \in 1 .. Len(woken) + Len(time_q) PROVE old[i] = new[i]
      BY <2>4
    <3>0. i \in 1 .. Len(w) + Len(q)
      BY <1>1, <2>2, <2>3
    <3>1. CASE i <= Len(woken)
      <4>1. i \in 1 .. Len(woken) /\ i <= Len(w)
        BY <1>1, <2>3, <3>1
      <4> QED BY <2>3, <2>4, <2>5, <3>0, <3>1, <4>1
    <3>2. CASE i = Len(woken) + 1
      <4>1. i - Len(woken) = 1 /\ ~ (i <= Len(woken)) /\ i <= Len(w)
        BY <1>1, <2>3, <3>2
      <4>2. old[i] = h /\ new[i] = w[i]
        BY <2>2, <2>4, <2>5, <3>0, <4>1
      <4> QED BY <2>3, <3>2, <4>2
    <3>3. CASE i > Len(woken) + 1
      <4>1. /\ ~ (i <= Len(woken)) /\ ~ (i <= Len(w)) /\ i - Len(w) \in 1 .. Len(time_q) - 1
            /\ (i - Len(w)) + 1 = i - Len(woken)
        BY <1>1, <2>3, <3>3
      <4>2. q[i - Len(w)] = time_q[(i - Len(w)) + 1]
        BY <2>2, <4>1
      <4> QED BY <2>4, <2>5, <3>0, <4>1, <4>2
    <3> QED BY <1>1, <3>1, <3>2, <3>3
  <2>8. old = new
    BY <2>4, <2>5, <2>6, <2>7, SeqEqual
  <2> QED BY <2>1, <2>8 DEF old, new, w, q
<1>8. CASE ClockEnd
  <2> DEFINE n == Len(woken)
             all == woken \o time_q
  <2>1. /\ ~ (time_q # <<>> /\ ticks[Head(time_q)] = 0)
        /\ slept' = [t \in Task |-> IF t \in ToSet(time_q) THEN slept[t] + 1 ELSE slept[t]]
        /\ woken' = <<>> /\ time_q' = time_q /\ asked' = asked
    BY <1>8 DEF ClockEnd, HeadIsDue
  <2>2. /\ all \in Seq(Task) /\ Len(all) = n + Len(time_q)
        /\ \A i \in 1 .. n + Len(time_q) : all[i] = IF i <= n THEN woken[i] ELSE time_q[i - n]
    BY <1>1, ConcatProperties
  <2> HIDE DEF n, all
  <2>3. n \in Nat /\ n \in 0 .. Len(all) /\ DOMAIN woken = 1 .. n
    BY <1>1, <2>2 DEF n
  <2>4. \A i \in 1 .. n : Left(all[i]) = 0
    <3> SUFFICES ASSUME NEW i \in 1 .. n PROVE Left(all[i]) = 0
      OBVIOUS
    <3>1. all[i] = woken[i] /\ woken[i] \in ToSet(woken)
      BY <1>1, <2>2, <2>3 DEF ToSet
    <3> QED BY <3>1 DEF TimeIInv, WokenInv
  <2>5. \A i \in n + 1 .. Len(all) : Left(all[i]) > 0
    <3> SUFFICES ASSUME NEW i \in n + 1 .. Len(all) PROVE Left(all[i]) > 0
      OBVIOUS
    <3> DEFINE j == i - n
    <3>1. /\ j \in 1 .. Len(time_q) /\ all[i] = time_q[j] /\ 1 \in 1 .. Len(time_q) /\ time_q # <<>>
          /\ (1 < j \/ j = 1)
      BY <1>1, <2>2, <2>3
    <3> HIDE DEF j
    <3>2. ticks[time_q[1]] = Left(time_q[1]) /\ ticks[time_q[1]] # 0
      BY <2>1, <3>1 DEF TimeIInv, DeltaEncoding
    <3>3. Left(time_q[1]) \in Nat /\ Left(time_q[j]) \in Nat /\ (1 < j => Left(time_q[1]) <= Left(time_q[j]))
      BY <3>1, QueueFacts
    <3> QED BY <3>1, <3>2, <3>3
  <2>6. SubSeq(all, n + 1, Len(all)) = time_q
    <3> DEFINE s == SubSeq(all, n + 1, Len(all))
    <3>1. \A i \in n + 1 .. Len(all) : all[i] \in Task
      BY <2>2, <2>3, ElementOfSeq, <1>1
    <3>2. /\ s \in Seq(Task)
          /\ Len(s) = IF n + 1 <= Len(all) THEN Len(all) - (n + 1) + 1 ELSE 0
          /\ \A i \in 1 .. Len(all) - (n + 1) + 1 : s[i] = all[(n + 1) + i - 1]
      BY <1>1, <2>2, <2>3, <3>1, SubSeqProperties
    <3> HIDE DEF s
    <3>3. Len(s) = Len(time_q)
      BY <1>1, <2>2, <2>3, <3>2
    <3>4. \A i \in 1 .. Len(s) : s[i] = time_q[i]
      <4> SUFFICES ASSUME NEW i \in 1 .. Len(time_q) PROVE s[i] = time_q[i]
        BY <3>3
      <4>1. /\ i \in 1 .. Len(all) - (n + 1) + 1 /\ (n + 1) + i - 1 = n + i
            /\ n + i \in 1 .. n + Len(time_q) /\ ~ (n + i <= n) /\ (n + i) - n = i
        BY <1>1, <2>2, <2>3
      <4> QED BY <2>2, <3>2, <4>1
    <3> QED BY <1>1, <3>2, <3>3, <3>4, SeqEqual DEF s
  <2>7. woken' \o time_q' = time_q
    BY <1>1, <2>1, ConcatEmptySeq
  <2>8. Promise!Tick
    <3>1. Promise!Tick <=>
            \E m \in 0 .. Len(all) :
              /\ \A i \in 1 .. m : Left(all[i]) = 0
              /\ \A i \in m + 1 .. Len(all) : Left(all[i]) > 0
              /\ woken' \o time_q' = SubSeq(all, m + 1, Len(all))
              /\ slept' = [t \in Task |-> IF t \in ToSet(woken' \o time_q') THEN slept[t] + 1 ELSE slept[t]]
              /\ asked' = asked
      BY DEF Promise!Tick, Promise!Left, Left, Promise!ToSet, ToSet, all
    <3> QED BY <2>1, <2>3, <2>4, <2>5, <2>6, <2>7, <3>1
  <2> QED BY <2>8 DEF Promise!Next
<1>9. CASE UNCHANGED timeVars
  BY <1>9 DEF timeVars
<1> QED BY <1>2, <1>3, <1>4, <1>5, <1>6, <1>7, <1>8, <1>9 DEF TimeNext

(***************************************************************************)
(* The queue of differences implements the timers.                         *)
(***************************************************************************)
THEOREM TimersImplemented == TimeSpec => ImplementsTimers
<1>1. TimeInit => Promise!Init
  BY ConcatEmptySeq, EmptySeq DEF TimeInit, Promise!Init
<1>2. TimeIInv /\ [TimeNext]_timeVars => [Promise!Next]_(Promise!timersVars)
  BY StepRefinement
<1> QED BY <1>1, <1>2, TimeIInvHolds, PTL DEF TimeSpec, ImplementsTimers, Promise!Spec

-----------------------------------------------------------------------------
(* The file system. *)

\* The log with the blocks b of the buffer at f.
Filled(f, b, l) ==
  [a \in Slot |-> IF b # <<>> /\ f <= a /\ a < f + Len(b) THEN b[a - f + 1] ELSE l[a]]

\* The file system with a checkpoint of these parts.
Run(m, e, f, b, l) ==
  [cp |-> [map |-> m, lend |-> e, lfst |-> f], buffer |-> b, log |-> l]

\* The log ends where the blocks of the buffer do.
Ends(f, b, e) == f + Len(b) = e

IsFilled(v, f, b, l) == v = Filled(f, b, l)

\* The buffer with the three blocks of a file.
WithFile(b, d, n, i) == Append(Append(Append(b, d), n), i)

\* The log w is the log v with three blocks from e on.
FileAt(w, v, e, d, n, i) ==
  /\ w \in [Slot -> Block]
  /\ w[e] = d /\ w[e + 1] = n /\ w[e + 2] = i
  /\ \A a \in Slot : a \notin {e, e + 1, e + 2} => w[a] = v[a]

\* The log w is the log v with two files from e on.
Made(w, v, e, d, n, i, d2, n2, i2) ==
  \E w1 : FileAt(w1, v, e, d, n, i) /\ FileAt(w, w1, e + 3, d2, n2, i2)

View == Filled(cp.lfst, buffer, log)

\* A block is never found away from where it was staged.
InPlace(b, a) ==
  /\ b \in Block /\ b.type # "junk"
  /\ b.type = "inode" => b.idata = a - 1
  /\ b.type = "imap" => b = Zero \/ b.inode = a - 1

Placed(v) == v \in [Slot -> Block] /\ \A a \in Slot : InPlace(v[a], a)

\* Three blocks in a row, of which the entry has the last one.
Chain(v, n, m) ==
  /\ m \in 2 .. LogSize - 1
  /\ v[m] = Imap(n, m - 1)
  /\ \/ v[m - 1] = Inode(n, "dir", m - 2) /\ v[m - 2].type = "ddata"
     \/ v[m - 1] = Inode(n, "file", m - 2) /\ v[m - 2].type = "fdata"

\* The data of the chain that ends at m.
DataAt(v, m, data) == v[m - 2] = data

CpEnds(c, e) == c.lend = e

Named(map) ==
  /\ \A i \in DOMAIN map : map[i].name \in Names /\ map[i].inoden \in 0 .. MaxInoden
  /\ \A i, j \in DOMAIN map : i # j =>
       map[i].name # map[j].name /\ map[i].inoden # map[j].inoden

Chained(v, map, end) ==
  \A i \in Live(map) : Chain(v, map[i].inoden, map[i].map) /\ map[i].map < end

Closed(map) ==
  \A i \in Live(map) : map[i].name = Root \/
    \E j \in Live(map) : map[j].name = Parent[map[i].name]

\* A listing has the name, or is full.
Lists(data, name) == data.type = "ddata" /\ (name \in data.names \/ data.room = 0)

Listed(v, map) ==
  \A i, j \in Live(map) :
    map[i].name # Root /\ map[j].name = Parent[map[i].name] =>
      Lists(v[map[j].map - 2], map[i].name)

\* Every name but this one.
ListedBut(v, map, name) ==
  \A i, j \in Live(map) :
    map[i].name # name /\ map[i].name # Root /\ map[j].name = Parent[map[i].name] =>
      Lists(v[map[j].map - 2], map[i].name)

\* Two logs that agree below an end.
Agree(w, v, end) == \A a \in Slot : a < end => w[a] = v[a]

\* A name and a number that no entry has.
Fresh(map, name, n) == \A i \in DOMAIN map : map[i].name # name /\ map[i].inoden < n

\* The checkpoint c leads to a tree in the log v.
Good(v, c) ==
  /\ c \in Checkpoint
  /\ Named(c.map) /\ Chained(v, c.map, c.lend) /\ Closed(c.map) /\ Listed(v, c.map)

\* The map with the entry.
Added(new, map, entry) == new = AddCrEntry(map, entry)

\* It is at k, which was free.
AddedAt(new, map, k, entry) ==
  /\ k \in DOMAIN new /\ new[k] = entry
  /\ k \in DOMAIN map => map[k].map = Null
  /\ DOMAIN map \subseteq DOMAIN new
  /\ \A i \in DOMAIN new : i # k => i \in DOMAIN map /\ new[i] = map[i]

\* The chain of the entry par of c is moved to end at m, which makes d.
Moves(v, c, par, m, w, d) ==
  /\ c \in Checkpoint /\ d \in Checkpoint
  /\ Named(c.map) /\ Chained(v, c.map, c.lend) /\ Closed(c.map)
  /\ par \in Live(c.map) /\ m \in Nat
  /\ Agree(w, v, c.lend) /\ Chain(w, c.map[par].inoden, m)
  /\ c.lend <= d.lend /\ m < d.lend
  /\ d.map = SetCrMap(c.map, c.map[par].inoden, m)

\* What the data of a file is to the store.
Held(data) ==
  CASE data.type = "fdata" -> data.text [] data.type = "ddata" -> Dir [] OTHER -> Lost

\* The tree that a checkpoint leads to in the log v.
Leads(v, c) == {<<c.map[i].name, Held(v[c.map[i].map - 2])>> : i \in Live(c.map)}

\* A file whose chain was put at the end of c joins it at k, which makes d.
Joins(v, c, name, n, par, w, d, k) ==
  /\ Good(v, c) /\ d \in Checkpoint
  /\ name \in Names \ {Root} /\ n \in 0 .. MaxInoden /\ Fresh(c.map, name, n)
  /\ par \in Live(c.map) /\ c.map[par].name = Parent[name]
  /\ c.lend + 3 < LogSize /\ d.lend = c.lend + 3
  /\ Agree(w, v, c.lend) /\ Chain(w, n, c.lend + 2)
  /\ AddedAt(d.map, c.map, k, [name |-> name, inoden |-> n, map |-> c.lend + 2])

\* What a file of this type may hold.
Content(data, ftype) ==
  /\ data \in Block
  /\ \/ ftype = "dir" /\ data.type = "ddata"
     \/ ftype = "file" /\ data.type = "fdata"

\* The states that fs_mkfile goes through, from s.
Stages(s, data, name, n, ftype, pin, q, s1, new, s2, s3) ==
  /\ s1 = StageFile(s, data, Inode(n, ftype, Null), Imap(n, Null))
  /\ new = AddCrEntry(s1.cp.map, [name |-> name, inoden |-> n, map |-> Staged(s1)])
  /\ s2 = WithMap(s1, new)
  /\ s3 = StageFile(s2, Listing(Load(s2, q), name), Inode(pin, "dir", q), Imap(pin, q + 1))

IsCp(c, m, e, f) == c = [map |-> m, lend |-> e, lfst |-> f]

\* fs_mkfile made a file of number n at e, and listed it in the directory of par.
MkfileMade(name, data, ftype, n, par, e) ==
  /\ n = GetMaxInoden(cp.map) + 1
  /\ cp.map[par].name = Parent[name]
  /\ e = cp.lend /\ e + 6 < LogSize
  /\ buffer' \in Seq(Block) /\ Ends(cp.lfst, buffer', e + 6)
  /\ \E new : /\ Added(new, cp.map, [name |-> name, inoden |-> n, map |-> e + 2])
              /\ IsCp(cp', SetCrMap(new, cp.map[par].inoden, e + 5), e + 6, cp.lfst)
  /\ View[cp.map[par].map - 2].type = "ddata"
  /\ Made(View', View, e, data, Inode(n, ftype, e), Imap(n, e + 1),
          Listing(View[cp.map[par].map - 2], name),
          Inode(cp.map[par].inoden, "dir", e + 3), Imap(cp.map[par].inoden, e + 4))

\* The tree that was saved, and the one that is there.
SavedTree == IF saved = NoCp THEN {} ELSE Leads(View, saved)

FilesTree == IF cp = NoCp THEN SavedTree ELSE Leads(View, cp)

Shown == sound => Tree(saved) = SavedTree /\ (cp # NoCp => Tree(cp) = FilesTree)

\* Neither changes.
Stays == SavedTree' = SavedTree /\ FilesTree' = FilesTree

\* The tree has the new file, unless the checkpoint's map was full.
Grown(w, d, v, c, name, data) ==
  \/ Leads(w, d) = Leads(v, c)
  \/ Leads(w, d) = Leads(v, c) \cup {<<name, Held(data)>>}

Grows(name, data) ==
  cp' # NoCp /\ SavedTree' = SavedTree /\ Grown(View', cp', View, cp, name, data)

\* There is an empty root, and nothing else.
Formats == cp' # NoCp /\ saved' = cp' /\ Leads(View', cp') = {<<Root, Dir>>}

\* A step of the store from the trees f and k to g and h.
Promised(f, k, g, h) ==
  \/ g = f /\ h = k
  \/ g = {<<Root, Dir>>} /\ h = {<<Root, Dir>>}
  \/ \E n \in Names : g = {x \in f : x[1] \notin Within[n]} /\ h = k
  \/ \E n \in Names \ {Root}, content \in Texts \cup {Dir} :
       /\ \A x \in f : x[1] # n
       /\ <<Parent[n], Dir>> \in f
       /\ g = f \cup {<<n, content>>} /\ h = k
  \/ g = f /\ h = f
  \/ g = k /\ h = k

Keeps == Promised(FilesTree, SavedTree, FilesTree', SavedTree')

\* A block as it is moved.
Moved(block) ==
  CASE block.type = "inode" -> [block EXCEPT !.idata = gc.prev]
    [] block.type = "imap"  -> [block EXCEPT !.inode = gc.prev]
    [] OTHER -> block

\* The block x is put at the end of the log, and map is the checkpoint's.
Appended(x, map) ==
  /\ x \in Block /\ InPlace(x, cp.lend) /\ cp.lend + 1 < LogSize
  /\ map \in Seq(Entry)
  /\ cp' = [map |-> map, lend |-> cp.lend + 1, lfst |-> cp.lfst]
  /\ buffer' = Append(buffer, x) /\ log' = log /\ saved' = saved

\* Every file is in what was moved or, with its data, beyond a.
Beyond(a) ==
  \A i \in Live(cp.map) :
    \/ a <= cp.map[i].map - 2 /\ cp.map[i].map < cp.lfst
    \/ cp.lfst <= cp.map[i].map - 2

\* The walk has not come to the blocks it moved.
Walking ==
  /\ gc.curr = Nowhere
  /\ gc.addr + gc.left <= cp.lfst
  /\ Beyond(gc.addr)

\* The data, and the inode, of a file that is still where it was are copied.
Moving ==
  /\ gc.left > 0 /\ gc.addr > 0 /\ gc.addr + gc.left - 1 <= cp.lfst
  /\ Beyond(gc.addr - 1)
  /\ gc.addr + 1 < cp.lfst
  /\ \E i \in Live(cp.map) : cp.map[i].map = gc.addr + 1
  /\ \/ gc.curr = gc.addr - 1
     \/ /\ gc.curr = gc.addr
        /\ cp.lfst < cp.lend /\ gc.prev = cp.lend - 1
        /\ View[cp.lend - 1] = log[gc.addr - 1]
     \/ /\ gc.curr = gc.addr + 1
        /\ cp.lfst + 1 < cp.lend /\ gc.prev = cp.lend - 1
        /\ View[cp.lend - 2] = log[gc.addr - 1]
        /\ View[cp.lend - 1] = [log[gc.addr] EXCEPT !.idata = cp.lend - 2]
        /\ gc.inoden = log[gc.addr].num

\* A garbage collection keeps its parts, and meets no block never written.
IsWalk(g) == \E a, l, c, par, n : g = Walk(a, l, c, par, n)

Collecting ==
  /\ IsWalk(gc)
  /\ gc.addr \in Nat /\ gc.left \in Nat
  /\ \A a \in 0 .. cp.lfst - 1 : log[a] # Zero
  /\ Walking \/ Moving

\* While a checkpoint is in memory its chains are in the log as it will be.
Running ==
  /\ Good(View, cp)
  /\ cp.lfst + Len(buffer) = cp.lend
  /\ gc = NoGc \/ Collecting

\* Before fs_init, and after a restart, only the disk is left.
Down == cp = NoCp /\ buffer = <<>> /\ gc = NoGc

\* What was saved is whole on the disk, below everything made since.
Kept ==
  /\ Good(View, saved)
  /\ saved.lfst = saved.lend
  /\ cp # NoCp => saved.lend <= cp.lend

\* Nothing is promised any more once sound is false.
IInv ==
  sound =>
    /\ buffer \in Seq(Block)
    /\ Placed(log) /\ Placed(View)
    /\ Down \/ Running
    /\ saved = NoCp \/ Kept
-----------------------------------------------------------------------------
(* Blocks and addresses *)

(***************************************************************************)
(* The log has room for a file and a directory, and more.                  *)
(***************************************************************************)
LEMMA Sizes ==
  /\ LogSize \in Nat /\ LogSize >= 12 /\ BufferSize \in Nat
  /\ Slot = 0 .. LogSize - 1
  /\ \A a : a \in Slot <=> a \in Nat /\ a < LogSize
BY LfsAssumption DEF Slot

(***************************************************************************)
(* An inode is what its fields say, and so is a map.                       *)
(***************************************************************************)
LEMMA Shapes ==
  ASSUME NEW b \in Block
  PROVE  /\ b.type \in {"fdata", "ddata", "inode", "imap", "junk"}
         /\ b.type = "inode" =>
              /\ b = Inode(b.num, b.ftype, b.idata)
              /\ b.num \in 0 .. MaxInoden /\ b.ftype \in {"dir", "file"}
              /\ b.idata \in Address
         /\ b.type = "imap" =>
              /\ b = Imap(b.inoden, b.inode)
              /\ b.inoden \in 0 .. MaxInoden /\ b.inode \in Address
         /\ b.type = "ddata" =>
              /\ b = Ddata(b.names, b.room)
              /\ b.names \subseteq Names /\ b.room \in 0 .. MAX_DIR_FILES
BY DEF Block, Inode, Imap, Junk, Ddata

(***************************************************************************)
(* The constructors give blocks.                                           *)
(***************************************************************************)
LEMMA Constructors ==
  /\ \A n, m : /\ Imap(n, m).type = "imap" /\ Imap(n, m).inoden = n /\ Imap(n, m).inode = m
               /\ n \in 0 .. MaxInoden /\ m \in Address => Imap(n, m) \in Block
  /\ \A n, t, m : /\ Inode(n, t, m).type = "inode" /\ Inode(n, t, m).num = n
                  /\ Inode(n, t, m).ftype = t /\ Inode(n, t, m).idata = m
                  /\ n \in 0 .. MaxInoden /\ t \in {"dir", "file"} /\ m \in Address
                       => Inode(n, t, m) \in Block
  /\ \A ns, r : /\ Ddata(ns, r).type = "ddata" /\ Ddata(ns, r).names = ns /\ Ddata(ns, r).room = r
                /\ ns \subseteq Names /\ r \in 0 .. MAX_DIR_FILES => Ddata(ns, r) \in Block
  /\ \A x : Fdata(x).type = "fdata" /\ Fdata(x).text = x /\ (x \in Texts => Fdata(x) \in Block)
  /\ Zero = Imap(0, Null) /\ Zero \in Block /\ Zero.type = "imap"
  /\ Junk.type = "junk"
BY LfsAssumption DEF Block, Inode, Imap, Ddata, Fdata, Zero, Junk, Address

-----------------------------------------------------------------------------
(* The log as it will be *)

(***************************************************************************)
(* Below the buffer it is what the disk holds, and with an empty buffer    *)
(* everywhere.                                                             *)
(***************************************************************************)
LEMMA FilledBelow ==
  ASSUME NEW f \in Nat, NEW b, NEW l, l \in [Slot -> Block], NEW a \in Slot,
         a < f \/ b = <<>>
  PROVE  Filled(f, b, l)[a] = l[a]
BY Sizes DEF Filled

(***************************************************************************)
(* A block appended to the buffer is at the end of it.                     *)
(***************************************************************************)
LEMMA FilledAppend ==
  ASSUME NEW f \in Nat, NEW b \in Seq(Block), NEW l \in [Slot -> Block],
         NEW x \in Block, NEW e \in Slot, Ends(f, b, e)
  PROVE  Filled(f, Append(b, x), l) = [Filled(f, b, l) EXCEPT ![e] = x]
<1>0. f + Len(b) = e
  BY DEF Ends
<1> DEFINE c == Append(b, x)
<1>1. /\ c \in Seq(Block) /\ Len(c) = Len(b) + 1 /\ Len(b) \in Nat /\ c # <<>>
      /\ c[Len(b) + 1] = x
      /\ \A k \in 1 .. Len(b) : c[k] = b[k]
      /\ b # <<>> <=> Len(b) > 0
  OBVIOUS
<1> HIDE DEF c
<1>2. ASSUME NEW a \in Slot
      PROVE Filled(f, c, l)[a] = [Filled(f, b, l) EXCEPT ![e] = x][a]
  <2>1. a \in Int /\ f \in Int
    BY Sizes
  <2>2. CASE a = f + Len(b)
    BY <1>0, <1>1, <2>1, <2>2 DEF Filled
  <2>3. CASE a # f + Len(b)
    <3>1. a - f + 1 \in 1 .. Len(b) <=> f <= a /\ a < f + Len(b)
      BY <1>0, <1>1, <2>1
    <3> QED BY <1>0, <1>1, <2>1, <2>3, <3>1, SMTT(20) DEF Filled
  <2> QED BY <2>2, <2>3
<1>3. Filled(f, c, l) = [a \in Slot |-> Filled(f, c, l)[a]]
  BY DEF Filled
<1>4. [Filled(f, b, l) EXCEPT ![e] = x]
        = [a \in Slot |-> [Filled(f, b, l) EXCEPT ![e] = x][a]]
  BY DEF Filled
<1> QED BY <1>2, <1>3, <1>4 DEF c

(***************************************************************************)
(* It is a log.                                                            *)
(***************************************************************************)
LEMMA FilledType ==
  ASSUME NEW f \in Nat, NEW b \in Seq(Block), NEW l \in [Slot -> Block]
  PROVE  Filled(f, b, l) \in [Slot -> Block]
<1> SUFFICES ASSUME NEW a \in Slot PROVE Filled(f, b, l)[a] \in Block
  BY DEF Filled
<1>1. CASE b # <<>> /\ f <= a /\ a < f + Len(b)
  <2>1. a - f + 1 \in 1 .. Len(b)
    BY <1>1, Sizes
  <2> QED BY <1>1, <2>1 DEF Filled
<1>2. CASE ~(b # <<>> /\ f <= a /\ a < f + Len(b))
  BY <1>2 DEF Filled
<1> QED BY <1>1, <1>2

(***************************************************************************)
(* A sync of a log that has not come round makes it what it was to be.     *)
(***************************************************************************)
LEMMA SyncEffect ==
  ASSUME NEW m, NEW e \in Slot, NEW f \in Nat, NEW b \in Seq(Block),
         NEW l \in [Slot -> Block], f + Len(b) = e
  PROVE  SyncLogBuf(Run(m, e, f, b, l)) = Run(m, e, e, <<>>, Filled(f, b, l))
<1> DEFINE s == Run(m, e, f, b, l)
<1> USE DEF Run
<1>1. e \in Nat /\ Len(b) \in Nat /\ (b = <<>> <=> Len(b) = 0)
  BY Sizes
<1>2. CASE f = e
  <2>1. b = <<>>
    BY <1>1, <1>2
  <2>2. Filled(f, b, l) = l
    BY <2>1 DEF Filled
  <2> QED BY <1>2, <2>1, <2>2 DEF SyncLogBuf
<1>3. CASE f # e
  <2>1. f < e /\ b # <<>>
    BY <1>1, <1>3
  <2>2. SyncedLog(s) = Filled(f, b, l)
    <3>1. ASSUME NEW a \in Slot, a >= f /\ a < f + Len(b)
          PROVE a - f < Len(b) /\ a - f + 1 = a - f + 1
      BY <1>1, <3>1, Sizes
    <3> QED BY <2>1, <3>1 DEF SyncedLog, Filled
  <2> QED BY <1>3, <2>2 DEF SyncLogBuf
<1> QED BY <1>2, <1>3

(***************************************************************************)
(* The end of a log that does not come round yet.                          *)
(***************************************************************************)
LEMMA NoWrap ==
  ASSUME NEW e \in Nat, e + 1 < LogSize
  PROVE  (e + 1) % LogSize = e + 1 /\ (e + LogSize) % LogSize = e
<1>1. (e + 1) % LogSize = e + 1
  BY Sizes
<1>2. (e + 1 + LogSize - 1) % LogSize = e
  BY Sizes
<1>3. e + 1 + LogSize - 1 = e + LogSize
  BY Sizes
<1> QED BY <1>1, <1>2, <1>3

(***************************************************************************)
(* A block is staged without a sync while the log is not full.             *)
(***************************************************************************)
LEMMA StageEffect ==
  ASSUME NEW m, NEW e \in Nat, NEW e2, e2 = e + 1, NEW f, NEW b \in Seq(Block), NEW l, NEW x,
         e2 < LogSize, Len(b) + 1 < LogSize
  PROVE  /\ Stage(Run(m, e, f, b, l), x) = Run(m, e2, f, Append(b, x), l)
         /\ Staged(Run(m, e2, f, Append(b, x), l)) = e
<1>1. (e + 1) % LogSize = e2 /\ (e2 + LogSize - 1) % LogSize = e
  <2>1. e2 + LogSize - 1 = e + LogSize
    BY Sizes
  <2> QED BY <2>1, NoWrap
<1>2. ~(Len(b) + 1 >= LogSize)
  BY Sizes
<1> DEFINE c == [map |-> m, lend |-> e, lfst |-> f]
<1>3. [c EXCEPT !.lend = e2] = [map |-> m, lend |-> e2, lfst |-> f]
  OBVIOUS
<1> HIDE DEF c
<1>4. Run(m, e, f, b, l) = [cp |-> c, buffer |-> b, log |-> l] /\ c.lend = e
  BY DEF c, Run
<1>5. Stage([cp |-> c, buffer |-> b, log |-> l], x)
        = [cp |-> [c EXCEPT !.lend = e2], buffer |-> Append(b, x), log |-> l]
  BY <1>1, <1>2, <1>4 DEF Stage
<1>6. Staged(Run(m, e2, f, Append(b, x), l)) = e
  BY <1>1 DEF Staged, Run
<1> QED BY <1>3, <1>4, <1>5, <1>6 DEF Run

(***************************************************************************)
(* So are the three blocks of a file, each with the address of the one     *)
(* before.                                                                 *)
(***************************************************************************)
LEMMA StageFileEffect ==
  ASSUME NEW m, NEW e \in Nat, NEW f, NEW b \in Seq(Block), NEW l,
         NEW d \in Block, NEW n \in Block, NEW i \in Block,
         n.type = "inode", i.type = "imap",
         e + 3 < LogSize, Len(b) + 3 < LogSize
  PROVE  /\ StageFile(Run(m, e, f, b, l), d, n, i)
              = Run(m, e + 3, f,
                    WithFile(b, d, Inode(n.num, n.ftype, e), Imap(i.inoden, e + 1)), l)
         /\ Inode(n.num, n.ftype, e) \in Block
         /\ Imap(i.inoden, e + 1) \in Block
<1> DEFINE S(k, c) == Run(m, k, f, c, l)
           n2 == Inode(n.num, n.ftype, e)
           i2 == Imap(i.inoden, e + 1)
<1>1. n = Inode(n.num, n.ftype, n.idata) /\ i = Imap(i.inoden, i.inode)
      /\ n.num \in 0 .. MaxInoden /\ n.ftype \in {"dir", "file"} /\ i.inoden \in 0 .. MaxInoden
  BY Shapes
<1>2. [n EXCEPT !.idata = e] = n2
  BY <1>1 DEF Inode
<1>3. [i EXCEPT !.inode = e + 1] = i2
  BY <1>1 DEF Imap
<1>4. n2 \in Block /\ i2 \in Block
  <2>1. e \in Address /\ e + 1 \in Address
    BY Sizes DEF Address
  <2> QED BY <1>1, <2>1, Constructors
<1> HIDE DEF n2, i2
<1> DEFINE b1 == Append(b, d)
           b2 == Append(b1, n2)
           b3 == Append(b2, i2)
<1>5. /\ Len(b) \in Nat /\ b1 \in Seq(Block) /\ Len(b1) = Len(b) + 1
      /\ b2 \in Seq(Block) /\ Len(b2) = Len(b) + 2
  BY <1>4
<1>6. Stage(S(e, b), d) = S(e + 1, b1)
  BY <1>5, StageEffect, Sizes
<1> HIDE DEF b1
<1>7. Stage(S(e + 1, b1), n2) = S(e + 2, b2)
  <2> DEFINE k == e + 1
             k2 == e + 2
  <2>1. k \in Nat /\ k2 = k + 1 /\ k2 < LogSize /\ Len(b1) + 1 < LogSize
    BY <1>5, Sizes
  <2> HIDE DEF k, k2
  <2>2. Stage(S(k, b1), n2) = S(k2, b2)
    BY <1>5, <2>1, StageEffect
  <2> QED BY <2>2 DEF k, k2
<1> HIDE DEF b2
<1>8. Stage(S(e + 2, b2), i2) = S(e + 3, b3)
  <2> DEFINE k == e + 2
             k2 == e + 3
  <2>1. k \in Nat /\ k2 = k + 1 /\ k2 < LogSize /\ Len(b2) + 1 < LogSize
    BY <1>5, Sizes
  <2> HIDE DEF k, k2
  <2>2. Stage(S(k, b2), i2) = S(k2, b3)
    BY <1>5, <2>1, StageEffect
  <2> QED BY <2>2 DEF k, k2
<1>9. S(e, b).cp.lend = e /\ S(e + 1, b1).cp.lend = e + 1
  BY DEF Run
<1>10. StageFile(S(e, b), d, n, i) = S(e + 3, b3)
  BY <1>2, <1>3, <1>6, <1>7, <1>8, <1>9 DEF StageFile
<1> QED BY <1>4, <1>10 DEF b3, b2, b1, n2, i2, WithFile

(***************************************************************************)
(* What it adds to the log as it will be.                                  *)
(***************************************************************************)
LEMMA FileFilled ==
  ASSUME NEW f \in Nat, NEW b \in Seq(Block), NEW l \in [Slot -> Block],
         NEW e \in Nat, Ends(f, b, e), e + 3 < LogSize,
         NEW d \in Block, NEW n \in Block, NEW i \in Block
  PROVE  /\ FileAt(Filled(f, WithFile(b, d, n, i), l), Filled(f, b, l), e, d, n, i)
         /\ WithFile(b, d, n, i) \in Seq(Block)
         /\ Ends(f, WithFile(b, d, n, i), e + 3)
<1> DEFINE b1 == Append(b, d)
           b2 == Append(b1, n)
           b3 == Append(b2, i)
<1>1. /\ Len(b) \in Nat /\ b1 \in Seq(Block) /\ Len(b1) = Len(b) + 1
      /\ b2 \in Seq(Block) /\ Len(b2) = Len(b) + 2
      /\ b3 \in Seq(Block) /\ Len(b3) = Len(b) + 3
  OBVIOUS
<1>2. Ends(f, b1, e + 1) /\ Ends(f, b2, e + 2) /\ Ends(f, b3, e + 3)
  BY <1>1 DEF Ends
<1>3. e \in Slot /\ e + 1 \in Slot /\ e + 2 \in Slot
  BY Sizes
<1>4. Filled(f, b1, l) = [Filled(f, b, l) EXCEPT ![e] = d]
  BY <1>3, FilledAppend
<1> HIDE DEF b1
<1>5. Filled(f, b2, l) = [Filled(f, b1, l) EXCEPT ![e + 1] = n]
  BY <1>1, <1>2, <1>3, FilledAppend
<1> HIDE DEF b2
<1>6. Filled(f, b3, l) = [Filled(f, b2, l) EXCEPT ![e + 2] = i]
  BY <1>1, <1>2, <1>3, FilledAppend
<1> HIDE DEF b3
<1>7. Filled(f, b, l) \in [Slot -> Block] /\ Filled(f, b3, l) \in [Slot -> Block]
  BY <1>1, FilledType
<1>8. FileAt(Filled(f, b3, l), Filled(f, b, l), e, d, n, i)
  BY <1>3, <1>4, <1>5, <1>6, <1>7 DEF FileAt
<1>9. WithFile(b, d, n, i) = b3
  BY DEF b3, b2, b1, WithFile
<1> QED BY <1>1, <1>2, <1>8, <1>9

-----------------------------------------------------------------------------
(* The tree that a checkpoint leads to *)

(***************************************************************************)
(* What a live entry of a good checkpoint leads to.                        *)
(***************************************************************************)
LEMMA LiveFacts ==
  ASSUME NEW v, NEW c, Good(v, c), NEW i \in Live(c.map)
  PROVE  /\ i \in DOMAIN c.map /\ i \in Nat /\ c.map \in Seq(Entry)
         /\ c.map[i].name \in Names /\ c.map[i].inoden \in 0 .. MaxInoden
         /\ Chain(v, c.map[i].inoden, c.map[i].map)
         /\ c.map[i].map \in Nat /\ 2 <= c.map[i].map /\ c.map[i].map < c.lend
         /\ c.map[i].map < LogSize
         /\ c.lend \in Nat /\ c.lend < LogSize
         /\ c.map[i].map \in Slot /\ c.map[i].map - 1 \in Slot /\ c.map[i].map - 2 \in Slot
<1>1. c.map \in Seq(Entry) /\ c.lend \in Slot
  BY DEF Good, Checkpoint
<1>2. i \in DOMAIN c.map /\ i \in Nat
  BY <1>1 DEF Live
<1>3. Chain(v, c.map[i].inoden, c.map[i].map) /\ c.map[i].map < c.lend
  BY DEF Good, Chained
<1>4. c.map[i].map \in 2 .. LogSize - 1
  BY <1>3 DEF Chain
<1>5. c.map[i].name \in Names /\ c.map[i].inoden \in 0 .. MaxInoden
  BY <1>2 DEF Good, Named
<1>6. ASSUME NEW m \in 2 .. LogSize - 1, NEW e \in Slot, m < e
      PROVE  /\ m \in Nat /\ 2 <= m /\ m < LogSize
             /\ e \in Nat /\ e < LogSize
             /\ m \in Slot /\ m - 1 \in Slot /\ m - 2 \in Slot
  BY <1>6, Sizes
<1> DEFINE m == c.map[i].map
           e == c.lend
<1>7. m \in 2 .. LogSize - 1 /\ e \in Slot /\ m < e
  BY <1>1, <1>3, <1>4
<1> HIDE DEF m, e
<1>8. /\ m \in Nat /\ 2 <= m /\ m < LogSize /\ e \in Nat /\ e < LogSize
      /\ m \in Slot /\ m - 1 \in Slot /\ m - 2 \in Slot
  BY <1>6, <1>7
<1> QED BY <1>1, <1>2, <1>3, <1>5, <1>8 DEF m, e

(***************************************************************************)
(* The entries of a good checkpoint are set, and are live or null.         *)
(***************************************************************************)
LEMMA EntryFacts ==
  ASSUME NEW v, NEW c, Good(v, c)
  PROVE  /\ c.map \in Seq(Entry) /\ DOMAIN c.map = 1 .. Len(c.map) /\ Len(c.map) \in Nat
         /\ \A i \in DOMAIN c.map :
              /\ c.map[i] \in Entry /\ c.map[i].inoden \in 0 .. MaxInoden
              /\ c.map[i].inoden # NoInoden /\ c.map[i].name \in Names
              /\ i \in Live(c.map) <=> c.map[i].map # Null
<1>1. c.map \in Seq(Entry)
  BY DEF Good, Checkpoint
<1>2. \A i \in DOMAIN c.map : c.map[i].inoden \in 0 .. MaxInoden /\ c.map[i].name \in Names
  BY DEF Good, Named
<1>3. \A n \in 0 .. MaxInoden : n # NoInoden
  BY DEF NoInoden
<1>4. \A i \in DOMAIN c.map : c.map[i] \in Entry
  BY <1>1
<1>5. DOMAIN c.map = 1 .. Len(c.map) /\ Len(c.map) \in Nat
  BY <1>1
<1> QED BY <1>1, <1>2, <1>3, <1>4, <1>5 DEF Live

(***************************************************************************)
(* A log that agrees below the end of a checkpoint leads to the same tree. *)
(***************************************************************************)
LEMMA GoodFrame ==
  ASSUME NEW v, NEW w, NEW c, Good(v, c), NEW d \in Checkpoint,
         d.map = c.map, d.lend >= c.lend,
         Agree(w, v, c.lend)
  PROVE  Good(w, d)
<1>1. d.lend \in Nat /\ c.lend \in Nat
  BY Sizes DEF Good, Checkpoint
<1>2. ASSUME NEW i \in Live(c.map)
      PROVE  /\ Chain(w, c.map[i].inoden, c.map[i].map) /\ c.map[i].map < d.lend
             /\ w[c.map[i].map - 2] = v[c.map[i].map - 2]
  <2> DEFINE m == c.map[i].map
  <2>1. /\ Chain(v, c.map[i].inoden, m) /\ m \in Nat /\ m < c.lend
        /\ m \in Slot /\ m - 1 \in Slot /\ m - 2 \in Slot
    BY LiveFacts
  <2> HIDE DEF m
  <2>2. w[m] = v[m] /\ w[m - 1] = v[m - 1] /\ w[m - 2] = v[m - 2]
    <3>1. m - 1 < c.lend /\ m - 2 < c.lend
      BY <1>1, <2>1
    <3> QED BY <2>1, <3>1 DEF Agree
  <2>3. Chain(w, c.map[i].inoden, m)
    BY <2>1, <2>2 DEF Chain
  <2>4. m < d.lend
    BY <1>1, <2>1
  <2> QED BY <2>2, <2>3, <2>4 DEF m
<1>3. Listed(w, c.map)
  BY <1>2 DEF Good, Listed
<1>4. Chained(w, c.map, d.lend)
  BY <1>2 DEF Chained
<1> QED BY <1>3, <1>4 DEF Good

(***************************************************************************)
(* What fs_remove leaves of a tree is a tree.                              *)
(***************************************************************************)
LEMMA RemoveGood ==
  ASSUME NEW v, NEW c, Good(v, c), NEW name \in Names, NEW d, d \in Checkpoint, d.lend = c.lend,
         d.map = [i \in DOMAIN c.map |->
                    IF c.map[i].name \in Within[name] THEN [c.map[i] EXCEPT !.map = Null]
                    ELSE c.map[i]]
  PROVE  /\ Good(v, d)
         /\ Live(d.map) = {i \in Live(c.map) : c.map[i].name \notin Within[name]}
         /\ \A i \in Live(d.map) : d.map[i] = c.map[i]
<1>1. \A i \in DOMAIN c.map :
        /\ c.map[i] \in Entry
        /\ d.map[i].name = c.map[i].name /\ d.map[i].inoden = c.map[i].inoden
        /\ d.map[i].map = IF c.map[i].name \in Within[name] THEN Null ELSE c.map[i].map
        /\ c.map[i].name \notin Within[name] => d.map[i] = c.map[i]
  <2> SUFFICES ASSUME NEW i \in DOMAIN c.map
               PROVE  /\ c.map[i] \in Entry
                      /\ d.map[i].name = c.map[i].name /\ d.map[i].inoden = c.map[i].inoden
                      /\ d.map[i].map = IF c.map[i].name \in Within[name] THEN Null ELSE c.map[i].map
                      /\ c.map[i].name \notin Within[name] => d.map[i] = c.map[i]
    OBVIOUS
  <2>1. c.map[i] \in Entry
    BY EntryFacts
  <2>2. d.map[i] = IF c.map[i].name \in Within[name] THEN [c.map[i] EXCEPT !.map = Null]
                   ELSE c.map[i]
    OBVIOUS
  <2> QED BY <2>1, <2>2 DEF Entry
<1>2. DOMAIN d.map = DOMAIN c.map
  OBVIOUS
<1>3. Live(d.map) = {i \in Live(c.map) : c.map[i].name \notin Within[name]}
  BY <1>1, <1>2 DEF Live
<1>4. \A i \in Live(d.map) : i \in Live(c.map) /\ d.map[i] = c.map[i]
  BY <1>1, <1>3 DEF Live
<1>5. Named(d.map)
  BY <1>1, <1>2 DEF Good, Named
<1>6. Chained(v, d.map, d.lend) /\ Listed(v, d.map)
  BY <1>4 DEF Good, Chained, Listed
<1>7. ASSUME NEW i \in Live(d.map), d.map[i].name # Root
      PROVE \E j \in Live(d.map) : d.map[j].name = Parent[d.map[i].name]
  <2>1. PICK j \in Live(c.map) : c.map[j].name = Parent[c.map[i].name]
    BY <1>4, <1>7 DEF Good, Closed
  <2>2. c.map[i].name \in Names \ {Root} /\ c.map[i].name \notin Within[name]
    BY <1>3, <1>4, <1>7, LiveFacts
  <2>3. Parent[c.map[i].name] \notin Within[name]
    <3>1. Parent[c.map[i].name] \in Names /\ c.map[i].name \in Within[Parent[c.map[i].name]]
      BY <2>2, LfsAssumption
    <3> QED BY <2>2, <3>1, LfsAssumption
  <2>4. j \in Live(d.map) /\ d.map[j].name = c.map[j].name
    BY <1>3, <1>4, <2>1, <2>3
  <2> QED BY <1>4, <2>1, <2>4
<1>8. Closed(d.map)
  BY <1>7 DEF Closed
<1> QED BY <1>3, <1>4, <1>5, <1>6, <1>8 DEF Good

-----------------------------------------------------------------------------
(* The entries of the checkpoint *)

(***************************************************************************)
(* The first of some indices.                                              *)
(***************************************************************************)
LEMMA FirstIndex ==
  ASSUME NEW S, S \subseteq Nat, S # {}
  PROVE  (CHOOSE i \in S : \A j \in S : i <= j) \in S
BY Least

(***************************************************************************)
(* No inode number is above the greatest in use.                           *)
(***************************************************************************)
LEMMA MaxInodenFact ==
  ASSUME NEW map, \A i \in DOMAIN map : map[i].inoden \in 0 .. MaxInoden
  PROVE  /\ GetMaxInoden(map) \in Nat
         /\ \A i \in DOMAIN map : map[i].inoden <= GetMaxInoden(map)
<1> DEFINE S == {map[i].inoden : i \in DOMAIN map} \cup {0}
           T == {MaxInoden - n : n \in S}
<1>1. MaxInoden \in Nat /\ 0 \in S /\ S \subseteq 0 .. MaxInoden
  BY LfsAssumption
<1>2. \A i \in DOMAIN map : map[i].inoden \in S
  OBVIOUS
<1>3. GetMaxInoden(map) = CHOOSE m \in S : \A n \in S : n <= m
  BY DEF GetMaxInoden
<1> HIDE DEF S
<1>4. T \subseteq Nat /\ T # {}
  BY <1>1
<1>5. PICK x \in T : \A y \in T : x <= y
  BY <1>4, Least
<1>6. PICK m \in S : x = MaxInoden - m
  OBVIOUS
<1>7. ASSUME NEW n \in S PROVE n <= m
  <2>1. MaxInoden - n \in T
    OBVIOUS
  <2>2. MaxInoden - m <= MaxInoden - n
    BY <1>5, <1>6, <2>1
  <2> QED BY <1>1, <2>2
<1>8. GetMaxInoden(map) \in S /\ \A n \in S : n <= GetMaxInoden(map)
  BY <1>3, <1>7
<1>9. GetMaxInoden(map) \in 0 .. MaxInoden
  BY <1>1, <1>8
<1>10. GetMaxInoden(map) \in Nat
  BY <1>1, <1>9
<1> HIDE DEF T
<1>11. \A i \in DOMAIN map : map[i].inoden <= GetMaxInoden(map)
  BY <1>2, <1>8
<1> QED BY <1>10, <1>11

(***************************************************************************)
(* A new entry takes the place of one that is null, or comes last, unless  *)
(* the map is full.                                                        *)
(***************************************************************************)
LEMMA AddEffect ==
  ASSUME NEW map \in Seq(Entry), NEW entry \in Entry, NEW new, Added(new, map, entry)
  PROVE  /\ new \in Seq(Entry)
         /\ \/ new = map
            \/ \E k : AddedAt(new, map, k, entry)
<1> DEFINE spare == EntryAt(map, Null)
           first == CHOOSE i \in spare : \A j \in spare : i <= j
<1>0. new = AddCrEntry(map, entry)
  BY DEF Added
<1>1. spare \subseteq Nat /\ spare \subseteq DOMAIN map /\ \A i \in spare : map[i].map = Null
  BY DEF EntryAt
<1>2. CASE spare # {}
  <2>1. first \in spare
    BY <1>1, <1>2, FirstIndex
  <2>2. new = [map EXCEPT ![first] = entry]
    BY <1>0, <1>2 DEF AddCrEntry
  <2> HIDE DEF first, spare
  <2>3. first \in DOMAIN map /\ map[first].map = Null
    BY <1>1, <2>1
  <2>4. new \in Seq(Entry) /\ DOMAIN new = DOMAIN map /\ new[first] = entry
        /\ \A i \in DOMAIN new : i # first => i \in DOMAIN map /\ new[i] = map[i]
    BY <2>2, <2>3
  <2> QED BY <2>3, <2>4 DEF AddedAt
<1>3. CASE spare = {} /\ Len(map) < MAX_IMAP
  <2>1. new = Append(map, entry)
    BY <1>0, <1>3 DEF AddCrEntry
  <2> DEFINE k == Len(map) + 1
  <2>2. /\ new \in Seq(Entry) /\ DOMAIN map = 1 .. Len(map) /\ Len(map) \in Nat
        /\ DOMAIN new = 1 .. k /\ new[k] = entry /\ k \in DOMAIN new
        /\ \A i \in DOMAIN map : new[i] = map[i]
    BY <2>1
  <2>3. k \notin DOMAIN map /\ DOMAIN map \subseteq DOMAIN new
        /\ \A i \in DOMAIN new : i # k => i \in DOMAIN map
    BY <2>2
  <2> QED BY <2>2, <2>3 DEF AddedAt
<1>4. CASE spare = {} /\ ~(Len(map) < MAX_IMAP)
  BY <1>0, <1>4 DEF AddCrEntry
<1> QED BY <1>2, <1>3, <1>4

(***************************************************************************)
(* The address of an inode's map is set in the one entry of its number.    *)
(***************************************************************************)
LEMMA SetEffect ==
  ASSUME NEW map \in Seq(Entry), Named(map), NEW par \in DOMAIN map, NEW m \in Address,
         NEW new, new = SetCrMap(map, map[par].inoden, m)
  PROVE  /\ new \in Seq(Entry) /\ DOMAIN new = DOMAIN map
         /\ \A i \in DOMAIN map : new[i] = IF i = par THEN [map[i] EXCEPT !.map = m] ELSE map[i]
<1>1. \A i \in DOMAIN map : map[i].inoden # NoInoden /\ (map[i].inoden = map[par].inoden <=> i = par)
  BY LfsAssumption DEF Named, NoInoden
<1>2. DOMAIN map = 1 .. Len(map) /\ Len(map) \in Nat /\ \A i \in DOMAIN map : map[i] \in Entry
  OBVIOUS
<1>3. \A i \in DOMAIN map : \A j \in 1 .. i : j \in DOMAIN map
  BY <1>2
<1>4. DOMAIN new = DOMAIN map
      /\ \A i \in DOMAIN map : new[i] = IF i = par THEN [map[i] EXCEPT !.map = m] ELSE map[i]
  BY <1>1, <1>3 DEF SetCrMap
<1>5. \A i \in DOMAIN map : [map[i] EXCEPT !.map = m] \in Entry
  BY <1>2 DEF Entry
<1>6. \A i \in DOMAIN map : new[i] \in Entry
  BY <1>2, <1>4, <1>5
<1>7. new = [i \in 1 .. Len(map) |-> new[i]]
  BY <1>2, <1>4 DEF SetCrMap
<1> QED BY <1>2, <1>4, <1>6, <1>7

-----------------------------------------------------------------------------
(* A file is added, a chain is moved *)

(***************************************************************************)
(* A file whose chain is at the end of the log joins the tree: nothing     *)
(* else changes, and what was listed still is.                             *)
(***************************************************************************)
LEMMA AddGood ==
  ASSUME NEW v, NEW c, NEW name, NEW n, NEW par, NEW w, NEW d, NEW k,
         Joins(v, c, name, n, par, w, d, k)
  PROVE  /\ Named(d.map) /\ Chained(w, d.map, d.lend) /\ Closed(d.map)
         /\ ListedBut(w, d.map, name)
         /\ Live(d.map) = Live(c.map) \cup {k} /\ k \notin Live(c.map)
         /\ \A i \in Live(c.map) : d.map[i] = c.map[i]
<1> SUFFICES ASSUME Good(v, c), d \in Checkpoint,
                    name \in Names \ {Root}, n \in 0 .. MaxInoden, Fresh(c.map, name, n),
                    par \in Live(c.map), c.map[par].name = Parent[name],
                    c.lend + 3 < LogSize, d.lend = c.lend + 3,
                    Agree(w, v, c.lend), Chain(w, n, c.lend + 2),
                    AddedAt(d.map, c.map, k,
                            [name |-> name, inoden |-> n, map |-> c.lend + 2])
             PROVE  /\ Named(d.map) /\ Chained(w, d.map, d.lend) /\ Closed(d.map)
                    /\ ListedBut(w, d.map, name)
                    /\ Live(d.map) = Live(c.map) \cup {k} /\ k \notin Live(c.map)
                    /\ \A i \in Live(c.map) : d.map[i] = c.map[i]
  BY DEF Joins
<1>0. /\ k \in DOMAIN d.map
      /\ d.map[k] = [name |-> name, inoden |-> n, map |-> c.lend + 2]
      /\ k \in DOMAIN c.map => c.map[k].map = Null
      /\ DOMAIN c.map \subseteq DOMAIN d.map
      /\ \A i \in DOMAIN d.map : i # k => i \in DOMAIN c.map /\ d.map[i] = c.map[i]
  BY DEF AddedAt
<1>fresh. /\ \A i \in DOMAIN c.map : c.map[i].name # name
          /\ \A i \in DOMAIN c.map : c.map[i].inoden < n
  BY DEF Fresh
<1>1. c.lend \in Nat
  BY Sizes DEF Good, Checkpoint
<1>2. /\ d.map[k].name = name /\ d.map[k].inoden = n /\ d.map[k].map = c.lend + 2
      /\ d.map[k].map # Null /\ n # NoInoden
  BY <1>0, <1>1 DEF Null, NoInoden
<1>3. \A i \in DOMAIN c.map : i # k => d.map[i] = c.map[i]
  BY <1>0
<1>4. k \notin Live(c.map)
  BY <1>0, EntryFacts DEF Live
<1>5. Live(d.map) = Live(c.map) \cup {k}
  BY <1>0, <1>2, <1>3, <1>4 DEF Live
<1>6. \A i \in Live(c.map) : i # k /\ d.map[i] = c.map[i]
  BY <1>0, <1>3, <1>4 DEF Live
<1>7. Named(d.map)
  <2>1. ASSUME NEW i \in DOMAIN d.map
        PROVE d.map[i].name \in Names /\ d.map[i].inoden \in 0 .. MaxInoden
    BY <1>0, <1>2, EntryFacts
  <2>2. ASSUME NEW i \in DOMAIN d.map, NEW j \in DOMAIN d.map, i # j
        PROVE d.map[i].name # d.map[j].name /\ d.map[i].inoden # d.map[j].inoden
    <3>1. \A h \in DOMAIN c.map : c.map[h].inoden # n /\ c.map[h].name # name
      BY <1>fresh, EntryFacts
    <3>2. CASE i = k
      BY <1>0, <1>2, <2>2, <3>1, <3>2
    <3>3. CASE j = k
      BY <1>0, <1>2, <2>2, <3>1, <3>3
    <3>4. CASE i # k /\ j # k
      BY <1>0, <2>2, <3>4 DEF Good, Named
    <3> QED BY <3>2, <3>3, <3>4
  <2> QED BY <2>1, <2>2 DEF Named
<1>8. ASSUME NEW i \in Live(c.map)
      PROVE  /\ Chain(w, c.map[i].inoden, c.map[i].map) /\ c.map[i].map < d.lend
             /\ w[c.map[i].map - 2] = v[c.map[i].map - 2]
  <2> DEFINE m == c.map[i].map
  <2>1. /\ Chain(v, c.map[i].inoden, m) /\ m \in Nat /\ m < c.lend
        /\ m \in Slot /\ m - 1 \in Slot /\ m - 2 \in Slot
    BY LiveFacts
  <2> HIDE DEF m
  <2>2. w[m] = v[m] /\ w[m - 1] = v[m - 1] /\ w[m - 2] = v[m - 2]
    <3>1. m - 1 < c.lend /\ m - 2 < c.lend
      BY <1>1, <2>1
    <3> QED BY <2>1, <3>1 DEF Agree
  <2>3. Chain(w, c.map[i].inoden, m)
    BY <2>1, <2>2 DEF Chain
  <2>4. m < d.lend
    BY <1>1, <2>1
  <2> QED BY <2>2, <2>3, <2>4 DEF m
<1>9. Chained(w, d.map, d.lend)
  <2>1. c.lend + 2 < d.lend
    BY <1>1
  <2> QED BY <1>2, <1>5, <1>6, <1>8, <2>1 DEF Chained
<1>10. Closed(d.map)
  BY <1>2, <1>5, <1>6 DEF Good, Closed
<1>11. ASSUME NEW i \in Live(d.map), NEW j \in Live(d.map), i # k,
              d.map[i].name # Root, d.map[j].name = Parent[d.map[i].name]
       PROVE  Lists(w[d.map[j].map - 2], d.map[i].name)
  <2>1. i \in Live(c.map) /\ d.map[i] = c.map[i]
    BY <1>5, <1>6, <1>11
  <2>2. j # k
    <3>1. PICK h \in Live(c.map) : c.map[h].name = Parent[c.map[i].name]
      BY <1>11, <2>1 DEF Good, Closed
    <3>2. c.map[h].name # name
      BY <1>fresh DEF Live
    <3> QED BY <1>2, <1>11, <2>1, <3>1, <3>2
  <2>3. j \in Live(c.map) /\ d.map[j] = c.map[j]
    BY <1>5, <1>6, <2>2
  <2>4. Lists(v[c.map[j].map - 2], c.map[i].name)
    BY <1>11, <2>1, <2>3 DEF Good, Listed
  <2> QED BY <1>8, <2>1, <2>3, <2>4
<1>12. ListedBut(w, d.map, name)
  BY <1>2, <1>11 DEF ListedBut
<1> QED BY <1>12, <1>4, <1>5, <1>6, <1>7, <1>9, <1>10, <1>11

(***************************************************************************)
(* An entry is led to another chain of its inode: what is in the other     *)
(* files stays.                                                            *)
(***************************************************************************)
LEMMA MoveGood ==
  ASSUME NEW v, NEW c, NEW par, NEW m, NEW w, NEW d, Moves(v, c, par, m, w, d)
  PROVE  /\ Named(d.map) /\ Chained(w, d.map, d.lend) /\ Closed(d.map)
         /\ Live(d.map) = Live(c.map) /\ DOMAIN d.map = DOMAIN c.map
         /\ \A i \in DOMAIN c.map :
              d.map[i].name = c.map[i].name /\ d.map[i].inoden = c.map[i].inoden
         /\ \A i \in Live(c.map) : i # par =>
              d.map[i] = c.map[i] /\ w[c.map[i].map - 2] = v[c.map[i].map - 2]
         /\ d.map[par].map = m
<1> SUFFICES ASSUME c \in Checkpoint, d \in Checkpoint,
                    Named(c.map), Chained(v, c.map, c.lend), Closed(c.map),
                    par \in Live(c.map), m \in Nat,
                    Agree(w, v, c.lend), Chain(w, c.map[par].inoden, m),
                    c.lend <= d.lend, m < d.lend,
                    d.map = SetCrMap(c.map, c.map[par].inoden, m)
             PROVE  /\ Named(d.map) /\ Chained(w, d.map, d.lend) /\ Closed(d.map)
                    /\ Live(d.map) = Live(c.map) /\ DOMAIN d.map = DOMAIN c.map
                    /\ \A i \in DOMAIN c.map :
                         d.map[i].name = c.map[i].name /\ d.map[i].inoden = c.map[i].inoden
                    /\ \A i \in Live(c.map) : i # par =>
                         d.map[i] = c.map[i] /\ w[c.map[i].map - 2] = v[c.map[i].map - 2]
                    /\ d.map[par].map = m
  BY DEF Moves
<1>1. c.map \in Seq(Entry) /\ c.lend \in Nat /\ d.lend \in Nat /\ par \in DOMAIN c.map
      /\ m \in Address /\ m \in Nat /\ m # Null
  BY Sizes DEF Checkpoint, Live, Address, Null
<1>2. /\ DOMAIN d.map = DOMAIN c.map
      /\ \A i \in DOMAIN c.map :
           d.map[i] = IF i = par THEN [c.map[i] EXCEPT !.map = m] ELSE c.map[i]
  BY <1>1, SetEffect
<1>3. \A i \in DOMAIN c.map : c.map[i] \in Entry
  BY <1>1
<1>4. /\ \A i \in DOMAIN c.map :
           d.map[i].name = c.map[i].name /\ d.map[i].inoden = c.map[i].inoden
      /\ d.map[par].map = m
      /\ \A i \in DOMAIN c.map : i # par => d.map[i] = c.map[i]
  BY <1>1, <1>2, <1>3 DEF Entry
<1>5. Live(d.map) = Live(c.map)
  BY <1>1, <1>2, <1>4 DEF Live
<1>6. \A i \in Live(c.map) : i \in DOMAIN c.map
  BY DEF Live
<1>7. Named(d.map) /\ Closed(d.map)
  BY <1>2, <1>4, <1>5, <1>6 DEF Named, Closed
<1>8. ASSUME NEW i \in Live(c.map), i # par
      PROVE  /\ Chain(w, c.map[i].inoden, c.map[i].map) /\ c.map[i].map < d.lend
             /\ w[c.map[i].map - 2] = v[c.map[i].map - 2]
  <2> DEFINE x == c.map[i].map
  <2>1. Chain(v, c.map[i].inoden, x) /\ x < c.lend
    BY DEF Chained
  <2>2. x \in 2 .. LogSize - 1
    BY <2>1 DEF Chain
  <2> HIDE DEF x
  <2>3. x \in Slot /\ x - 1 \in Slot /\ x - 2 \in Slot /\ x - 1 < c.lend /\ x - 2 < c.lend
        /\ x < d.lend
    BY <1>1, <2>1, <2>2, Sizes
  <2>4. w[x] = v[x] /\ w[x - 1] = v[x - 1] /\ w[x - 2] = v[x - 2]
    BY <2>1, <2>3 DEF Agree
  <2>5. Chain(w, c.map[i].inoden, x)
    BY <2>1, <2>4 DEF Chain
  <2> QED BY <2>3, <2>4, <2>5 DEF x
<1>9. Chained(w, d.map, d.lend)
  BY <1>4, <1>5, <1>6, <1>8 DEF Chained
<1> QED BY <1>2, <1>4, <1>5, <1>6, <1>7, <1>8, <1>9

(***************************************************************************)
(* What an entry that is led to another chain holds is what it held.       *)
(***************************************************************************)
LEMMA MovedLeads ==
  ASSUME NEW v, NEW c, NEW par, NEW m, NEW w, NEW d, Moves(v, c, par, m, w, d),
         Held(w[m - 2]) = Held(v[c.map[par].map - 2])
  PROVE  Leads(w, d) = Leads(v, c)
<1>1. /\ Live(d.map) = Live(c.map) /\ DOMAIN d.map = DOMAIN c.map
      /\ \A i \in DOMAIN c.map : d.map[i].name = c.map[i].name
      /\ \A i \in Live(c.map) : i # par =>
           d.map[i] = c.map[i] /\ w[c.map[i].map - 2] = v[c.map[i].map - 2]
      /\ d.map[par].map = m
  BY MoveGood
<1>2. ASSUME NEW i \in Live(c.map)
      PROVE  /\ d.map[i].name = c.map[i].name
             /\ Held(w[d.map[i].map - 2]) = Held(v[c.map[i].map - 2])
  <2>1. i \in DOMAIN c.map
    BY DEF Live
  <2>2. CASE i = par
    BY <1>1, <2>1, <2>2
  <2>3. CASE i # par
    <3>1. d.map[i].map = c.map[i].map
      BY <1>1, <2>3
    <3> QED BY <1>1, <2>1, <2>3, <3>1
  <2> QED BY <2>2, <2>3
<1> QED BY <1>1, <1>2 DEF Leads

(***************************************************************************)
(* A file that joins a tree is all that is new in it.                      *)
(***************************************************************************)
LEMMA AddedLeads ==
  ASSUME NEW v, NEW c, NEW name, NEW n, NEW par, NEW w, NEW d, NEW k,
         Joins(v, c, name, n, par, w, d, k), NEW data, w[c.lend] = data
  PROVE  Leads(w, d) = Leads(v, c) \cup {<<name, Held(data)>>}
<1>1. /\ Live(d.map) = Live(c.map) \cup {k}
      /\ \A i \in Live(c.map) : d.map[i] = c.map[i]
  BY AddGood
<1>2. /\ Good(v, c) /\ Agree(w, v, c.lend) /\ c.lend \in Nat
      /\ d.map[k] = [name |-> name, inoden |-> n, map |-> c.lend + 2]
  BY Sizes DEF Joins, AddedAt, Good, Checkpoint
<1>3. d.map[k].name = name /\ d.map[k].map - 2 = c.lend
  BY <1>2
<1>4. ASSUME NEW i \in Live(c.map) PROVE w[c.map[i].map - 2] = v[c.map[i].map - 2]
  <2>1. c.map[i].map - 2 \in Slot /\ c.map[i].map \in Nat /\ c.map[i].map < c.lend
    BY <1>2, LiveFacts
  <2>2. c.map[i].map - 2 < c.lend
    BY <1>2, <2>1
  <2> QED BY <1>2, <2>1, <2>2 DEF Agree
<1>5. \A i \in Live(c.map) :
        <<d.map[i].name, Held(w[d.map[i].map - 2])>> = <<c.map[i].name, Held(v[c.map[i].map - 2])>>
  BY <1>1, <1>4
<1>6. <<d.map[k].name, Held(w[d.map[k].map - 2])>> = <<name, Held(data)>>
  BY <1>3
<1> DEFINE P(i) == <<d.map[i].name, Held(w[d.map[i].map - 2])>>
           Q(i) == <<c.map[i].name, Held(v[c.map[i].map - 2])>>
<1>7. (\A i \in Live(c.map) : P(i) = Q(i)) /\ P(k) = <<name, Held(data)>>
  BY <1>5, <1>6
<1>8. Leads(w, d) = {P(i) : i \in Live(d.map)} /\ Leads(v, c) = {Q(i) : i \in Live(c.map)}
  BY DEF Leads
<1> HIDE DEF P, Q
<1> QED BY <1>1, <1>7, <1>8

(***************************************************************************)
(* Blocks appended to the log change nothing in a tree below them.         *)
(***************************************************************************)
LEMMA LeadsFrame ==
  ASSUME NEW v, NEW w, NEW c, Good(v, c), NEW e \in Nat, c.lend <= e, Agree(w, v, e)
  PROVE  Leads(w, c) = Leads(v, c)
<1>1. ASSUME NEW i \in Live(c.map) PROVE w[c.map[i].map - 2] = v[c.map[i].map - 2]
  <2>1. c.map[i].map - 2 \in Slot /\ c.map[i].map \in Nat /\ c.map[i].map < c.lend /\ c.lend \in Nat
    BY LiveFacts
  <2>2. c.map[i].map - 2 < e
    BY <2>1
  <2> QED BY <2>1, <2>2 DEF Agree
<1> QED BY <1>1 DEF Leads

-----------------------------------------------------------------------------
(* A running file system *)

(***************************************************************************)
(* The state as the lemmas on staging have it.                             *)
(***************************************************************************)
LEMMA RunningFacts ==
  ASSUME IInv, sound, cp # NoCp
  PROVE  /\ Running /\ Good(View, cp)
         /\ cp.map \in Seq(Entry) /\ cp.lend \in Nat /\ cp.lfst \in Nat
         /\ cp.lend < LogSize /\ cp.lfst <= cp.lend /\ cp.lend \in Slot /\ cp.lfst \in Slot
         /\ buffer \in Seq(Block) /\ Len(buffer) \in Nat /\ cp.lfst + Len(buffer) = cp.lend
         /\ log \in [Slot -> Block] /\ View \in [Slot -> Block]
         /\ Placed(log) /\ Placed(View)
         /\ cp = [map |-> cp.map, lend |-> cp.lend, lfst |-> cp.lfst]
         /\ State = Run(cp.map, cp.lend, cp.lfst, buffer, log)
         /\ \A a \in Slot : a < cp.lfst => View[a] = log[a]
<1>1. Running /\ Good(View, cp) /\ buffer \in Seq(Block) /\ Placed(log) /\ Placed(View)
  BY DEF IInv, Down, Running
<1>2. cp \in Checkpoint
  BY <1>1 DEF Good
<1>3. cp = [map |-> cp.map, lend |-> cp.lend, lfst |-> cp.lfst]
      /\ cp.map \in Seq(Entry) /\ cp.lend \in Slot /\ cp.lfst \in Slot
  BY <1>2 DEF Checkpoint
<1>4. cp.lfst + Len(buffer) = cp.lend /\ Len(buffer) \in Nat
  BY <1>1 DEF Running
<1>5. cp.lend \in Nat /\ cp.lfst \in Nat /\ cp.lend < LogSize /\ cp.lfst <= cp.lend
  BY <1>3, <1>4, Sizes
<1>6. log \in [Slot -> Block] /\ View \in [Slot -> Block]
  BY <1>1 DEF Placed
<1>7. \A a \in Slot : a < cp.lfst => View[a] = log[a]
  BY <1>5, <1>6, FilledBelow DEF View
<1>8. State = Run(cp.map, cp.lend, cp.lfst, buffer, log)
  BY <1>3 DEF State, Run
<1> QED BY <1>1, <1>3, <1>4, <1>5, <1>6, <1>7, <1>8

(***************************************************************************)
(* How far ahead of lfst an address is.                                    *)
(***************************************************************************)
LEMMA AheadFact ==
  ASSUME NEW f \in Slot, NEW a \in Slot
  PROVE  (a - f + LogSize) % LogSize = IF f <= a THEN a - f ELSE a - f + LogSize
<1>1. a \in Nat /\ f \in Nat /\ LogSize \in Nat /\ LogSize >= 12 /\ a < LogSize /\ f < LogSize
  BY Sizes
<1>2. CASE f <= a
  <2> DEFINE x == a - f
  <2>1. x \in Nat /\ x < LogSize /\ a - f + LogSize = x + LogSize
    BY <1>1, <1>2
  <2> HIDE DEF x
  <2>2. (x + LogSize) % LogSize = x
    BY <1>1, <2>1
  <2> QED BY <1>2, <2>1, <2>2 DEF x
<1>3. CASE ~(f <= a)
  <2> DEFINE x == a - f + LogSize
  <2>1. x \in Nat /\ x < LogSize
    BY <1>1, <1>3
  <2> HIDE DEF x
  <2>2. x % LogSize = x
    BY <1>1, <2>1
  <2> QED BY <1>3, <2>2 DEF x
<1> QED BY <1>2, <1>3

(***************************************************************************)
(* The blocks not yet synced are those from lfst on.                       *)
(***************************************************************************)
LEMMA UnsyncedFact ==
  ASSUME IInv, sound, cp # NoCp, NEW a \in Slot
  PROVE  /\ Unsynced(a) <=> cp.lfst <= a /\ a < cp.lend
         /\ cp.lfst <= a => Ahead(a) = a - cp.lfst
<1>1. Ahead(a) = IF cp.lfst <= a THEN a - cp.lfst ELSE a - cp.lfst + LogSize
  BY RunningFacts, AheadFact DEF Ahead
<1>2. a \in Nat /\ LogSize \in Nat
  BY Sizes
<1>3. Unsynced(a) <=> Ahead(a) < Len(buffer)
  BY DEF Unsynced
<1> QED BY <1>1, <1>2, <1>3, RunningFacts

(***************************************************************************)
(* Another map is set in the checkpoint.                                   *)
(***************************************************************************)
LEMMA WithMapEffect ==
  ASSUME NEW m, NEW e, NEW f, NEW b, NEW l, NEW new
  PROVE  WithMap(Run(m, e, f, b, l), new) = Run(new, e, f, b, l)
<1> DEFINE c == [map |-> m, lend |-> e, lfst |-> f]
<1>1. [c EXCEPT !.map = new] = [map |-> new, lend |-> e, lfst |-> f]
  OBVIOUS
<1> HIDE DEF c
<1>2. WithMap([cp |-> c, buffer |-> b, log |-> l], new)
        = [cp |-> [c EXCEPT !.map = new], buffer |-> b, log |-> l]
  BY DEF WithMap
<1> QED BY <1>1, <1>2 DEF Run, c

(***************************************************************************)
(* The last block staged.                                                  *)
(***************************************************************************)
LEMMA StagedAt ==
  ASSUME NEW m, NEW e \in Nat, NEW f, NEW b, NEW l, e < LogSize, e > 0
  PROVE  Staged(Run(m, e, f, b, l)) = e - 1
<1> DEFINE x == e - 1
<1>1. x \in Nat /\ x + 1 < LogSize /\ e + LogSize - 1 = x + LogSize
  BY Sizes
<1> HIDE DEF x
<1>2. (x + LogSize) % LogSize = x
  BY <1>1, NoWrap
<1> QED BY <1>1, <1>2 DEF x, Staged, Run

(***************************************************************************)
(* The three blocks of a file are in place where they are staged.          *)
(***************************************************************************)
LEMMA PlacedFile ==
  ASSUME NEW v, Placed(v), NEW w, NEW e \in Nat, NEW d, NEW n, NEW t,
         d.type \in {"fdata", "ddata"},
         FileAt(w, v, e, d, Inode(n, t, e), Imap(n, e + 1))
  PROVE  Placed(w)
<1>0. w \in [Slot -> Block]
  BY DEF FileAt
<1> SUFFICES ASSUME NEW a \in Slot PROVE InPlace(w[a], a)
  BY <1>0 DEF Placed
<1>1. w[a] \in Block /\ a \in Nat
  BY <1>0, Sizes
<1>2. CASE a = e
  BY <1>1, <1>2 DEF InPlace, FileAt
<1>3. CASE a = e + 1
  <2>1. w[a].type = "inode" /\ w[a].idata = a - 1
    BY <1>1, <1>3, Constructors DEF FileAt
  <2> QED BY <1>1, <2>1 DEF InPlace
<1>4. CASE a = e + 2
  <2>1. w[a].type = "imap" /\ w[a].inode = a - 1
    BY <1>1, <1>4, Constructors DEF FileAt
  <2> QED BY <1>1, <2>1 DEF InPlace
<1>5. CASE a \notin {e, e + 1, e + 2}
  BY <1>5 DEF Placed, FileAt
<1> QED BY <1>2, <1>3, <1>4, <1>5

(***************************************************************************)
(* What is loaded from an address of the log, and from the null address.   *)
(***************************************************************************)
LEMMA LoadFact ==
  /\ \A s : \A a \in Slot : Load(s, a) = s.log[a]
  /\ \A s : Load(s, Null) = Zero
  /\ Null \notin Slot
<1>1. Null \notin Slot
  BY Sizes DEF Null
<1> QED BY <1>1 DEF Load

-----------------------------------------------------------------------------
(* fs_mkfile *)

(***************************************************************************)
(* The directory that fs_mkfile finds on the disk is that of a live entry. *)
(***************************************************************************)
LEMMA ParentFacts ==
  ASSUME IInv, sound, cp # NoCp, NEW dir, Found(dir) # {},
         \A i \in Found(dir) : ~Unsynced(cp.map[i].map),
         NEW pin, pin = GetInoden(dir),
         NEW pimap, pimap = GetImap(State, pin),
         NEW pinode, pinode = GetInode(State, pimap, pin),
         pinode.type = "inode", pinode.ftype = "dir"
  PROVE  \E par \in Live(cp.map) :
           /\ cp.map[par].name = dir /\ pin = cp.map[par].inoden
           /\ cp.map[par].map - 2 \in Slot
           /\ pimap = Imap(pin, cp.map[par].map - 1)
           /\ pinode = Inode(pin, "dir", cp.map[par].map - 2)
           /\ log[cp.map[par].map - 2] = View[cp.map[par].map - 2]
           /\ View[cp.map[par].map - 2].type = "ddata"
<1> DEFINE par == CHOOSE i \in Found(dir) : \A j \in Found(dir) : i <= j
           is == {i \in DOMAIN State.cp.map : State.cp.map[i].inoden = pin}
           m == cp.map[par].map
<1>1. /\ Good(View, cp) /\ cp.map \in Seq(Entry) /\ State.cp = cp /\ State.log = log
      /\ DOMAIN cp.map = 1 .. Len(cp.map) /\ Len(cp.map) \in Nat
  BY RunningFacts DEF State
<1>2. par \in Found(dir)
  <2>1. Found(dir) \subseteq Nat
    BY <1>1 DEF Found
  <2> QED BY <2>1, FirstIndex
<1>3. pin = cp.map[par].inoden
  BY DEF GetInoden
<1> HIDE DEF par
<1>4. par \in DOMAIN cp.map /\ cp.map[par].name = dir /\ par \in Nat
  BY <1>1, <1>2 DEF Found
<1>5. is = {par}
  BY <1>1, <1>3, <1>4 DEF Good, Named
<1>6. (CHOOSE i \in is : \A j \in is : i <= j) = par
  BY <1>4, <1>5
<1>7. pimap = Load(State, m)
  BY <1>1, <1>5, <1>6 DEF GetImap
<1>9. Null \notin Slot
  BY Sizes DEF Null
<1>10. ASSUME m = Null PROVE FALSE
  <2>1. pimap = Zero
    BY <1>7, <1>9, <1>10 DEF Load
  <2>2. pinode = Zero \/ pinode = Junk
    BY <1>9, <2>1, Constructors DEF GetInode, Load
  <2> QED BY <2>2, Constructors
<1>11. par \in Live(cp.map)
  BY <1>1, <1>4, <1>10, EntryFacts
<1>12. /\ Chain(View, pin, m) /\ m \in Nat
       /\ m \in Slot /\ m - 1 \in Slot /\ m - 2 \in Slot /\ m < cp.lend
  BY <1>1, <1>3, <1>11, LiveFacts
<1>13. m < cp.lfst
  <2>1. ~Unsynced(m)
    BY <1>2
  <2> QED BY <1>12, <2>1, UnsyncedFact, RunningFacts
<1> HIDE DEF m
<1>14. log[m] = View[m] /\ log[m - 1] = View[m - 1] /\ log[m - 2] = View[m - 2]
  <2>1. m - 1 < cp.lfst /\ m - 2 < cp.lfst
    BY <1>12, <1>13, RunningFacts
  <2> QED BY <1>12, <1>13, <2>1, RunningFacts
<1>15. pimap = Imap(pin, m - 1)
  <2>1. pimap = log[m]
    BY <1>1, <1>7, <1>12, LoadFact
  <2>2. View[m] = Imap(pin, m - 1)
    BY <1>12 DEF Chain
  <2> QED BY <1>14, <2>1, <2>2
<1>16. pinode = View[m - 1]
  <2>1. pimap.type = "imap" /\ pimap.inoden = pin /\ pimap.inode = m - 1
    BY <1>15, Constructors
  <2>2. pinode = Load(State, m - 1)
    BY <2>1 DEF GetInode
  <2> QED BY <1>1, <1>12, <1>14, <2>2, LoadFact
<1>17. pinode = Inode(pin, "dir", m - 2) /\ View[m - 2].type = "ddata"
  BY <1>12, <1>16, Constructors DEF Chain
<1> QED BY <1>3, <1>4, <1>11, <1>12, <1>14, <1>15, <1>17 DEF m

(***************************************************************************)
(* A directory's listing with one name more, if it has room for it.        *)
(***************************************************************************)
LEMMA ListingFact ==
  ASSUME NEW d \in Block, d.type = "ddata", NEW name \in Names
  PROVE  /\ Listing(d, name) \in Block /\ Listing(d, name).type = "ddata"
         /\ Lists(Listing(d, name), name)
         /\ \A other : Lists(d, other) => Lists(Listing(d, name), other)
<1>1. /\ d = Ddata(d.names, d.room) /\ d.names \subseteq Names /\ d.room \in 0 .. MAX_DIR_FILES
      /\ MAX_DIR_FILES \in Nat
  BY Shapes, LfsAssumption
<1>2. CASE d.room > 0
  <2>1. Listing(d, name) = Ddata(d.names \cup {name}, d.room - 1)
    BY <1>1, <1>2 DEF Listing
  <2>2. d.room - 1 \in 0 .. MAX_DIR_FILES /\ d.names \cup {name} \subseteq Names /\ d.room # 0
    BY <1>1, <1>2
  <2> QED BY <2>1, <2>2, Constructors DEF Lists
<1>3. CASE ~(d.room > 0)
  <2>1. d.room = 0
    BY <1>1, <1>3
  <2>2. Listing(d, name) = d
    BY <1>3, <2>1 DEF Listing
  <2> QED BY <2>1, <2>2 DEF Lists
<1> QED BY <1>2, <1>3

(***************************************************************************)
(* What fs_mkfile stages and sets, once it has found the directory.        *)
(***************************************************************************)
LEMMA MkfileStages ==
  ASSUME NEW map, NEW e \in Nat, NEW f \in Nat, NEW b \in Seq(Block), NEW l \in [Slot -> Block],
         Ends(f, b, e), e + 6 < LogSize,
         NEW v, IsFilled(v, f, b, l), Placed(v),
         NEW name \in Names, NEW data, NEW ftype, Content(data, ftype),
         NEW n \in 0 .. MaxInoden,
         NEW pin \in 0 .. MaxInoden, NEW q \in Nat, q + 1 < LogSize,
         l[q] = v[q], v[q].type = "ddata",
         NEW s1, NEW new, NEW s2, NEW s3,
         Stages(Run(map, e, f, b, l), data, name, n, ftype, pin, q, s1, new, s2, s3)
  PROVE  /\ new = AddCrEntry(map, [name |-> name, inoden |-> n, map |-> e + 2])
         /\ \E b2 \in Seq(Block) :
              /\ WithMap(s3, SetCrMap(s3.cp.map, pin, Staged(s3)))
                   = Run(SetCrMap(new, pin, e + 5), e + 6, f, b2, l)
              /\ Ends(f, b2, e + 6)
              /\ Made(Filled(f, b2, l), v, e, data, Inode(n, ftype, e), Imap(n, e + 1),
                      Listing(v[q], name), Inode(pin, "dir", e + 3), Imap(pin, e + 4))
<1> DEFINE listing == Listing(v[q], name)
           n1 == Inode(n, ftype, e)
           i1 == Imap(n, e + 1)
           e2 == e + 3
           n2 == Inode(pin, "dir", e2)
           i2 == Imap(pin, e2 + 1)
           b1 == WithFile(b, data, n1, i1)
           b2 == WithFile(b1, listing, n2, i2)
           w1 == Filled(f, b1, l)
           w == Filled(f, b2, l)
<1>0. data \in Block /\ ftype \in {"dir", "file"} /\ data.type \in {"fdata", "ddata"}
  BY DEF Content
<1>view. v = Filled(f, b, l)
  BY DEF IsFilled
<1>slot. q \in Slot /\ q + 1 \in Slot
  BY Sizes
<1>1. /\ Inode(n, ftype, Null) \in Block /\ Imap(n, Null) \in Block
      /\ Inode(n, ftype, Null).type = "inode" /\ Imap(n, Null).type = "imap"
      /\ Inode(n, ftype, Null).num = n /\ Inode(n, ftype, Null).ftype = ftype
      /\ Imap(n, Null).inoden = n
      /\ Inode(pin, "dir", q) \in Block /\ Imap(pin, q + 1) \in Block
      /\ Inode(pin, "dir", q).type = "inode" /\ Imap(pin, q + 1).type = "imap"
      /\ Inode(pin, "dir", q).num = pin /\ Inode(pin, "dir", q).ftype = "dir"
      /\ Imap(pin, q + 1).inoden = pin
  <2>1. Null \in Address /\ q \in Address /\ q + 1 \in Address
    BY <1>slot DEF Address
  <2> QED BY <1>0, <2>1, Constructors
<1>2. listing \in Block /\ listing.type = "ddata"
  <2>1. v[q] \in Block
    BY <1>slot DEF Placed
  <2> QED BY <2>1, ListingFact
<1>3. n1 \in Block /\ i1 \in Block /\ n2 \in Block /\ i2 \in Block
  <2>1. e \in Address /\ e + 1 \in Address /\ e2 \in Address /\ e2 + 1 \in Address
    BY Sizes DEF Address
  <2> QED BY <1>0, <2>1, Constructors
<1>4. e2 \in Nat /\ e2 + 3 < LogSize /\ e + 3 < LogSize /\ Len(b) + 3 < LogSize
      /\ e2 < LogSize /\ e2 > 0 /\ e2 - 1 = e + 2 /\ e + 3 = e2
      /\ e2 + 3 > 0 /\ e2 + 3 \in Nat /\ e2 + 3 - 1 = e + 5 /\ e2 + 3 = e + 6 /\ e2 + 1 = e + 4
  BY Sizes DEF Ends
<1> HIDE DEF e2
<1>stages. /\ s1 = StageFile(Run(map, e, f, b, l), data, Inode(n, ftype, Null), Imap(n, Null))
           /\ new = AddCrEntry(s1.cp.map, [name |-> name, inoden |-> n, map |-> Staged(s1)])
           /\ s2 = WithMap(s1, new)
           /\ s3 = StageFile(s2, Listing(Load(s2, q), name), Inode(pin, "dir", q), Imap(pin, q + 1))
  BY DEF Stages
<1>5. s1 = Run(map, e2, f, b1, l)
  BY <1>0, <1>1, <1>4, <1>stages, StageFileEffect
<1> HIDE DEF n1, i1, n2, i2, listing
<1>6. FileAt(w1, v, e, data, n1, i1) /\ b1 \in Seq(Block) /\ Ends(f, b1, e2)
  BY <1>0, <1>view, <1>3, <1>4, FileFilled
<1> HIDE DEF b1
<1>7. Staged(s1) = e + 2 /\ s1.cp.map = map
  <2>1. Staged(s1) = e2 - 1
    BY <1>4, <1>5, StagedAt
  <2> QED BY <1>4, <1>5, <2>1 DEF Run
<1>8. new = AddCrEntry(map, [name |-> name, inoden |-> n, map |-> e + 2])
  BY <1>7, <1>stages
<1>9. s2 = Run(new, e2, f, b1, l)
  <2>1. s2 = WithMap(s1, new)
    BY <1>stages
  <2> QED BY <1>5, <2>1, WithMapEffect
<1>10. Load(s2, q) = v[q]
  <2>1. s2.log = l
    BY <1>9 DEF Run
  <2> QED BY <1>slot, <2>1, LoadFact
<1>11. s3 = Run(new, e2 + 3, f, b2, l)
  <2>1. Len(b1) + 3 < LogSize
    BY <1>4, <1>6, Sizes DEF Ends
  <2>2. s3 = StageFile(Run(new, e2, f, b1, l), listing, Inode(pin, "dir", q), Imap(pin, q + 1))
    BY <1>9, <1>10, <1>stages DEF listing
  <2>3. s3 = Run(new, e2 + 3, f,
                 WithFile(b1, listing, Inode(pin, "dir", e2), Imap(pin, e2 + 1)), l)
    <3> DEFINE dn == Inode(pin, "dir", q)
               di == Imap(pin, q + 1)
    <3>1. /\ dn \in Block /\ di \in Block /\ dn.type = "inode" /\ di.type = "imap"
          /\ dn.num = pin /\ dn.ftype = "dir" /\ di.inoden = pin
      BY <1>1
    <3>2. s3 = StageFile(Run(new, e2, f, b1, l), listing, dn, di)
      BY <2>2
    <3> HIDE DEF dn, di
    <3>3. StageFile(Run(new, e2, f, b1, l), listing, dn, di)
            = Run(new, e2 + 3, f,
                  WithFile(b1, listing, Inode(dn.num, dn.ftype, e2), Imap(di.inoden, e2 + 1)), l)
      BY <1>2, <1>4, <1>6, <2>1, <3>1, StageFileEffect
    <3> QED BY <3>1, <3>2, <3>3
  <2> QED BY <2>3 DEF n2, i2
<1>12. FileAt(w, w1, e2, listing, n2, i2) /\ b2 \in Seq(Block) /\ Ends(f, b2, e2 + 3)
  BY <1>2, <1>3, <1>4, <1>6, FileFilled
<1> HIDE DEF b2
<1>13. WithMap(s3, SetCrMap(s3.cp.map, pin, Staged(s3)))
         = Run(SetCrMap(new, pin, e + 5), e + 6, f, b2, l)
  <2>1. Staged(s3) = e2 + 3 - 1
    BY <1>4, <1>11, StagedAt
  <2>2. Staged(s3) = e + 5
    BY <1>4, <2>1
  <2>3. s3.cp.map = new
    BY <1>11 DEF Run
  <2>4. WithMap(s3, SetCrMap(new, pin, e + 5)) = Run(SetCrMap(new, pin, e + 5), e2 + 3, f, b2, l)
    BY <1>11, WithMapEffect
  <2> QED BY <1>4, <2>2, <2>3, <2>4
<1>14. Made(w, v, e, data, n1, i1, listing, n2, i2)
  BY <1>4, <1>6, <1>12 DEF Made
<1>15. n2 = Inode(pin, "dir", e + 3) /\ i2 = Imap(pin, e + 4)
  BY <1>4 DEF n2, i2
<1>16. Made(Filled(f, b2, l), v, e, data, Inode(n, ftype, e), Imap(n, e + 1),
            Listing(v[q], name), Inode(pin, "dir", e + 3), Imap(pin, e + 4))
  BY <1>14, <1>15 DEF n1, i1, listing
<1> QED BY <1>4, <1>8, <1>12, <1>13, <1>16

(***************************************************************************)
(* What fs_mkfile changes, used within its bounds.                         *)
(***************************************************************************)
LEMMA MkfileEffect ==
  ASSUME IInv, NEW name \in Names \ {Root}, NEW parent, NEW data, NEW ftype,
         Content(data, ftype), fs_mkfile(name, parent, data, ftype), sound'
  PROVE  /\ sound /\ cp # NoCp /\ log' = log /\ saved' = saved /\ Found(name) = {}
         /\ \E n \in 0 .. MaxInoden, par \in Live(cp.map), e \in Nat :
              MkfileMade(name, data, ftype, n, par, e)
<1>1. PICK n : n = GetMaxInoden(cp.map) + 1
  OBVIOUS
<1>2. PICK pin : pin = GetInoden(parent)
  OBVIOUS
<1>3. PICK pimap : pimap = GetImap(State, pin)
  OBVIOUS
<1>4. PICK pinode : pinode = GetInode(State, pimap, pin)
  OBVIOUS
<1>5. PICK s1 : s1 = StageFile(State, data, Inode(n, ftype, Null), Imap(n, Null))
  OBVIOUS
<1>6. PICK new : new = AddCrEntry(s1.cp.map, [name |-> name, inoden |-> n, map |-> Staged(s1)])
  OBVIOUS
<1>7. PICK s2 : s2 = WithMap(s1, new)
  OBVIOUS
<1>8. PICK s3 : s3 = StageFile(s2, Listing(Load(s2, pinode.idata), name), pinode, pimap)
  OBVIOUS
<1>9. /\ cp # NoCp /\ Found(name) = {} /\ Found(parent) # {}
      /\ n <= MaxInoden /\ pinode.type = "inode" /\ pinode.ftype = "dir"
      /\ Becomes(WithMap(s3, SetCrMap(s3.cp.map, pin, Staged(s3)))) /\ saved' = saved
      /\ sound /\ Fits(6) /\ parent = Parent[name]
      /\ \A i \in Found(parent) : ~Unsynced(cp.map[i].map)
  BY <1>1, <1>2, <1>3, <1>4, <1>5, <1>6, <1>7, <1>8, ZenonT(40) DEF fs_mkfile
<1>10. PICK par \in Live(cp.map) :
        /\ cp.map[par].name = Parent[name] /\ pin = cp.map[par].inoden
        /\ cp.map[par].map - 2 \in Slot
        /\ pimap = Imap(pin, cp.map[par].map - 1)
        /\ pinode = Inode(pin, "dir", cp.map[par].map - 2)
        /\ log[cp.map[par].map - 2] = View[cp.map[par].map - 2]
        /\ View[cp.map[par].map - 2].type = "ddata"
  <2>1. /\ cp # NoCp /\ Found(parent) # {} /\ sound
        /\ \A i \in Found(parent) : ~Unsynced(cp.map[i].map)
        /\ pinode.type = "inode" /\ pinode.ftype = "dir"
    BY <1>9
  <2>2. parent = Parent[name]
    BY <1>9
  <2> QED BY <1>2, <1>3, <1>4, <2>1, <2>2, ParentFacts
<1> DEFINE q == cp.map[par].map - 2
           e == cp.lend
           f == cp.lfst
           v == View
<1>11. /\ q \in Slot /\ pinode = Inode(pin, "dir", q) /\ pinode.idata = q
       /\ log[q] = v[q] /\ v[q].type = "ddata"
  BY <1>10, Constructors
<1>12. /\ Ends(f, buffer, e) /\ buffer \in Seq(Block) /\ log \in [Slot -> Block]
       /\ State = Run(cp.map, e, f, buffer, log) /\ e \in Nat /\ f \in Nat
       /\ v = Filled(f, buffer, log) /\ Placed(v) /\ Good(View, cp)
  BY <1>9, RunningFacts DEF View, Ends
<1>13. e + 6 < LogSize
  BY <1>9 DEF Fits
<1>14. n \in 0 .. MaxInoden
  <2>1. GetMaxInoden(cp.map) \in Nat
    BY <1>12, MaxInodenFact, EntryFacts
  <2> QED BY <1>1, <1>9, <2>1, LfsAssumption
<1>15. pin \in 0 .. MaxInoden /\ q + 1 \in Slot /\ pimap = Imap(pin, q + 1)
  <2>1. q + 1 = cp.map[par].map - 1
    BY <1>10, <1>12, LiveFacts
  <2> QED BY <1>10, <1>12, <2>1, LiveFacts
<1>16. s3 = StageFile(s2, Listing(Load(s2, q), name), Inode(pin, "dir", q), Imap(pin, q + 1))
  BY <1>8, <1>11, <1>15
<1> HIDE DEF q, e, f, v
<1>17. s1 = StageFile(Run(cp.map, e, f, buffer, log), data, Inode(n, ftype, Null), Imap(n, Null))
  BY <1>5, <1>12
<1>18. /\ new = AddCrEntry(cp.map, [name |-> name, inoden |-> n, map |-> e + 2])
       /\ \E b2 \in Seq(Block) :
            /\ WithMap(s3, SetCrMap(s3.cp.map, pin, Staged(s3)))
                 = Run(SetCrMap(new, pin, e + 5), e + 6, f, b2, log)
            /\ Ends(f, b2, e + 6)
            /\ Made(Filled(f, b2, log), v, e, data, Inode(n, ftype, e), Imap(n, e + 1),
                    Listing(v[q], name), Inode(pin, "dir", e + 3), Imap(pin, e + 4))
  <2>1. Stages(Run(cp.map, e, f, buffer, log), data, name, n, ftype, pin, q, s1, new, s2, s3)
    BY <1>6, <1>7, <1>16, <1>17 DEF Stages
  <2>2. IsFilled(v, f, buffer, log)
    BY <1>12 DEF IsFilled
  <2>3. /\ e \in Nat /\ f \in Nat /\ buffer \in Seq(Block) /\ log \in [Slot -> Block]
        /\ Ends(f, buffer, e) /\ Placed(v) /\ name \in Names
    BY <1>12
  <2>4. /\ q \in Nat /\ q + 1 < LogSize /\ log[q] = v[q] /\ v[q].type = "ddata"
        /\ pin \in 0 .. MaxInoden
    BY <1>11, <1>15, Sizes
  <2> QED BY <1>13, <1>14, <2>1, <2>2, <2>3, <2>4, MkfileStages
<1>19. PICK b2 \in Seq(Block) :
            /\ WithMap(s3, SetCrMap(s3.cp.map, pin, Staged(s3)))
                 = Run(SetCrMap(new, pin, e + 5), e + 6, f, b2, log)
            /\ Ends(f, b2, e + 6)
            /\ Made(Filled(f, b2, log), v, e, data, Inode(n, ftype, e), Imap(n, e + 1),
                    Listing(v[q], name), Inode(pin, "dir", e + 3), Imap(pin, e + 4))
  BY <1>18
<1>20. /\ cp' = [map |-> SetCrMap(new, pin, e + 5), lend |-> e + 6, lfst |-> f]
       /\ buffer' = b2 /\ log' = log
  BY <1>9, <1>19 DEF Becomes, Run
<1>21. cp'.lfst = f /\ View' = Filled(f, b2, log)
  BY <1>20 DEF View
<1>22. MkfileMade(name, data, ftype, n, par, e)
  BY <1>1, <1>10, <1>11, <1>13, <1>18, <1>19, <1>20, <1>21 DEF MkfileMade, Added, IsCp, e, f, q, v
<1> QED BY <1>9, <1>10, <1>12, <1>14, <1>20, <1>22

(***************************************************************************)
(* The three blocks of a file are a chain.                                 *)
(***************************************************************************)
LEMMA FileChain ==
  ASSUME NEW e \in Nat, e + 3 < LogSize, NEW w, NEW v, NEW n, NEW data, NEW ftype,
         Content(data, ftype), FileAt(w, v, e, data, Inode(n, ftype, e), Imap(n, e + 1))
  PROVE  Chain(w, n, e + 2)
<1>1. w[e] = data /\ w[e + 1] = Inode(n, ftype, e) /\ w[e + 2] = Imap(n, e + 1)
  BY DEF FileAt
<1>2. e + 2 \in 2 .. LogSize - 1 /\ e + 2 - 1 = e + 1 /\ e + 2 - 2 = e
  BY Sizes
<1> DEFINE m == e + 2
<1>3. m \in 2 .. LogSize - 1 /\ m - 1 = e + 1 /\ m - 2 = e /\ w[m] = Imap(n, e + 1)
  BY <1>1, <1>2
<1> HIDE DEF m
<1>4. Chain(w, n, m)
  BY <1>1, <1>3 DEF Chain, Content
<1> QED BY <1>4 DEF m

(***************************************************************************)
(* A directory is led to a listing with the new name: every name but this  *)
(* one was listed before.                                                  *)
(***************************************************************************)
LEMMA ListGood ==
  ASSUME NEW v, NEW c, NEW par, NEW m, NEW w, NEW d, Moves(v, c, par, m, w, d),
         NEW name \in Names, ListedBut(v, c.map, name), c.map[par].name = Parent[name],
         NEW old \in Block, old.type = "ddata",
         DataAt(v, c.map[par].map, old), DataAt(w, m, Listing(old, name))
  PROVE  Good(w, d)
<1>1. /\ Named(d.map) /\ Chained(w, d.map, d.lend) /\ Closed(d.map)
      /\ Live(d.map) = Live(c.map) /\ DOMAIN d.map = DOMAIN c.map
      /\ \A i \in DOMAIN c.map :
           d.map[i].name = c.map[i].name /\ d.map[i].inoden = c.map[i].inoden
      /\ \A i \in Live(c.map) : i # par =>
           d.map[i] = c.map[i] /\ w[c.map[i].map - 2] = v[c.map[i].map - 2]
      /\ d.map[par].map = m
  BY MoveGood
<1>0. /\ d \in Checkpoint /\ Named(c.map) /\ par \in Live(c.map)
  BY DEF Moves
<1>2. \A i \in Live(c.map) : i \in DOMAIN c.map /\ d.map[i].name = c.map[i].name
  BY <1>1 DEF Live
<1>3. v[c.map[par].map - 2] = old /\ w[m - 2] = Listing(old, name)
  BY DEF DataAt
<1>4. Lists(Listing(old, name), name)
      /\ \A other : Lists(old, other) => Lists(Listing(old, name), other)
  BY ListingFact
<1>5. ASSUME NEW i \in Live(d.map), NEW j \in Live(d.map),
             d.map[i].name # Root, d.map[j].name = Parent[d.map[i].name]
      PROVE  Lists(w[d.map[j].map - 2], d.map[i].name)
  <2>1. i \in Live(c.map) /\ j \in Live(c.map)
        /\ c.map[i].name # Root /\ c.map[j].name = Parent[c.map[i].name]
    BY <1>1, <1>2, <1>5
  <2>2. CASE j = par /\ c.map[i].name = name
    BY <1>1, <1>2, <1>3, <1>4, <2>1, <2>2
  <2>3. CASE j = par /\ c.map[i].name # name
    <3>1. Lists(old, c.map[i].name)
      BY <1>3, <2>1, <2>3 DEF ListedBut
    <3> QED BY <1>1, <1>2, <1>3, <1>4, <2>1, <2>3, <3>1
  <2>4. CASE j # par
    <3>1. c.map[i].name # name
      BY <1>0, <1>2, <2>1, <2>4 DEF Named
    <3>2. Lists(v[c.map[j].map - 2], c.map[i].name)
      BY <2>1, <3>1 DEF ListedBut
    <3>3. d.map[j] = c.map[j] /\ w[c.map[j].map - 2] = v[c.map[j].map - 2]
      BY <1>1, <2>1, <2>4
    <3> QED BY <1>2, <2>1, <3>2, <3>3
  <2> QED BY <2>2, <2>3, <2>4
<1>6. Listed(w, d.map)
  BY <1>5 DEF Listed
<1> QED BY <1>0, <1>1, <1>6 DEF Good

(***************************************************************************)
(* After fs_mkfile the checkpoint leads to a tree.                         *)
(***************************************************************************)
LEMMA MadeGood ==
  ASSUME NEW v, Placed(v), NEW c, Good(v, c),
         NEW name \in Names \ {Root}, 
         NEW data, NEW ftype, Content(data, ftype),
         NEW n \in 0 .. MaxInoden, Fresh(c.map, name, n),
         NEW par \in Live(c.map), c.map[par].name = Parent[name],
         NEW e \in Nat, CpEnds(c, e), e + 6 < LogSize,
         NEW q \in Slot, q = c.map[par].map - 2, v[q].type = "ddata",
         NEW w, Made(w, v, e, data, Inode(n, ftype, e), Imap(n, e + 1), Listing(v[q], name),
                     Inode(c.map[par].inoden, "dir", e + 3), Imap(c.map[par].inoden, e + 4)),
         NEW new, Added(new, c.map, [name |-> name, inoden |-> n, map |-> e + 2]),
         NEW d, IsCp(d, SetCrMap(new, c.map[par].inoden, e + 5), e + 6, c.lfst)
  PROVE  Good(w, d) /\ Placed(w) /\ Agree(w, v, e) /\ Grown(w, d, v, c, name, data)
<1> DEFINE pin == c.map[par].inoden
           entry == [name |-> name, inoden |-> n, map |-> e + 2]
<1>lend. c.lend = e
  BY DEF CpEnds
<1>1. PICK w1 : /\ FileAt(w1, v, e, data, Inode(n, ftype, e), Imap(n, e + 1))
                /\ FileAt(w, w1, e + 3, Listing(v[q], name),
                          Inode(pin, "dir", e + 3), Imap(pin, e + 4))
  BY DEF Made
<1>2. e + 3 \in Nat /\ e + 3 + 3 < LogSize /\ e + 3 < LogSize
  BY Sizes
<1>3. Content(Listing(v[q], name), "dir")
  <2>1. v[q] \in Block
    BY DEF Placed
  <2> QED BY <2>1, ListingFact DEF Content
<1>4. Chain(w1, n, e + 2)
  BY <1>1, <1>2, FileChain
<1>5. PICK e2 \in Nat : e2 = e + 3
  BY <1>2
<1>6. /\ FileAt(w, w1, e2, Listing(v[q], name), Inode(pin, "dir", e2), Imap(pin, e2 + 1))
      /\ e2 + 3 < LogSize
  BY <1>1, <1>2, <1>5
<1>7. Chain(w, pin, e2 + 2)
  BY <1>3, <1>6, FileChain
<1>8. Placed(w1)
  <2>1. data.type \in {"fdata", "ddata"}
    BY DEF Content
  <2> QED BY <1>1, <2>1, PlacedFile
<1>9. Placed(w)
  <2>1. Listing(v[q], name).type \in {"fdata", "ddata"}
    BY <1>3 DEF Content
  <2> QED BY <1>6, <1>8, <2>1, PlacedFile
<1>10. Agree(w1, v, e) /\ Agree(w, w1, e2)
  <2>1. \A a \in Nat : (a < e => a \notin {e, e + 1, e + 2})
                       /\ (a < e2 => a \notin {e2, e2 + 1, e2 + 2})
    OBVIOUS
  <2>2. \A a \in Slot : a \in Nat
    BY Sizes
  <2> QED BY <1>1, <1>6, <2>1, <2>2 DEF FileAt, Agree
<1>11. Agree(w, v, e)
  <2>1. \A a \in Nat : a < e => a < e2
    BY <1>5
  <2>2. \A a \in Slot : a \in Nat
    BY Sizes
  <2> QED BY <1>10, <2>1, <2>2 DEF Agree
<1>12. /\ entry \in Entry /\ e + 2 \in Slot /\ e + 5 \in Slot /\ e2 \in Slot /\ e + 6 \in Slot
       /\ c.map \in Seq(Entry) /\ c.lfst \in Slot /\ name \in Names
       /\ e + 5 \in Nat /\ e + 5 \in Address /\ e2 + 2 = e + 5 /\ e + 5 - 2 = e2 /\ e2 <= e + 6 /\ e + 5 < e + 6
       /\ e <= e + 6
  <2>1. e + 2 \in Slot /\ e + 5 \in Slot /\ e + 3 \in Slot /\ e + 6 \in Slot
    BY Sizes
  <2>2. entry \in Entry
    BY <2>1 DEF Entry, Address
  <2>3. c.map \in Seq(Entry) /\ c.lfst \in Slot
    BY DEF Good, Checkpoint
  <2> QED BY <1>5, <2>1, <2>2, <2>3 DEF Address
<1>13. w[e + 5 - 2] = Listing(v[q], name)
  BY <1>6, <1>12 DEF FileAt
<1>entry. Added(new, c.map, entry)
  OBVIOUS
<1> HIDE DEF entry
<1>14. new \in Seq(Entry)
       /\ \/ new = c.map
          \/ \E k : AddedAt(new, c.map, k, entry)
  BY <1>12, <1>entry, AddEffect
<1>15. d.lend = e + 6 /\ d.map = SetCrMap(new, pin, e + 5) /\ d.lfst = c.lfst
       /\ d = [map |-> d.map, lend |-> d.lend, lfst |-> d.lfst]
  BY DEF IsCp
<1>old. v[q] \in Block /\ DataAt(v, c.map[par].map, v[q]) /\ DataAt(w, e + 5, Listing(v[q], name))
  BY <1>13 DEF Placed, DataAt
<1>held. Held(w[e + 5 - 2]) = Dir /\ Held(v[c.map[par].map - 2]) = Dir
  BY <1>3, <1>13 DEF Held, Content
<1>16. CASE new = c.map
  <2>1. d \in Checkpoint
    <3>1. Named(c.map) /\ par \in DOMAIN c.map
      BY DEF Good, Live
    <3>2. SetCrMap(c.map, pin, e + 5) \in Seq(Entry)
      BY <1>12, <3>1, SetEffect
    <3> QED BY <1>12, <1>15, <1>16, <3>2 DEF Checkpoint
  <2>2. c \in Checkpoint /\ Named(c.map) /\ Chained(v, c.map, c.lend) /\ Closed(c.map)
        /\ Listed(v, c.map)
    BY DEF Good
  <2>3. ListedBut(v, c.map, name)
    BY <2>2 DEF Listed, ListedBut
  <2>4. d.map = SetCrMap(c.map, pin, e + 5) /\ c.lend <= d.lend /\ e + 5 < d.lend
    BY <1>lend, <1>12, <1>15, <1>16
  <2>5. Chain(w, pin, e + 5)
    BY <1>7, <1>12
  <2>6. Agree(w, v, c.lend)
    BY <1>lend, <1>11
  <2>7. Good(w, d) /\ Leads(w, d) = Leads(v, c)
    <3>1. Moves(v, c, par, e + 5, w, d)
      BY <1>12, <2>1, <2>2, <2>4, <2>5, <2>6 DEF Moves
    <3>2. Leads(w, d) = Leads(v, c)
      BY <1>held, <3>1, MovedLeads
    <3> QED BY <1>old, <1>12, <2>3, <3>1, <3>2, ListGood
  <2> QED BY <1>9, <1>11, <2>7 DEF Grown
<1>17. CASE \E k : AddedAt(new, c.map, k, entry)
  <2>1. PICK k : AddedAt(new, c.map, k, entry)
    BY <1>17
  <2>2. PICK c1 : c1 = [map |-> new, lend |-> e2, lfst |-> c.lfst]
    OBVIOUS
  <2>3. c1 \in Checkpoint /\ c1.map = new /\ c1.lend = e2
    BY <1>12, <1>14, <2>2 DEF Checkpoint
  <2>4. c1.lend = c.lend + 3 /\ c.lend + 2 = e + 2 /\ c.lend + 3 < LogSize
    BY <1>lend, <1>2, <1>5, <2>3
  <2>5. AddedAt(c1.map, c.map, k, [name |-> name, inoden |-> n, map |-> c.lend + 2])
    BY <2>1, <2>3, <2>4 DEF entry
  <2>6. Chain(w1, n, c.lend + 2) /\ Agree(w1, v, c.lend)
    BY <1>lend, <1>4, <1>10
  <2>joins. Joins(v, c, name, n, par, w1, c1, k)
    BY <2>3, <2>4, <2>5, <2>6 DEF Joins
  <2>7. /\ Named(c1.map) /\ Chained(w1, c1.map, c1.lend) /\ Closed(c1.map)
        /\ ListedBut(w1, c1.map, name)
        /\ Live(c1.map) = Live(c.map) \cup {k} /\ k \notin Live(c.map)
        /\ \A i \in Live(c.map) : c1.map[i] = c.map[i]
    BY <2>joins, AddGood
  <2>grown. Leads(w1, c1) = Leads(v, c) \cup {<<name, Held(data)>>}
    <3>1. w1[c.lend] = data
      BY <1>1, <1>lend DEF FileAt
    <3> QED BY <2>joins, <3>1, AddedLeads
  <2>8. par \in Live(c1.map) /\ c1.map[par] = c.map[par]
    BY <2>7
  <2>9. w1[q] = v[q]
    <3>1. q < e
      BY <1>lend, LiveFacts, SMTT(20)
    <3> QED BY <1>10, <3>1 DEF Agree
  <2>10. d \in Checkpoint
    <3>1. SetCrMap(new, pin, e + 5) \in Seq(Entry)
      <4>1. par \in DOMAIN new /\ Named(new) /\ pin = new[par].inoden
        BY <2>3, <2>7, <2>8 DEF Live
      <4> QED BY <1>12, <1>14, <4>1, SetEffect
    <3> QED BY <1>12, <1>15, <3>1 DEF Checkpoint
  <2>12. /\ c1.map[par].name = Parent[name] /\ DataAt(w1, c1.map[par].map, v[q])
         /\ Chain(w, c1.map[par].inoden, e + 5)
         /\ Agree(w, w1, c1.lend)
         /\ d.map = SetCrMap(c1.map, c1.map[par].inoden, e + 5)
         /\ c1.lend <= d.lend /\ e + 5 < d.lend
    BY <1>7, <1>10, <1>12, <1>13, <1>15, <2>3, <2>8, <2>9 DEF DataAt
  <2> HIDE DEF pin
  <2>13. Good(w, d) /\ Leads(w, d) = Leads(w1, c1)
    <3>1. Moves(w1, c1, par, e + 5, w, d)
      BY <1>12, <2>3, <2>7, <2>8, <2>10, <2>12 DEF Moves
    <3>2. Leads(w, d) = Leads(w1, c1)
      <4>1. Held(w1[c1.map[par].map - 2]) = Dir
        BY <1>held, <2>8, <2>9
      <4> QED BY <1>held, <3>1, <4>1, MovedLeads
    <3> QED BY <1>old, <1>12, <2>7, <2>12, <3>1, <3>2, ListGood
  <2> QED BY <1>9, <1>11, <2>13, <2>grown DEF Grown
<1> QED BY <1>14, <1>16, <1>17

(***************************************************************************)
(* What is saved is not disturbed by blocks appended to the log.           *)
(***************************************************************************)
LEMMA KeptAppend ==
  ASSUME IInv, sound, cp # NoCp, saved' = saved,
         cp'.lend \in Nat, cp.lend <= cp'.lend, Agree(View', View, cp.lend)
  PROVE  saved' = NoCp \/ Kept'
<1> SUFFICES ASSUME saved # NoCp PROVE Kept'
  OBVIOUS
<1>1. /\ Kept /\ Good(View, saved) /\ saved \in Checkpoint /\ saved.lend \in Nat
      /\ cp.lend \in Nat /\ saved.lend <= cp.lend /\ saved.lfst = saved.lend
  BY RunningFacts, Sizes DEF IInv, Kept, Good, Checkpoint
<1>2. Agree(View', View, saved.lend)
  <2>1. \A a \in Nat : a < saved.lend => a < cp.lend
    BY <1>1
  <2>2. \A a \in Slot : a \in Nat
    BY Sizes
  <2> QED BY <2>1, <2>2 DEF Agree
<1>3. Good(View', saved)
  BY <1>1, <1>2, GoodFrame
<1>4. saved.lend <= cp'.lend
  BY <1>1
<1> QED BY <1>1, <1>3, <1>4 DEF Kept

(***************************************************************************)
(* Nor is the tree it leads to.                                            *)
(***************************************************************************)
LEMMA SavedTreeAppend ==
  ASSUME IInv, sound, cp # NoCp, saved' = saved, Agree(View', View, cp.lend)
  PROVE  SavedTree' = SavedTree
<1>1. CASE saved = NoCp
  BY <1>1 DEF SavedTree
<1>2. CASE saved # NoCp
  <2>1. Good(View, saved) /\ cp.lend \in Nat /\ saved.lend <= cp.lend
    BY <1>2, RunningFacts DEF IInv, Kept
  <2>2. Leads(View', saved) = Leads(View, saved)
    BY <2>1, LeadsFrame
  <2> QED BY <1>2, <2>2 DEF SavedTree
<1> QED BY <1>1, <1>2

(***************************************************************************)
(* fs_mkfile keeps the invariant, and the tree gets the file.              *)
(***************************************************************************)
LEMMA MkfileIInv ==
  ASSUME IInv, NEW name \in Names \ {Root}, NEW parent, NEW data, NEW ftype,
         Content(data, ftype), fs_mkfile(name, parent, data, ftype), gc = NoGc, UNCHANGED gc
  PROVE  IInv' /\ (sound' => Grows(name, data))
<1> SUFFICES ASSUME sound' PROVE IInv' /\ Grows(name, data)
  BY DEF IInv
<1>1. /\ sound /\ cp # NoCp /\ log' = log /\ saved' = saved /\ Found(name) = {}
      /\ \E n \in 0 .. MaxInoden, par \in Live(cp.map), e \in Nat :
           MkfileMade(name, data, ftype, n, par, e)
  BY MkfileEffect
<1>2. PICK n \in 0 .. MaxInoden, par \in Live(cp.map), e \in Nat :
        MkfileMade(name, data, ftype, n, par, e)
  BY <1>1
<1>3. PICK new : /\ Added(new, cp.map, [name |-> name, inoden |-> n, map |-> e + 2])
                 /\ IsCp(cp', SetCrMap(new, cp.map[par].inoden, e + 5), e + 6, cp.lfst)
  BY <1>2 DEF MkfileMade
<1>4. /\ n = GetMaxInoden(cp.map) + 1 /\ cp.map[par].name = Parent[name]
      /\ e = cp.lend /\ e + 6 < LogSize
      /\ buffer' \in Seq(Block) /\ Ends(cp.lfst, buffer', e + 6)
      /\ View[cp.map[par].map - 2].type = "ddata"
      /\ Made(View', View, e, data, Inode(n, ftype, e), Imap(n, e + 1),
              Listing(View[cp.map[par].map - 2], name),
              Inode(cp.map[par].inoden, "dir", e + 3), Imap(cp.map[par].inoden, e + 4))
  BY <1>2 DEF MkfileMade
<1>5. Good(View, cp) /\ Placed(View) /\ Placed(log)
  BY <1>1, RunningFacts
<1>6. Fresh(cp.map, name, n)
  <2>1. \A i \in DOMAIN cp.map : cp.map[i].inoden \in 0 .. MaxInoden /\ cp.map[i].inoden # NoInoden
    BY <1>5, EntryFacts
  <2>2. \A i \in DOMAIN cp.map : cp.map[i].name # name
    BY <1>1, <2>1 DEF Found
  <2>3. \A i \in DOMAIN cp.map : cp.map[i].inoden <= GetMaxInoden(cp.map)
    BY <2>1, MaxInodenFact
  <2>4. GetMaxInoden(cp.map) \in Nat
    BY <2>1, MaxInodenFact
  <2>5. ASSUME NEW i \in DOMAIN cp.map PROVE cp.map[i].inoden < n
    <3>1. cp.map[i].inoden \in Nat /\ cp.map[i].inoden <= GetMaxInoden(cp.map)
      BY <2>1, <2>3
    <3> QED BY <1>4, <2>4, <3>1
  <2> QED BY <2>2, <2>5 DEF Fresh
<1>7. CpEnds(cp, e) /\ cp.map[par].map - 2 \in Slot
  BY <1>4, <1>5, LiveFacts DEF CpEnds
<1>8. Good(View', cp') /\ Placed(View') /\ Agree(View', View, e)
      /\ Grown(View', cp', View, cp, name, data)
  <2> DEFINE v == View
             w == View'
             c == cp
             d == cp'
             q == cp.map[par].map - 2
  <2>1. /\ Placed(v) /\ Good(v, c) /\ par \in Live(c.map) /\ c.map[par].name = Parent[name]
        /\ CpEnds(c, e) /\ q \in Slot /\ q = c.map[par].map - 2 /\ v[q].type = "ddata"
        /\ Fresh(c.map, name, n) /\ e + 6 < LogSize
        /\ Made(w, v, e, data, Inode(n, ftype, e), Imap(n, e + 1), Listing(v[q], name),
                Inode(c.map[par].inoden, "dir", e + 3), Imap(c.map[par].inoden, e + 4))
        /\ Added(new, c.map, [name |-> name, inoden |-> n, map |-> e + 2])
        /\ IsCp(d, SetCrMap(new, c.map[par].inoden, e + 5), e + 6, c.lfst)
    BY <1>3, <1>4, <1>5, <1>6, <1>7
  <2> HIDE DEF v, w, c, d, q
  <2>2. Good(w, d) /\ Placed(w) /\ Agree(w, v, e) /\ Grown(w, d, v, c, name, data)
    BY <2>1, MadeGood
  <2> QED BY <2>2 DEF v, w, c, d
<1>9. cp'.lend = e + 6 /\ cp'.lfst = cp.lfst
  BY <1>3 DEF IsCp
<1>10. Running'
  BY <1>4, <1>8, <1>9 DEF Running, Ends
<1>11. saved' = NoCp \/ Kept'
  <2>1. Agree(View', View, cp.lend) /\ cp'.lend \in Nat /\ cp.lend <= cp'.lend
    BY <1>4, <1>8, <1>9
  <2> QED BY <1>1, <2>1, KeptAppend
<1>12. Grows(name, data)
  <2>1. cp' # NoCp
    BY <1>8, NoCpAssumption DEF Good
  <2>2. SavedTree' = SavedTree
    BY <1>1, <1>4, <1>8, SavedTreeAppend
  <2> QED BY <1>8, <2>1, <2>2 DEF Grows
<1> QED BY <1>1, <1>4, <1>5, <1>8, <1>10, <1>11, <1>12 DEF IInv

-----------------------------------------------------------------------------
(* The sync, the restart and fs_remove *)

(***************************************************************************)
(* With nothing in the buffer the log is the one on the disk.              *)
(***************************************************************************)
LEMMA FilledEmpty ==
  ASSUME NEW f, NEW l \in [Slot -> Block]
  PROVE  Filled(f, <<>>, l) = l
BY DEF Filled

(***************************************************************************)
(* A checkpoint as it is read back leads to the same tree.                 *)
(***************************************************************************)
LEMMA ReloadedFact ==
  ASSUME NEW v, NEW c, Good(v, c)
  PROVE  /\ Reloaded(c) = [map |-> c.map, lend |-> c.lend, lfst |-> c.lend]
         /\ Good(v, Reloaded(c))
         /\ Reloaded(c).map = c.map /\ Reloaded(c).lend = c.lend /\ Reloaded(c).lfst = c.lend
<1>1. c \in Checkpoint /\ c.map \in Seq(Entry) /\ c.lend \in Slot /\ c.lend \in Nat
  BY Sizes DEF Good, Checkpoint
<1>2. c = [map |-> c.map, lend |-> c.lend, lfst |-> c.lfst]
  BY <1>1 DEF Checkpoint
<1>3. Reloaded(c) = [map |-> c.map, lend |-> c.lend, lfst |-> c.lend]
  BY <1>2 DEF Reloaded
<1>4. PICK d : d = Reloaded(c)
  OBVIOUS
<1>5. d \in Checkpoint /\ d.map = c.map /\ d.lend = c.lend /\ d.lfst = c.lend
  BY <1>1, <1>3, <1>4 DEF Checkpoint
<1>6. Agree(v, v, c.lend) /\ d.lend >= c.lend
  BY <1>1, <1>5 DEF Agree
<1>7. Good(v, d)
  BY <1>5, <1>6, GoodFrame
<1> QED BY <1>3, <1>4, <1>5, <1>7

(***************************************************************************)
(* A sync puts on the disk the log as it was to be.                        *)
(***************************************************************************)
LEMMA SyncFacts ==
  ASSUME IInv, sound, cp # NoCp, Becomes(SyncLogBuf(State))
  PROVE  /\ cp' = [map |-> cp.map, lend |-> cp.lend, lfst |-> cp.lend]
         /\ buffer' = <<>> /\ log' = View /\ View' = View
         /\ cp' = Reloaded(cp)
<1>1. SyncLogBuf(State) = Run(cp.map, cp.lend, cp.lend, <<>>, View)
  BY RunningFacts, SyncEffect DEF View
<1>2. /\ cp' = [map |-> cp.map, lend |-> cp.lend, lfst |-> cp.lend]
      /\ buffer' = <<>> /\ log' = View
  BY <1>1 DEF Becomes, Run
<1>3. View' = Filled(cp'.lfst, <<>>, View)
  BY <1>2 DEF View
<1>4. View' = View
  BY <1>3, RunningFacts, FilledEmpty
<1> QED BY <1>2, <1>4, RunningFacts, ReloadedFact

(***************************************************************************)
(* A sync keeps the invariant, with or without the checkpoint.             *)
(***************************************************************************)
LEMMA SyncIInv ==
  ASSUME IInv, cp # NoCp, Becomes(SyncLogBuf(State)), sound' = sound,
         saved' \in {saved, Reloaded(cp)}, gc' = NoGc
  PROVE  IInv'
<1> SUFFICES ASSUME sound PROVE IInv'
  BY DEF IInv
<1>1. /\ cp' = [map |-> cp.map, lend |-> cp.lend, lfst |-> cp.lend]
      /\ buffer' = <<>> /\ log' = View /\ View' = View /\ cp' = Reloaded(cp)
  BY SyncFacts
<1>2. /\ Good(View, cp) /\ Placed(View) /\ cp.lend \in Nat
  BY RunningFacts
<1>3. Good(View', cp') /\ cp'.lend = cp.lend /\ cp'.lfst = cp.lend
  BY <1>1, <1>2, ReloadedFact
<1>4. Running'
  BY <1>1, <1>2, <1>3 DEF Running
<1>5. saved' = NoCp \/ Kept'
  <2>1. CASE saved' = saved
    <3>1. Agree(View', View, cp.lend) /\ cp'.lend \in Nat /\ cp.lend <= cp'.lend
      BY <1>1, <1>2, <1>3 DEF Agree
    <3> QED BY <2>1, <3>1, KeptAppend
  <2>2. CASE saved' = Reloaded(cp)
    <3>1. Good(View', saved') /\ saved'.lfst = saved'.lend /\ saved'.lend <= cp'.lend
      BY <1>1, <1>2, <1>3, <2>2
    <3> QED BY <3>1 DEF Kept
  <2> QED BY <2>1, <2>2
<1>6. buffer' \in Seq(Block)
  BY <1>1
<1> QED BY <1>1, <1>2, <1>4, <1>5, <1>6 DEF IInv

(***************************************************************************)
(* fs_sync_cr keeps the invariant, also at the end of fs_run_gc.           *)
(***************************************************************************)
LEMMA SyncCrIInv ==
  ASSUME IInv, fs_sync_cr, UNCHANGED gc
  PROVE  IInv'
<1> SUFFICES ASSUME sound PROVE IInv'
  BY DEF IInv, fs_sync_cr
<1>1. cp # NoCp /\ saved' = Reloaded(cp) /\ cp' = cp /\ buffer' = buffer /\ log' = log
  BY DEF fs_sync_cr
<1>2. View' = View
  BY <1>1 DEF View
<1>3. Running /\ Good(View, cp) /\ cp.lend \in Nat
  BY <1>1, RunningFacts
<1>4. Running'
  <2>1. Walking' <=> Walking
    BY <1>1 DEF Walking, Beyond
  <2>2. Moving' <=> Moving
    BY <1>1, <1>2 DEF Moving, Beyond
  <2>3. Collecting' <=> Collecting
    BY <1>1, <2>1, <2>2 DEF Collecting
  <2> QED BY <1>1, <1>2, <1>3, <2>3 DEF Running
<1>5. Kept'
  BY <1>1, <1>2, <1>3, ReloadedFact DEF Kept
<1> QED BY <1>1, <1>2, <1>4, <1>5 DEF IInv

(***************************************************************************)
(* fs_remove keeps the invariant.                                          *)
(***************************************************************************)
LEMMA RemoveIInv ==
  ASSUME IInv, NEW name \in Names, fs_remove(name), gc = NoGc, UNCHANGED gc
  PROVE  IInv'
<1> SUFFICES ASSUME sound PROVE IInv'
  BY DEF IInv, fs_remove
<1> DEFINE map == [i \in DOMAIN cp.map |->
                    IF cp.map[i].name \in Within[name] THEN [cp.map[i] EXCEPT !.map = Null]
                    ELSE cp.map[i]]
<1>1. /\ cp # NoCp /\ cp' = [cp EXCEPT !.map = map] /\ buffer' = buffer /\ log' = log
      /\ saved' = saved
  BY DEF fs_remove
<1>2. Running /\ Good(View, cp) /\ cp = [map |-> cp.map, lend |-> cp.lend, lfst |-> cp.lfst]
      /\ cp.lend \in Slot /\ cp.lfst \in Slot /\ cp.map \in Seq(Entry) /\ cp.lend \in Nat
  BY <1>1, RunningFacts
<1>3. map \in Seq(Entry)
  <2>1. \A i \in DOMAIN cp.map : map[i] \in Entry
    BY <1>2, EntryFacts DEF Entry, Address
  <2>2. DOMAIN cp.map = 1 .. Len(cp.map) /\ Len(cp.map) \in Nat
    BY <1>2
  <2>3. map = [i \in 1 .. Len(cp.map) |-> map[i]]
    BY <2>2
  <2> HIDE DEF map
  <2> QED BY <2>1, <2>2, <2>3
<1>4. cp' = [map |-> map, lend |-> cp.lend, lfst |-> cp.lfst]
  BY <1>1, <1>2
<1>5. cp'.map = map /\ cp'.lend = cp.lend /\ cp'.lfst = cp.lfst /\ cp' \in Checkpoint
  <2> HIDE DEF map
  <2> QED BY <1>2, <1>3, <1>4 DEF Checkpoint
<1>6. View' = View
  BY <1>1, <1>5 DEF View
<1>7. Good(View, cp')
  BY <1>2, <1>5, RemoveGood
<1>8. Running'
  BY <1>1, <1>2, <1>5, <1>6, <1>7 DEF Running
<1>9. saved' = NoCp \/ Kept'
  <2>1. Agree(View', View, cp.lend) /\ cp'.lend \in Nat /\ cp.lend <= cp'.lend
    BY <1>2, <1>5, <1>6 DEF Agree
  <2> QED BY <1>1, <2>1, KeptAppend
<1> QED BY <1>1, <1>6, <1>8, <1>9 DEF IInv

(***************************************************************************)
(* Unless a checkpoint was written before the blocks it names, the disk    *)
(* holds the tree that was saved.                                          *)
(***************************************************************************)
LEMMA ReadBack ==
  ASSUME IInv, sound, saved # NoCp, ~Torn
  PROVE  /\ Good(log, saved) /\ saved.lfst = saved.lend /\ saved.lend \in Nat
         /\ Leads(log, saved) = Leads(View, saved)
<1>1. Kept /\ Good(View, saved) /\ saved.lfst = saved.lend
  BY DEF IInv, Kept
<1>2. saved.lend \in Nat /\ saved.lend \in Slot
  BY <1>1, Sizes DEF Good, Checkpoint
<1>3. log \in [Slot -> Block]
  BY DEF IInv, Placed
<1>4. CASE cp = NoCp
  <2>1. buffer = <<>>
    BY <1>4, NoCpAssumption DEF IInv, Down, Running, Good
  <2>2. View = log
    BY <1>3, <2>1, FilledEmpty DEF View
  <2> QED BY <1>1, <1>2, <2>2
<1>5. CASE cp # NoCp
  <2>1. ASSUME NEW i \in Live(saved.map)
        PROVE  /\ Chain(log, saved.map[i].inoden, saved.map[i].map)
               /\ log[saved.map[i].map - 2] = View[saved.map[i].map - 2]
    <3> DEFINE m == saved.map[i].map
    <3>1. /\ i \in DOMAIN saved.map /\ Chain(View, saved.map[i].inoden, m) /\ m \in Nat
          /\ m < saved.lend /\ m \in Slot /\ m - 1 \in Slot /\ m - 2 \in Slot
      BY <1>1, LiveFacts
    <3>2. ~Unsynced(m)
      BY <3>1 DEF Torn
    <3>3. m < cp.lfst
      <4>1. saved.lend <= cp.lend
        BY <1>1, <1>5 DEF Kept
      <4> QED BY <1>2, <1>5, <3>1, <3>2, <4>1, UnsyncedFact, RunningFacts
    <3> HIDE DEF m
    <3>4. log[m] = View[m] /\ log[m - 1] = View[m - 1] /\ log[m - 2] = View[m - 2]
      <4>1. m - 1 < cp.lfst /\ m - 2 < cp.lfst
        BY <1>5, <3>1, <3>3, RunningFacts
      <4> QED BY <1>5, <3>1, <3>3, <4>1, RunningFacts
    <3>5. Chain(log, saved.map[i].inoden, m)
      BY <3>1, <3>4 DEF Chain
    <3> QED BY <3>4, <3>5 DEF m
  <2>2. Chained(log, saved.map, saved.lend)
    BY <1>1, <2>1 DEF Chained, Good
  <2>3. Listed(log, saved.map)
    BY <1>1, <2>1 DEF Listed, Good
  <2>4. Good(log, saved)
    BY <1>1, <2>2, <2>3 DEF Good
  <2>5. Leads(log, saved) = Leads(View, saved)
    BY <2>1 DEF Leads
  <2> QED BY <1>1, <1>2, <2>4, <2>5
<1> QED BY <1>4, <1>5

(***************************************************************************)
(* fs_init, and a restart, keep the invariant.                             *)
(***************************************************************************)
LEMMA RestartIInv ==
  ASSUME IInv, (fs_init /\ gc = NoGc /\ gc' = gc) \/ Reboot
  PROVE  IInv'
<1> SUFFICES ASSUME sound' PROVE IInv'
  BY DEF IInv
<1>1. /\ sound /\ ~Torn /\ buffer' = <<>> /\ log' = log /\ saved' = saved /\ gc' = NoGc
      /\ \/ cp' = NoCp
         \/ cp' = saved /\ saved # NoCp
  BY DEF fs_init, Reboot
<1>2. Placed(log) /\ log \in [Slot -> Block]
  BY <1>1 DEF IInv, Placed
<1>3. View' = log
  BY <1>1, <1>2, FilledEmpty DEF View
<1>4. saved # NoCp => Good(log, saved) /\ saved.lfst = saved.lend /\ saved.lend \in Nat
  BY <1>1, ReadBack
<1>5. saved' = NoCp \/ Kept'
  BY <1>1, <1>3, <1>4 DEF Kept
<1>6. Down' \/ Running'
  <2>1. CASE cp' = NoCp
    BY <1>1, <2>1 DEF Down
  <2>2. CASE cp' = saved /\ saved # NoCp
    BY <1>1, <1>3, <1>4, <2>2 DEF Running
  <2> QED BY <1>1, <2>1, <2>2
<1>7. buffer' \in Seq(Block)
  BY <1>1
<1> QED BY <1>1, <1>2, <1>3, <1>5, <1>6, <1>7 DEF IInv

(***************************************************************************)
(* fs_creat, on a disk where nothing was left in the buffer, makes a tree  *)
(* of the root alone.                                                      *)
(***************************************************************************)
LEMMA CreatIInv ==
  ASSUME IInv, NEW leftover \in 0 .. 1, NEW room \in Rooms, fs_creat(leftover, room),
         gc = NoGc, UNCHANGED gc
  PROVE  IInv' /\ (sound' => Formats)
<1> SUFFICES ASSUME sound' PROVE IInv' /\ Formats
  BY DEF IInv
<1>1. sound /\ buffer = <<>> /\ leftover = 0
  BY DEF fs_creat
<1>2. Placed(log) /\ log \in [Slot -> Block]
  BY <1>1 DEF IInv, Placed
<1> DEFINE fresh == [map |-> [i \in 1 .. leftover |-> Stale], lend |-> 0, lfst |-> 0]
           dir == Ddata({}, room)
           inode == Inode(0, "dir", Null)
           imap == Imap(0, Null)
           s1 == StageFile([cp |-> fresh, buffer |-> buffer, log |-> log], dir, inode, imap)
           root == [name |-> Root, inoden |-> 0, map |-> Staged(s1)]
           s2 == WithMap(s1, AddCrEntry(s1.cp.map, root))
           in2 == Inode(0, "dir", 0)
           im2 == Imap(0, 1)
           b3 == WithFile(<<>>, dir, in2, im2)
           w == Filled(0, b3, log)
           entry == [name |-> Root, inoden |-> 0, map |-> 2]
<1>3. saved' = Reloaded(s2.cp) /\ Becomes(SyncLogBuf(s2))
  <2>1. s2 = Formatted(leftover, room)
    BY DEF Formatted
  <2> QED BY <2>1 DEF fs_creat
<1>4. [cp |-> fresh, buffer |-> buffer, log |-> log] = Run(<<>>, 0, 0, <<>>, log)
  <2>1. [i \in 1 .. leftover |-> Stale] = <<>>
    BY <1>1
  <2> QED BY <1>1, <2>1 DEF Run
<1>5. /\ dir \in Block /\ dir.type = "ddata" /\ inode \in Block /\ imap \in Block
      /\ inode.type = "inode" /\ imap.type = "imap"
      /\ inode.num = 0 /\ inode.ftype = "dir" /\ imap.inoden = 0
      /\ in2 \in Block /\ im2 \in Block
  <2>1. Null \in Address /\ 0 \in Address /\ 1 \in Address /\ 0 \in 0 .. MaxInoden
        /\ room \in 0 .. MAX_DIR_FILES
    BY Sizes, LfsAssumption DEF Address, Rooms
  <2> QED BY <2>1, Constructors
<1>6. s1 = Run(<<>>, 3, 0, b3, log)
  <2>1. StageFile(Run(<<>>, 0, 0, <<>>, log), dir, inode, imap)
          = Run(<<>>, 0 + 3, 0,
                WithFile(<<>>, dir, Inode(inode.num, inode.ftype, 0), Imap(imap.inoden, 0 + 1)), log)
    <3> HIDE DEF dir, inode, imap
    <3> DEFINE z == 0
               nil == <<>>
    <3>1. z \in Nat /\ z + 3 < LogSize /\ Len(nil) + 3 < LogSize /\ nil \in Seq(Block)
      BY Sizes
    <3> HIDE DEF z, nil
    <3>2. StageFile(Run(nil, z, z, nil, log), dir, inode, imap)
            = Run(nil, z + 3, z,
                WithFile(nil, dir, Inode(inode.num, inode.ftype, z), Imap(imap.inoden, z + 1)), log)
      BY <1>5, <3>1, StageFileEffect
    <3> QED BY <3>2 DEF z, nil
  <2> HIDE DEF dir, inode, imap
  <2>2. 0 + 3 = 3 /\ 0 + 1 = 1
    OBVIOUS
  <2> QED BY <1>4, <1>5, <2>1, <2>2
<1> HIDE DEF dir, inode, imap, in2, im2, fresh
<1>7. FileAt(w, log, 0, dir, in2, im2) /\ b3 \in Seq(Block) /\ Ends(0, b3, 3)
  <2>1. /\ 0 \in Nat /\ Ends(0, <<>>, 0) /\ 0 + 3 < LogSize /\ <<>> \in Seq(Block) /\ 0 + 3 = 3
    BY Sizes DEF Ends
  <2>2. FileAt(w, Filled(0, <<>>, log), 0, dir, in2, im2) /\ b3 \in Seq(Block) /\ Ends(0, b3, 0 + 3)
    BY <1>2, <1>5, <2>1, FileFilled
  <2> QED BY <1>2, <2>1, <2>2, FilledEmpty
<1> HIDE DEF b3
<1>8. Staged(s1) = 2 /\ s1.cp.map = <<>>
  <2>1. 3 \in Nat /\ 3 < LogSize /\ 3 > 0 /\ 3 - 1 = 2
    BY Sizes
  <2>2. Staged(s1) = 3 - 1
    BY <1>6, <2>1, StagedAt
  <2> QED BY <1>6, <2>1, <2>2 DEF Run
<1>9. root = entry
  BY <1>8
<1> HIDE DEF s1
<1>10. entry \in Entry /\ entry.name = Root /\ entry.inoden = 0 /\ entry.map = 2
       /\ 2 # Null /\ 0 # NoInoden
  <2>1. Root \in Names \cup {""} /\ 0 \in 0 .. MaxInoden \cup {NoInoden} /\ 2 \in Address
    <3>1. Root \in Names /\ MaxInoden \in Nat
      BY LfsAssumption
    <3>2. Root \in Names \cup {""}
      BY <3>1, Zenon
    <3>3. 0 \in 0 .. MaxInoden
      BY <3>1
    <3>4. 2 \in Slot
      BY Sizes
    <3> QED BY <3>2, <3>3, <3>4 DEF Address
  <2>2. 2 # Null /\ 0 # NoInoden
    BY DEF Null, NoInoden
  <2> QED BY <2>1, <2>2 DEF Entry
<1> HIDE DEF entry, root
<1> DEFINE map == <<entry>>
<1>11. AddCrEntry(<<>>, entry) = map
  <2>1. EntryAt(<<>>, Null) = {} /\ Len(<<>>) < MAX_IMAP
    BY LfsAssumption DEF EntryAt
  <2> QED BY <2>1 DEF AddCrEntry
<1>12. s2 = Run(map, 3, 0, b3, log)
  BY <1>6, <1>8, <1>9, <1>11, WithMapEffect
<1> HIDE DEF s2
<1>13. SyncLogBuf(s2) = Run(map, 3, 3, <<>>, w)
  <2>1. 3 \in Slot /\ 0 + Len(b3) = 3
    BY <1>7, Sizes DEF Ends
  <2> QED BY <1>2, <1>7, <1>12, <2>1, SyncEffect
<1>14. /\ map \in Seq(Entry) /\ DOMAIN map = {1} /\ map[1] = entry
  BY <1>10
<1> HIDE DEF map, w
<1>15. cp' = [map |-> map, lend |-> 3, lfst |-> 3] /\ buffer' = <<>> /\ log' = w
  BY <1>3, <1>13 DEF Becomes, Run
<1>16. saved' = cp'
  <2>1. s2.cp = [map |-> map, lend |-> 3, lfst |-> 0]
    BY <1>12 DEF Run
  <2> QED BY <1>3, <1>15, <2>1 DEF Reloaded
<1>17. w \in [Slot -> Block] /\ Placed(w)
  <2>1. Placed(w)
    <3>1. dir.type \in {"fdata", "ddata"} /\ 0 \in Nat /\ im2 = Imap(0, 0 + 1)
      BY <1>5 DEF im2
    <3>2. FileAt(w, log, 0, dir, Inode(0, "dir", 0), Imap(0, 0 + 1))
      BY <1>7, <3>1 DEF in2
    <3> QED BY <1>2, <3>1, <3>2, PlacedFile
  <2> QED BY <1>7, <2>1 DEF FileAt
<1>18. View' = w
  BY <1>15, <1>17, FilledEmpty DEF View
<1>19. Chain(w, 0, 2)
  <2>1. w[0] = dir /\ w[1] = Inode(0, "dir", 0) /\ w[2] = Imap(0, 1)
    BY <1>7 DEF FileAt, in2, im2
  <2>2. 2 \in 2 .. LogSize - 1
    BY Sizes
  <2> QED BY <1>5, <2>1, <2>2 DEF Chain
<1>20. cp' \in Checkpoint /\ cp'.map = map /\ cp'.lend = 3 /\ cp'.lfst = 3
  <2>1. 3 \in Slot
    BY Sizes
  <2> QED BY <1>14, <1>15, <2>1 DEF Checkpoint
<1>21. Good(w, cp')
  <2>1. Live(map) = {1}
    BY <1>10, <1>14 DEF Live
  <2>2. Named(map)
    BY <1>10, <1>14, LfsAssumption DEF Named
  <2>3. Chained(w, map, 3)
    BY <1>10, <1>14, <1>19, <2>1 DEF Chained
  <2>4. Closed(map) /\ Listed(w, map)
    BY <1>10, <1>14, <2>1 DEF Closed, Listed
  <2> QED BY <1>20, <2>2, <2>3, <2>4 DEF Good
<1>22. Running' /\ Kept'
  BY <1>15, <1>16, <1>18, <1>20, <1>21 DEF Running, Kept
<1>23. buffer' \in Seq(Block)
  BY <1>15
<1>24. Formats
  <2>1. Live(map) = {1} /\ map[1].name = Root /\ map[1].map - 2 = 0
    BY <1>10, <1>14 DEF Live
  <2>2. Held(w[0]) = Dir
    BY <1>5, <1>7 DEF FileAt, Held
  <2>3. Leads(w, cp') = {<<Root, Dir>>}
    BY <1>20, <2>1, <2>2 DEF Leads
  <2> QED BY <1>16, <1>18, <1>20, <2>3, NoCpAssumption DEF Formats
<1> QED BY <1>15, <1>17, <1>18, <1>22, <1>23, <1>24 DEF IInv

-----------------------------------------------------------------------------
(* fs_run_gc *)

(***************************************************************************)
(* The garbage collector begins with nothing moved.                        *)
(***************************************************************************)
LEMMA GcStartIInv ==
  ASSUME IInv, NEW len \in GcLengths, NEW stray \in Strays, fs_run_gc(len, stray)
  PROVE  IInv'
<1> SUFFICES ASSUME sound' PROVE IInv'
  BY DEF IInv
<1>1. /\ cp # NoCp /\ gc' = Walk(0, len, Nowhere, Astray, stray)
      /\ sound /\ buffer = <<>> /\ len <= cp.lend
      /\ \A a \in 0 .. cp.lend - 1 : log[a] # Zero
      /\ cp' = cp /\ buffer' = buffer /\ log' = log /\ saved' = saved
  BY DEF fs_run_gc
<1>2. View' = View
  BY <1>1 DEF View
<1>3. Running /\ Good(View, cp) /\ cp.lend = cp.lfst /\ cp.lend \in Nat /\ len \in Nat
  <2>1. Len(buffer) = 0
    BY <1>1
  <2> QED BY <1>1, <2>1, RunningFacts, LfsAssumption
<1>4. /\ gc'.addr = 0 /\ gc'.left = len /\ gc'.curr = Nowhere
  BY <1>1 DEF Walk
<1>5. Beyond(0)
  <2> SUFFICES ASSUME NEW i \in Live(cp.map)
               PROVE  0 <= cp.map[i].map - 2 /\ cp.map[i].map < cp.lfst
    BY DEF Beyond
  <2> QED BY <1>3, LiveFacts
<1>6. Beyond(0)'
  BY <1>1, <1>5 DEF Beyond
<1>7. Collecting'
  BY <1>1, <1>3, <1>4, <1>6 DEF Collecting, Walking, IsWalk
<1>8. Running'
  BY <1>1, <1>2, <1>3, <1>7 DEF Running
<1>9. saved' = NoCp \/ Kept'
  BY <1>1, <1>2 DEF IInv, Kept
<1> QED BY <1>1, <1>2, <1>8, <1>9 DEF IInv

(***************************************************************************)
(* What a map found for an inode number is: that of a live entry, or       *)
(* nothing that an inode can be read from.                                 *)
(***************************************************************************)
LEMMA GetImapFact ==
  ASSUME IInv, sound, cp # NoCp, NEW n,
         NEW im, im = GetImap(State, n), im # Zero, im # Junk
  PROVE  \E i \in Live(cp.map) : cp.map[i].inoden = n /\ im = log[cp.map[i].map]
<1> DEFINE is == {i \in DOMAIN State.cp.map : State.cp.map[i].inoden = n}
           par == CHOOSE i \in is : \A j \in is : i <= j
           m == cp.map[par].map
<1>1. /\ Good(View, cp) /\ cp.map \in Seq(Entry) /\ State.cp = cp /\ State.log = log
  BY RunningFacts DEF State
<1>2. is # {}
  BY DEF GetImap
<1>3. par \in is
  <2>1. is \subseteq Nat
    BY <1>1
  <2> QED BY <1>2, <2>1, FirstIndex
<1>4. im = Load(State, m)
  BY <1>1, <1>2 DEF GetImap
<1> HIDE DEF par
<1>5. par \in DOMAIN cp.map /\ cp.map[par].inoden = n
  BY <1>1, <1>3
<1>6. m # Null
  BY <1>4, LoadFact
<1>7. par \in Live(cp.map)
  BY <1>1, <1>5, <1>6, EntryFacts
<1>8. m \in Slot
  BY <1>1, <1>7, LiveFacts
<1>9. im = log[m]
  BY <1>1, <1>4, <1>8, LoadFact
<1> QED BY <1>5, <1>7, <1>9

(***************************************************************************)
(* The map of a live entry is found.                                       *)
(***************************************************************************)
LEMMA LiveImap ==
  ASSUME IInv, sound, cp # NoCp, NEW i \in Live(cp.map)
  PROVE  GetImap(State, cp.map[i].inoden) = log[cp.map[i].map]
<1> DEFINE n == cp.map[i].inoden
           is == {j \in DOMAIN State.cp.map : State.cp.map[j].inoden = n}
<1>1. /\ Good(View, cp) /\ cp.map \in Seq(Entry) /\ State.cp = cp /\ State.log = log
  BY RunningFacts DEF State
<1>2. i \in DOMAIN cp.map /\ i \in Nat /\ cp.map[i].map \in Slot
  BY <1>1, LiveFacts
<1>3. is = {i}
  BY <1>1, <1>2 DEF Good, Named
<1>4. (CHOOSE j \in is : \A k \in is : j <= k) = i
  BY <1>2, <1>3
<1>5. GetImap(State, n) = Load(State, cp.map[i].map)
  BY <1>1, <1>3, <1>4 DEF GetImap
<1> QED BY <1>1, <1>2, <1>5, LoadFact

(***************************************************************************)
(* A living inode is the one before the map of a live entry.               *)
(***************************************************************************)
LEMMA InodeAliveFact ==
  ASSUME IInv, sound, cp # NoCp, NEW a \in Slot, log[a].type = "inode",
         InodeAlive(State, log[a])
  PROVE  \E i \in Live(cp.map) : cp.map[i].map = a + 1
<1> DEFINE inode == log[a]
           im == GetImap(State, inode.num)
<1>1. /\ Good(View, cp) /\ Placed(log) /\ State.log = log
  BY RunningFacts DEF State
<1>2. GetInode(State, im, inode.num) = inode
  BY DEF InodeAlive
<1> HIDE DEF im
<1>3. inode # Junk /\ inode # Zero
  BY Constructors
<1>4. im.type = "imap" /\ im.inoden = inode.num /\ Load(State, im.inode) = inode
  BY <1>2, <1>3 DEF GetInode
<1>5. im # Junk
  BY <1>4, Constructors
<1>6. im # Zero
  <2>1. ASSUME im = Zero PROVE FALSE
    <3>1. im.inode = Null
      BY <2>1, Constructors
    <3> QED BY <1>3, <1>4, <3>1, LoadFact
  <2> QED BY <2>1
<1>7. PICK i \in Live(cp.map) : im = log[cp.map[i].map]
  BY <1>5, <1>6, GetImapFact DEF im
<1> DEFINE m == cp.map[i].map
<1>8. m \in Slot /\ m - 1 \in Slot /\ m \in Nat /\ a \in Nat
  BY <1>1, LiveFacts, Sizes
<1>9. im.inode = m - 1
  BY <1>1, <1>4, <1>6, <1>7, <1>8 DEF Placed, InPlace
<1>10. log[m - 1] = inode
  BY <1>1, <1>4, <1>8, <1>9, LoadFact
<1>11. log[m - 1].idata = m - 1 - 1 /\ inode.idata = a - 1
  BY <1>1, <1>8, <1>10 DEF Placed, InPlace
<1>12. m = a + 1
  BY <1>8, <1>10, <1>11
<1> QED BY <1>12

(***************************************************************************)
(* The block after one below the end of the log is the next.               *)
(***************************************************************************)
LEMMA FollowingFact ==
  ASSUME IInv, sound, cp # NoCp, NEW a \in Nat, a + 1 < LogSize, log[a] # Zero
  PROVE  Following(State, a) = a + 1
<1>1. a \in Slot /\ Placed(log) /\ State.log = log
  BY RunningFacts, Sizes DEF State
<1>2. log[a] # Junk
  BY <1>1, Constructors DEF Placed, InPlace
<1>3. (a + 1) % LogSize = a + 1
  BY NoWrap
<1> QED BY <1>1, <1>2, <1>3 DEF Following

(***************************************************************************)
(* A block of the log that is alive, where no file was passed by, is the   *)
(* data of a file.                                                         *)
(***************************************************************************)
LEMMA AliveFact ==
  ASSUME IInv, sound, cp # NoCp, NEW a \in Nat, a < cp.lfst, Beyond(a), log[a] # Zero,
         IsAlive(State, a)
  PROVE  \E i \in Live(cp.map) : cp.map[i].map = a + 2 /\ a + 2 < cp.lfst
<1>1. /\ Good(View, cp) /\ Placed(log) /\ State.log = log /\ State.cp = cp
      /\ cp.lfst \in Nat /\ cp.lfst < LogSize
  BY RunningFacts, Sizes DEF State
<1>2. a \in Slot /\ a + 1 \in Slot /\ a + 1 < LogSize
  BY <1>1, Sizes
<1>3. \A i \in Live(cp.map) :
        /\ cp.map[i].map \in Nat /\ cp.map[i].map \in Slot
        /\ a <= cp.map[i].map - 2 \/ cp.lfst <= cp.map[i].map - 2
        /\ cp.map[i].map < cp.lfst \/ cp.lfst <= cp.map[i].map - 2
  BY <1>1, LiveFacts DEF Beyond
<1>4. CASE log[a].type = "imap"
  <2>1. PICK i \in DOMAIN cp.map : cp.map[i].map \in Slot /\ log[cp.map[i].map] = log[a]
    BY <1>1, <1>4 DEF IsAlive
  <2>2. i \in Live(cp.map)
    <3>1. cp.map[i].map # Null
      BY <2>1, LoadFact
    <3> QED BY <1>1, <3>1, EntryFacts
  <2> DEFINE m == cp.map[i].map
  <2>3. m \in Nat /\ m \in Slot
    BY <1>3, <2>2
  <2>4. InPlace(log[a], a) /\ InPlace(log[m], m) /\ log[m] = log[a]
    BY <1>1, <1>2, <2>1 DEF Placed
  <2>5. log[a].inode = a - 1 /\ log[a].inode = m - 1
    BY <1>4, <2>4 DEF InPlace
  <2>6. m = a
    BY <2>3, <2>5
  <2> QED BY <1>1, <1>3, <2>2, <2>6
<1>5. CASE log[a].type = "inode"
  <2>1. InodeAlive(State, log[a])
    BY <1>1, <1>5 DEF IsAlive
  <2>2. PICK i \in Live(cp.map) : cp.map[i].map = a + 1
    BY <1>2, <1>5, <2>1, InodeAliveFact
  <2> QED BY <1>1, <1>3, <2>2
<1>6. CASE log[a].type \in {"fdata", "ddata"}
  <2>1. InodeAlive(State, Load(State, Following(State, a)))
    BY <1>1, <1>6 DEF IsAlive
  <2>2. Following(State, a) = a + 1
    BY <1>2, FollowingFact
  <2>3. Load(State, a + 1) = log[a + 1]
    BY <1>1, <1>2, LoadFact
  <2>4. InodeAlive(State, log[a + 1]) /\ log[a + 1].type = "inode"
    BY <2>1, <2>2, <2>3 DEF InodeAlive
  <2>5. PICK i \in Live(cp.map) : cp.map[i].map = a + 1 + 1
    BY <1>2, <2>4, InodeAliveFact
  <2>6. cp.map[i].map = a + 2
    BY <2>5
  <2> QED BY <1>1, <1>3, <2>6
<1>7. log[a].type \in {"fdata", "ddata", "inode", "imap"}
  BY <1>1, <1>2, Shapes DEF Placed, InPlace
<1> QED BY <1>4, <1>5, <1>6, <1>7

(***************************************************************************)
(* The data of a file is alive.                                            *)
(***************************************************************************)
LEMMA DeadFact ==
  ASSUME IInv, sound, cp # NoCp, NEW a \in Nat, a < cp.lfst, Beyond(a), log[a] # Zero,
         ~IsAlive(State, a)
  PROVE  Beyond(a + 1)
<1>1. /\ Good(View, cp) /\ Placed(log) /\ State.log = log /\ State.cp = cp
      /\ cp.lfst \in Nat /\ cp.lfst < LogSize
      /\ \A x \in Slot : x < cp.lfst => View[x] = log[x]
  BY RunningFacts, Sizes DEF State
<1> SUFFICES ASSUME NEW i \in Live(cp.map)
             PROVE  \/ a + 1 <= cp.map[i].map - 2 /\ cp.map[i].map < cp.lfst
                    \/ cp.lfst <= cp.map[i].map - 2
  BY DEF Beyond
<1> DEFINE m == cp.map[i].map
           n == cp.map[i].inoden
<1>2. m \in Nat /\ Chain(View, n, m) /\ m \in Slot /\ m - 1 \in Slot /\ m - 2 \in Slot
  BY <1>1, LiveFacts
<1>3. (a <= m - 2 /\ m < cp.lfst) \/ cp.lfst <= m - 2
  BY DEF Beyond
<1>4. m - 2 # a
  <2> SUFFICES ASSUME m - 2 = a, m < cp.lfst PROVE IsAlive(State, a)
    BY <1>1, <1>2, <1>3
  <2>0. GetImap(State, n) = log[m]
    BY LiveImap
  <2> HIDE DEF m, n
  <2>1. log[m] = View[m] /\ log[m - 1] = View[m - 1] /\ log[m - 2] = View[m - 2]
    <3>1. m - 1 < cp.lfst /\ m - 2 < cp.lfst
      BY <1>1, <1>2
    <3> QED BY <1>1, <1>2, <3>1
  <2>2. /\ log[m] = Imap(n, m - 1)
        /\ log[m - 1] = Inode(n, "dir", m - 2) \/ log[m - 1] = Inode(n, "file", m - 2)
        /\ log[m - 2].type \in {"fdata", "ddata"}
    BY <1>2, <2>1 DEF Chain
  <2>3. log[m].type = "imap" /\ log[m].inoden = n /\ log[m].inode = m - 1
        /\ log[m - 1].type = "inode" /\ log[m - 1].num = n
    BY <2>2, Constructors
  <2>4. GetInode(State, log[m], n) = log[m - 1]
    BY <1>1, <1>2, <2>3, LoadFact DEF GetInode
  <2>5. InodeAlive(State, log[m - 1])
    BY <2>0, <2>3, <2>4 DEF InodeAlive
  <2>6. a + 1 < LogSize /\ m - 1 = a + 1
    BY <1>1, <1>2, Sizes
  <2>7. Following(State, a) = m - 1
    BY <2>6, FollowingFact
  <2>8. Load(State, m - 1) = log[m - 1]
    BY <1>1, <1>2, LoadFact
  <2>9. log[a].type \in {"fdata", "ddata"}
    BY <2>2
  <2> QED BY <1>1, <2>5, <2>7, <2>8, <2>9 DEF IsAlive
<1> QED BY <1>1, <1>2, <1>3, <1>4

(***************************************************************************)
(* The walk passes by no file.                                             *)
(***************************************************************************)
LEMMA GcWalkIInv ==
  ASSUME IInv, GcWalk
  PROVE  IInv'
<1> SUFFICES ASSUME sound PROVE IInv'
  BY DEF IInv, GcWalk
<1> DEFINE a == gc.addr
<1>1. /\ gc # NoGc /\ gc.curr = Nowhere /\ gc.left > 0
      /\ cp' = cp /\ buffer' = buffer /\ log' = log /\ saved' = saved
  BY DEF GcWalk
<1>2. cp # NoCp /\ Collecting
  BY <1>1, NoCpAssumption DEF IInv, Down, Running, Good
<1>3. /\ Running /\ Good(View, cp) /\ cp.lfst \in Nat /\ cp.lfst < LogSize
  BY <1>2, RunningFacts, Sizes
<1>4. a \in Nat /\ gc.left \in Nat /\ a + gc.left <= cp.lfst /\ Beyond(a)
  <2>1. a \in Nat /\ gc.left \in Nat
    BY <1>2 DEF Collecting
  <2>2. Nowhere \notin {a - 1, a, a + 1}
    BY <2>1 DEF Nowhere
  <2> QED BY <1>1, <1>2, <2>1, <2>2 DEF Collecting, Walking, Moving
<1>5. a < cp.lfst /\ a + 1 < LogSize /\ a \in Slot /\ a + 1 \in Nat
  BY <1>1, <1>3, <1>4, Sizes
<1>6. log[a] # Zero
  <2>1. a \in 0 .. cp.lfst - 1
    BY <1>3, <1>4, <1>5
  <2> QED BY <1>2, <2>1 DEF Collecting
<1>7. Following(State, a) = a + 1
  BY <1>2, <1>4, <1>5, <1>6, FollowingFact
<1>8. View' = View
  BY <1>1 DEF View
<1>9. Collecting'
  <2>1. PICK l, c, par, n : gc = Walk(a, l, c, par, n)
    <3>1. PICK x, l, c, par, n : gc = Walk(x, l, c, par, n)
      BY <1>2 DEF Collecting, IsWalk
    <3>2. gc.addr = x
      BY <3>1 DEF Walk
    <3> QED BY <3>1, <3>2
  <2>2. gc.left = l /\ gc.curr = c
    BY <2>1 DEF Walk
  <2> HIDE DEF a
  <2>3. CASE IsAlive(State, a)
    <3>1. gc' = [gc EXCEPT !.addr = a + 1, !.curr = a]
      BY <1>5, <1>7, <2>3 DEF GcWalk, a
    <3>2. gc' = Walk(a + 1, l, a, par, n)
      BY <2>1, <3>1 DEF Walk
    <3>3. gc'.addr = a + 1 /\ gc'.left = gc.left /\ gc'.curr = a
      BY <2>2, <3>2 DEF Walk
    <3>4. \E i \in Live(cp.map) : cp.map[i].map = a + 2 /\ a + 2 < cp.lfst
      BY <1>2, <1>4, <1>5, <1>6, <2>3, AliveFact
    <3>5. Beyond(gc.addr - 1)'
      <4>1. gc'.addr - 1 = a
        BY <1>4, <3>3
      <4>2. Beyond(gc.addr - 1)' <=> Beyond(a)
        BY <1>1, <3>3, <4>1 DEF Beyond
      <4> QED BY <1>4, <4>2
    <3>6. Moving'
      BY <1>1, <1>4, <1>5, <3>3, <3>4, <3>5 DEF Moving
    <3>7. IsWalk(gc)'
      BY <3>2 DEF IsWalk
    <3> QED BY <1>1, <1>2, <1>4, <1>5, <3>3, <3>6, <3>7 DEF Collecting
  <2>4. CASE ~IsAlive(State, a)
    <3>1. gc' = [gc EXCEPT !.addr = a + 1, !.left = @ - 1]
      BY <1>5, <1>7, <2>4 DEF GcWalk, a
    <3>2. gc' = Walk(a + 1, l - 1, c, par, n)
      BY <2>1, <3>1 DEF Walk
    <3>3. gc'.addr = a + 1 /\ gc'.left = gc.left - 1 /\ gc'.curr = Nowhere
      BY <1>1, <2>2, <3>2 DEF Walk
    <3>4. Beyond(gc.addr)'
      <4>1. Beyond(a + 1)
        BY <1>2, <1>4, <1>5, <1>6, <2>4, DeadFact
      <4>2. Beyond(gc.addr)' <=> Beyond(a + 1)
        BY <1>1, <3>3 DEF Beyond
      <4> QED BY <4>1, <4>2
    <3>5. Walking'
      BY <1>1, <1>4, <3>3, <3>4 DEF Walking
    <3>6. IsWalk(gc)'
      BY <3>2 DEF IsWalk
    <3>7. gc'.addr \in Nat /\ gc'.left \in Nat
      BY <1>1, <1>4, <1>5, <3>3
    <3> QED BY <1>1, <1>2, <3>5, <3>6, <3>7 DEF Collecting
  <2> QED BY <2>3, <2>4
<1>10. Running'
  BY <1>1, <1>3, <1>8, <1>9 DEF Running
<1>11. saved' = NoCp \/ Kept'
  BY <1>1, <1>8 DEF IInv, Kept
<1> QED BY <1>1, <1>8, <1>10, <1>11 DEF IInv

(***************************************************************************)
(* A block that is moved to the end of the log changes nothing below it.   *)
(***************************************************************************)
LEMMA AppendedFacts ==
  ASSUME IInv, sound, cp # NoCp, NEW x, NEW map, Appended(x, map)
  PROVE  /\ View'[cp.lend] = x /\ Placed(View') /\ Agree(View', View, cp.lend)
         /\ cp' \in Checkpoint /\ cp'.map = map /\ cp'.lfst = cp.lfst /\ cp'.lend = cp.lend + 1
         /\ buffer' \in Seq(Block) /\ cp'.lfst + Len(buffer') = cp'.lend
         /\ Placed(log') /\ (saved' = NoCp \/ Kept')
<1> DEFINE e == cp.lend
           f == cp.lfst
           w == View'
<1>1. /\ x \in Block /\ InPlace(x, e) /\ e + 1 < LogSize /\ map \in Seq(Entry)
      /\ cp' = [map |-> map, lend |-> e + 1, lfst |-> f]
      /\ buffer' = Append(buffer, x) /\ log' = log /\ saved' = saved
  BY DEF Appended
<1>2. /\ e \in Nat /\ f \in Slot /\ e \in Slot /\ f \in Nat
      /\ buffer \in Seq(Block) /\ Len(buffer) \in Nat /\ f + Len(buffer) = e
      /\ log \in [Slot -> Block] /\ View \in [Slot -> Block] /\ Placed(log) /\ Placed(View)
  BY RunningFacts
<1>3. cp'.map = map /\ cp'.lend = e + 1 /\ cp'.lfst = f
  BY <1>1
<1>4. w = [View EXCEPT ![e] = x]
  <2>1. w = Filled(f, Append(buffer, x), log)
    BY <1>1, <1>3 DEF View
  <2>2. Ends(f, buffer, e)
    BY <1>2 DEF Ends
  <2> HIDE DEF e, f
  <2>3. Filled(f, Append(buffer, x), log) = [Filled(f, buffer, log) EXCEPT ![e] = x]
    BY <1>1, <1>2, <2>2, FilledAppend
  <2>4. View = Filled(f, buffer, log)
    BY DEF View, f
  <2> HIDE DEF w
  <2> QED BY <2>1, <2>3, <2>4
<1> HIDE DEF w
<1>5. /\ w[e] = x /\ w \in [Slot -> Block]
      /\ \A a \in Slot : a # e => w[a] = View[a]
  BY <1>1, <1>2, <1>4
<1>6. Placed(w)
  BY <1>1, <1>2, <1>5 DEF Placed
<1>7. Agree(w, View, e)
  BY <1>2, <1>5, Sizes DEF Agree
<1>8. cp' \in Checkpoint
  <2>1. e + 1 \in Slot
    BY <1>1, <1>2, Sizes
  <2> QED BY <1>1, <1>2, <2>1 DEF Checkpoint
<1>9. buffer' \in Seq(Block) /\ cp'.lfst + Len(buffer') = cp'.lend
  BY <1>1, <1>2, <1>3
<1>10. saved' = NoCp \/ Kept'
  <2>1. cp'.lend \in Nat /\ e <= cp'.lend
    BY <1>2, <1>3
  <2> QED BY <1>1, <1>7, <2>1, KeptAppend DEF w
<1> QED BY <1>1, <1>2, <1>3, <1>5, <1>6, <1>7, <1>8, <1>9, <1>10 DEF w

(***************************************************************************)
(* The file that the garbage collector is moving, and what a step of it    *)
(* does.                                                                   *)
(***************************************************************************)
LEMMA GcMoveFacts ==
  ASSUME IInv, GcMove, sound'
  PROVE  LET block == log[gc.curr]
             ends == block.type = "imap"
         IN  /\ sound /\ cp # NoCp /\ Collecting /\ Moving /\ log' = log /\ saved' = saved
             /\ cp.lend + 1 < LogSize
             /\ buffer' = Append(buffer, Moved(block))
             /\ cp' = [map  |-> IF ends THEN SetCrMap(cp.map, gc.inoden, cp.lend) ELSE cp.map,
                       lend |-> cp.lend + 1, lfst |-> cp.lfst]
             /\ gc' = Walk(gc.addr, IF ends THEN gc.left - 1 ELSE gc.left,
                           IF ends THEN Nowhere ELSE Following(State, gc.curr), cp.lend,
                           IF block.type = "inode" THEN block.num ELSE gc.inoden)
<1> DEFINE block == log[gc.curr]
           ends == block.type = "imap"
           moved == Moved(block)
           e == cp.lend
           e2 == e + 1
           s == Run(cp.map, e2, cp.lfst, Append(buffer, moved), log)
           new == SetCrMap(cp.map, gc.inoden, e)
<1>1. /\ gc # NoGc /\ gc.curr \in Slot /\ saved' = saved /\ sound /\ Fits(1)
      /\ LET t == Stage(State, moved)
         IN  /\ Becomes(IF ends THEN WithMap(t, SetCrMap(t.cp.map, gc.inoden, Staged(t))) ELSE t)
             /\ gc' = Walk(gc.addr, IF ends THEN gc.left - 1 ELSE gc.left,
                           IF ends THEN Nowhere ELSE Following(State, gc.curr), Staged(t),
                           IF block.type = "inode" THEN block.num ELSE gc.inoden)
  BY DEF GcMove, Moved
<1>2. cp # NoCp /\ Collecting
  BY <1>1, NoCpAssumption DEF IInv, Down, Running, Good
<1>3. Moving
  BY <1>1, <1>2, Sizes DEF Collecting, Walking, Nowhere
<1>4. /\ State = Run(cp.map, e, cp.lfst, buffer, log) /\ e \in Nat /\ e2 = e + 1
      /\ buffer \in Seq(Block) /\ Len(buffer) \in Nat /\ e2 < LogSize
      /\ Len(buffer) + 1 < LogSize
  BY <1>1, <1>2, RunningFacts, Sizes, LfsAssumption DEF Fits
<1> HIDE DEF moved, e, e2
<1>5. Stage(State, moved) = s /\ Staged(s) = e
  BY <1>4, StageEffect
<1>6. s.cp.map = cp.map
  BY DEF Run
<1>7. WithMap(s, new) = Run(new, e2, cp.lfst, Append(buffer, moved), log)
  BY WithMapEffect
<1>8. Becomes(Run(IF ends THEN new ELSE cp.map, e2, cp.lfst, Append(buffer, moved), log))
  BY <1>1, <1>5, <1>6, <1>7
<1>9. /\ buffer' = Append(buffer, moved) /\ log' = log
      /\ cp' = [map |-> IF ends THEN new ELSE cp.map, lend |-> e2, lfst |-> cp.lfst]
  BY <1>8 DEF Becomes, Run
<1>10. gc' = Walk(gc.addr, IF ends THEN gc.left - 1 ELSE gc.left,
                  IF ends THEN Nowhere ELSE Following(State, gc.curr), e,
                  IF block.type = "inode" THEN block.num ELSE gc.inoden)
  BY <1>1, <1>5
<1> HIDE DEF block
<1> QED BY <1>1, <1>2, <1>3, <1>4, <1>9, <1>10 DEF moved, e, e2, block

(***************************************************************************)
(* The file whose data or inode is to be moved.                            *)
(***************************************************************************)
LEMMA GcFile ==
  ASSUME IInv, sound, cp # NoCp, Moving, gc.addr \in Nat
  PROVE  \E i \in Live(cp.map), t \in {"dir", "file"} :
           /\ cp.map[i].map = gc.addr + 1
           /\ gc.addr - 1 \in Slot /\ gc.addr \in Slot /\ gc.addr + 1 \in Slot
           /\ gc.addr - 1 \in Nat /\ gc.addr + 1 < LogSize
           /\ log[gc.addr + 1] = Imap(cp.map[i].inoden, gc.addr)
           /\ log[gc.addr] = Inode(cp.map[i].inoden, t, gc.addr - 1)
           /\ log[gc.addr - 1].type = (IF t = "dir" THEN "ddata" ELSE "fdata")
           /\ log[gc.addr - 1] = View[gc.addr - 1]
<1> DEFINE a == gc.addr
<1>1. PICK i \in Live(cp.map) : cp.map[i].map = a + 1
  BY DEF Moving
<1> DEFINE n == cp.map[i].inoden
<1>2. Chain(View, n, a + 1) /\ a + 1 \in Slot /\ a + 1 - 1 \in Slot /\ a + 1 - 2 \in Slot
  BY <1>1, RunningFacts, LiveFacts
<1>3. a \in Nat /\ a > 0 /\ a + 1 < cp.lfst /\ cp.lfst \in Nat
  BY RunningFacts DEF Moving
<1> HIDE DEF a, n
<1>4. a + 1 - 1 = a /\ a + 1 - 2 = a - 1 /\ a - 1 \in Nat /\ a - 1 < cp.lfst /\ a < cp.lfst
  BY <1>3
<1>5. log[a + 1] = View[a + 1] /\ log[a] = View[a] /\ log[a - 1] = View[a - 1]
  BY <1>2, <1>3, <1>4, RunningFacts
<1>6. /\ log[a + 1] = Imap(n, a)
      /\ \/ log[a] = Inode(n, "dir", a - 1) /\ log[a - 1].type = "ddata"
         \/ log[a] = Inode(n, "file", a - 1) /\ log[a - 1].type = "fdata"
  <2> DEFINE m == a + 1
  <2>1. Chain(View, n, m)
    BY <1>2
  <2>0. m - 1 = a /\ m - 2 = a - 1
    BY <1>3
  <2> HIDE DEF m
  <2>2. /\ View[m] = Imap(n, m - 1)
        /\ \/ View[m - 1] = Inode(n, "dir", m - 2) /\ View[m - 2].type = "ddata"
           \/ View[m - 1] = Inode(n, "file", m - 2) /\ View[m - 2].type = "fdata"
    BY <2>1 DEF Chain
  <2>3. /\ View[m] = Imap(n, a)
        /\ \/ View[a] = Inode(n, "dir", a - 1) /\ View[a - 1].type = "ddata"
           \/ View[a] = Inode(n, "file", a - 1) /\ View[a - 1].type = "fdata"
    BY <2>0, <2>2
  <2> QED BY <1>5, <2>3 DEF m
<1>7. a - 1 \in Slot /\ a \in Slot /\ a + 1 \in Slot /\ a + 1 < LogSize
  BY <1>2, <1>4, Sizes
<1>8. PICK t \in {"dir", "file"} :
        /\ log[a] = Inode(n, t, a - 1)
        /\ log[a - 1].type = (IF t = "dir" THEN "ddata" ELSE "fdata")
  BY <1>6
<1> QED BY <1>1, <1>4, <1>5, <1>6, <1>7, <1>8 DEF a, n

(***************************************************************************)
(* A step that leaves the checkpoint's map as it was keeps the tree.       *)
(***************************************************************************)
LEMMA GcAppend ==
  ASSUME IInv, sound, cp # NoCp, NEW x, Appended(x, cp.map), Collecting'
  PROVE  IInv' /\ Stays
<1>1. /\ View'[cp.lend] = x /\ Placed(View') /\ Agree(View', View, cp.lend)
      /\ cp' \in Checkpoint /\ cp'.map = cp.map /\ cp'.lfst = cp.lfst /\ cp'.lend = cp.lend + 1
      /\ buffer' \in Seq(Block) /\ cp'.lfst + Len(buffer') = cp'.lend
      /\ Placed(log') /\ (saved' = NoCp \/ Kept')
  BY AppendedFacts
<1>2. Good(View, cp) /\ cp.lend \in Nat
  BY RunningFacts
<1>3. cp'.lend >= cp.lend
  BY <1>1, <1>2
<1>4. Good(View', cp')
  BY <1>1, <1>2, <1>3, GoodFrame
<1>5. Running'
  BY <1>1, <1>4 DEF Running
<1>6. Stays
  <2>1. SavedTree' = SavedTree
    BY <1>1, SavedTreeAppend DEF Appended
  <2>2. Leads(View', cp) = Leads(View, cp)
    BY <1>1, <1>2, LeadsFrame
  <2>3. Leads(View', cp') = Leads(View', cp)
    BY <1>1 DEF Leads
  <2>4. cp' # NoCp
    BY <1>1, NoCpAssumption
  <2> QED BY <2>1, <2>2, <2>3, <2>4 DEF Stays, FilesTree
<1> QED BY <1>1, <1>5, <1>6 DEF IInv

(***************************************************************************)
(* Where the blocks that were moved are does not change where the files    *)
(* are that were not.                                                      *)
(***************************************************************************)
LEMMA BeyondFrame ==
  ASSUME NEW a, Beyond(a), cp'.map = cp.map, cp'.lfst = cp.lfst
  PROVE  Beyond(a)'
BY DEF Beyond

(***************************************************************************)
(* The data of a file is moved.                                            *)
(***************************************************************************)
LEMMA GcMoveData ==
  ASSUME IInv, GcMove, sound', gc.curr = gc.addr - 1
  PROVE  IInv' /\ Stays
<1> DEFINE a == gc.addr
           e == cp.lend
           block == log[gc.curr]
<1>1. /\ sound /\ cp # NoCp /\ Collecting /\ Moving /\ log' = log /\ saved' = saved
      /\ e + 1 < LogSize
      /\ buffer' = Append(buffer, Moved(block))
      /\ cp' = [map  |-> IF block.type = "imap" THEN SetCrMap(cp.map, gc.inoden, e) ELSE cp.map,
                lend |-> e + 1, lfst |-> cp.lfst]
      /\ gc' = Walk(gc.addr, IF block.type = "imap" THEN gc.left - 1 ELSE gc.left,
                    IF block.type = "imap" THEN Nowhere ELSE Following(State, gc.curr), e,
                    IF block.type = "inode" THEN block.num ELSE gc.inoden)
  BY GcMoveFacts
<1>2. a \in Nat /\ gc.left \in Nat
  BY <1>1 DEF Collecting
<1>3. PICK i \in Live(cp.map), t \in {"dir", "file"} :
        /\ a - 1 \in Slot /\ a \in Slot /\ a + 1 \in Slot /\ a - 1 \in Nat /\ a + 1 < LogSize
        /\ log[a - 1].type = (IF t = "dir" THEN "ddata" ELSE "fdata")
        /\ log[a - 1] = View[a - 1]
  BY <1>1, <1>2, GcFile
<1>4. block = log[a - 1] /\ block.type \in {"ddata", "fdata"}
  BY <1>3
<1>5. Moved(block) = block
  BY <1>4 DEF Moved
<1>6. /\ e \in Nat /\ cp.lfst \in Nat /\ cp.lfst <= e /\ Placed(log)
      /\ cp.map \in Seq(Entry) /\ a + 1 < cp.lfst
  BY <1>1, RunningFacts DEF Moving
<1>7. InPlace(block, e) /\ block \in Block
  <2>1. block \in Block
    BY <1>3, <1>4, <1>6 DEF Placed
  <2> QED BY <1>4, <2>1 DEF InPlace
<1>8. Following(State, gc.curr) = a
  <2>1. a - 1 \in 0 .. cp.lfst - 1
    BY <1>2, <1>3, <1>6
  <2>2. log[a - 1] # Zero
    BY <1>1, <2>1 DEF Collecting
  <2>3. a - 1 + 1 < LogSize /\ a - 1 + 1 = a
    BY <1>2, <1>3, Sizes
  <2> QED BY <1>1, <1>3, <2>2, <2>3, FollowingFact
<1> HIDE DEF block, e
<1>9. cp' = [map |-> cp.map, lend |-> e + 1, lfst |-> cp.lfst]
      /\ gc' = Walk(a, gc.left, a, e, gc.inoden)
  BY <1>1, <1>4, <1>8
<1>10. Appended(block, cp.map)
  BY <1>1, <1>5, <1>6, <1>7, <1>9 DEF Appended, e
<1>11. /\ View'[e] = block /\ cp'.map = cp.map /\ cp'.lfst = cp.lfst /\ cp'.lend = e + 1
  BY <1>1, <1>10, AppendedFacts DEF e
<1>12. /\ gc'.addr = a /\ gc'.left = gc.left /\ gc'.curr = a /\ gc'.prev = e /\ IsWalk(gc)'
  BY <1>9 DEF Walk, IsWalk
<1>13. Moving'
  <2>1. /\ gc.left > 0 /\ a > 0 /\ a + gc.left - 1 <= cp.lfst /\ Beyond(a - 1)
        /\ \E j \in Live(cp.map) : cp.map[j].map = a + 1
    BY <1>1 DEF Moving
  <2>2. Beyond(gc.addr - 1)'
    BY <1>11, <1>12, <2>1, BeyondFrame
  <2>3. cp'.lfst < cp'.lend /\ gc'.prev = cp'.lend - 1 /\ cp'.lend - 1 = e
    BY <1>6, <1>11, <1>12 DEF e
  <2>4. View'[cp'.lend - 1] = log'[gc'.addr - 1]
    BY <1>1, <1>4, <1>11, <1>12, <2>3
  <2> HIDE DEF a
  <2> QED BY <1>6, <1>11, <1>12, <2>1, <2>2, <2>3, <2>4 DEF Moving
<1>14. Collecting'
  BY <1>1, <1>2, <1>11, <1>12, <1>13 DEF Collecting
<1> QED BY <1>1, <1>10, <1>14, GcAppend

(***************************************************************************)
(* The inode of a file is moved.                                           *)
(***************************************************************************)
LEMMA GcMoveInode ==
  ASSUME IInv, GcMove, sound', gc.curr = gc.addr
  PROVE  IInv' /\ Stays
<1> DEFINE a == gc.addr
           e == cp.lend
           block == log[gc.curr]
           x == Moved(block)
<1>1. /\ sound /\ cp # NoCp /\ Collecting /\ Moving /\ log' = log /\ saved' = saved
      /\ e + 1 < LogSize
      /\ buffer' = Append(buffer, Moved(block))
      /\ cp' = [map  |-> IF block.type = "imap" THEN SetCrMap(cp.map, gc.inoden, e) ELSE cp.map,
                lend |-> e + 1, lfst |-> cp.lfst]
      /\ gc' = Walk(gc.addr, IF block.type = "imap" THEN gc.left - 1 ELSE gc.left,
                    IF block.type = "imap" THEN Nowhere ELSE Following(State, gc.curr), e,
                    IF block.type = "inode" THEN block.num ELSE gc.inoden)
  BY GcMoveFacts
<1>2. a \in Nat /\ gc.left \in Nat
  BY <1>1 DEF Collecting
<1>3. PICK i \in Live(cp.map), t \in {"dir", "file"} :
        /\ a - 1 \in Slot /\ a \in Slot /\ a + 1 \in Slot /\ a - 1 \in Nat /\ a + 1 < LogSize
        /\ log[a] = Inode(cp.map[i].inoden, t, a - 1)
  BY <1>1, <1>2, GcFile
<1>4. block = Inode(block.num, block.ftype, a - 1) /\ block.type = "inode" /\ block = log[a]
  BY <1>3, Constructors
<1>5. /\ e \in Nat /\ cp.lfst \in Nat /\ cp.lfst <= e /\ Placed(log) /\ e \in Slot
      /\ cp.map \in Seq(Entry) /\ a + 1 < cp.lfst
  BY <1>1, RunningFacts DEF Moving
<1>6. /\ cp.lfst < e /\ gc.prev = e - 1 /\ View[e - 1] = log[a - 1]
      /\ gc.left > 0 /\ a > 0 /\ a + gc.left - 1 <= cp.lfst /\ Beyond(a - 1)
      /\ \E j \in Live(cp.map) : cp.map[j].map = a + 1
  BY <1>1, <1>2 DEF Moving
<1>7. block \in Block
  BY <1>3, <1>4, <1>5 DEF Placed
<1>8. x = Inode(block.num, block.ftype, e - 1) /\ x.type = "inode" /\ x.idata = e - 1
  <2>1. x = [block EXCEPT !.idata = e - 1]
    BY <1>4, <1>6 DEF Moved
  <2> HIDE DEF block, x
  <2>2. x = Inode(block.num, block.ftype, e - 1)
    BY <1>4, <2>1 DEF Inode
  <2> QED BY <2>2, Constructors
<1>9. x \in Block /\ InPlace(x, e)
  <2>1. block.num \in 0 .. MaxInoden /\ block.ftype \in {"dir", "file"}
    BY <1>4, <1>7, Shapes
  <2>2. e - 1 \in Address
    BY <1>5, <1>6, Sizes DEF Address
  <2> HIDE DEF block
  <2>3. x \in Block
    BY <1>8, <2>1, <2>2, Constructors
  <2> QED BY <1>8, <2>3 DEF InPlace
<1>10. Following(State, gc.curr) = a + 1
  <2>1. a \in 0 .. cp.lfst - 1
    BY <1>2, <1>5
  <2>2. log[a] # Zero
    BY <1>1, <2>1 DEF Collecting
  <2> QED BY <1>1, <1>2, <1>3, <2>2, FollowingFact
<1>11. x = [log[a] EXCEPT !.idata = e - 1]
  BY <1>4, <1>6 DEF Moved
<1> HIDE DEF block, e, x
<1>12. cp' = [map |-> cp.map, lend |-> e + 1, lfst |-> cp.lfst]
       /\ gc' = Walk(a, gc.left, a + 1, e, block.num)
  BY <1>1, <1>4, <1>10
<1>13. Appended(x, cp.map)
  BY <1>1, <1>5, <1>9, <1>12 DEF Appended, e, x
<1>14. /\ View'[e] = x /\ cp'.map = cp.map /\ cp'.lfst = cp.lfst /\ cp'.lend = e + 1
       /\ Agree(View', View, e)
  BY <1>1, <1>13, AppendedFacts DEF e
<1>15. /\ gc'.addr = a /\ gc'.left = gc.left /\ gc'.curr = a + 1 /\ gc'.prev = e
       /\ gc'.inoden = block.num /\ IsWalk(gc)'
  BY <1>12 DEF Walk, IsWalk
<1>16. Moving'
  <2>1. Beyond(gc.addr - 1)'
    BY <1>6, <1>14, <1>15, BeyondFrame
  <2>2. cp'.lfst + 1 < cp'.lend /\ gc'.prev = cp'.lend - 1 /\ cp'.lend - 1 = e /\ cp'.lend - 2 = e - 1
        /\ e - 1 \in Slot /\ e - 1 < e
    BY <1>5, <1>6, <1>14, <1>15, Sizes
  <2>3. View'[cp'.lend - 2] = log'[gc'.addr - 1]
    <3>1. View'[e - 1] = View[e - 1]
      BY <1>14, <2>2 DEF Agree
    <3> QED BY <1>1, <1>6, <1>15, <2>2, <3>1
  <2>4. View'[cp'.lend - 1] = [log'[gc'.addr] EXCEPT !.idata = cp'.lend - 2]
    BY <1>1, <1>11, <1>14, <1>15, <2>2
  <2>5. gc'.inoden = log'[gc'.addr].num
    BY <1>1, <1>4, <1>15
  <2> HIDE DEF a
  <2> QED BY <1>5, <1>6, <1>14, <1>15, <2>1, <2>2, <2>3, <2>4, <2>5 DEF Moving
<1>17. Collecting'
  BY <1>1, <1>2, <1>14, <1>15, <1>16 DEF Collecting
<1> QED BY <1>1, <1>13, <1>17, GcAppend

(***************************************************************************)
(* A file whose chain was moved with its data leaves the tree as it was.   *)
(***************************************************************************)
LEMMA MovedGood ==
  ASSUME NEW v, NEW c, NEW par, NEW m, NEW w, NEW d, Moves(v, c, par, m, w, d),
         Good(v, c), w[m - 2] = v[c.map[par].map - 2]
  PROVE  Good(w, d)
<1>1. /\ Named(d.map) /\ Chained(w, d.map, d.lend) /\ Closed(d.map)
      /\ Live(d.map) = Live(c.map) /\ DOMAIN d.map = DOMAIN c.map
      /\ \A i \in DOMAIN c.map :
           d.map[i].name = c.map[i].name /\ d.map[i].inoden = c.map[i].inoden
      /\ \A i \in Live(c.map) : i # par =>
           d.map[i] = c.map[i] /\ w[c.map[i].map - 2] = v[c.map[i].map - 2]
      /\ d.map[par].map = m
  BY MoveGood
<1>2. \A i \in Live(c.map) : i \in DOMAIN c.map /\ w[d.map[i].map - 2] = v[c.map[i].map - 2]
  BY <1>1 DEF Live
<1>3. Listed(w, d.map)
  BY <1>1, <1>2 DEF Good, Listed
<1> QED BY <1>1, <1>3 DEF Good, Moves

(***************************************************************************)
(* The map of a file is moved, and its entry set.                          *)
(***************************************************************************)
LEMMA GcMoveImap ==
  ASSUME IInv, GcMove, sound', gc.curr = gc.addr + 1
  PROVE  IInv' /\ Stays
<1> DEFINE a == gc.addr
           e == cp.lend
           block == log[gc.curr]
           x == Moved(block)
           new == SetCrMap(cp.map, gc.inoden, e)
<1>1. /\ sound /\ cp # NoCp /\ Collecting /\ Moving /\ log' = log /\ saved' = saved
      /\ e + 1 < LogSize
      /\ buffer' = Append(buffer, Moved(block))
      /\ cp' = [map  |-> IF block.type = "imap" THEN SetCrMap(cp.map, gc.inoden, e) ELSE cp.map,
                lend |-> e + 1, lfst |-> cp.lfst]
      /\ gc' = Walk(gc.addr, IF block.type = "imap" THEN gc.left - 1 ELSE gc.left,
                    IF block.type = "imap" THEN Nowhere ELSE Following(State, gc.curr), e,
                    IF block.type = "inode" THEN block.num ELSE gc.inoden)
  BY GcMoveFacts
<1>2. a \in Nat /\ gc.left \in Nat
  BY <1>1 DEF Collecting
<1>3. PICK i \in Live(cp.map), t \in {"dir", "file"} :
        /\ cp.map[i].map = a + 1
        /\ a - 1 \in Slot /\ a \in Slot /\ a + 1 \in Slot /\ a - 1 \in Nat /\ a + 1 < LogSize
        /\ log[a + 1] = Imap(cp.map[i].inoden, a)
        /\ log[a] = Inode(cp.map[i].inoden, t, a - 1)
        /\ log[a - 1].type = (IF t = "dir" THEN "ddata" ELSE "fdata")
        /\ log[a - 1] = View[a - 1]
  BY <1>1, <1>2, GcFile
<1> DEFINE n == cp.map[i].inoden
<1>4. block = Imap(n, a) /\ block.type = "imap"
  BY <1>3, Constructors
<1>5. /\ e \in Nat /\ cp.lfst \in Nat /\ cp.lfst <= e /\ Placed(log) /\ e \in Slot
      /\ cp.map \in Seq(Entry) /\ a + 1 < cp.lfst /\ Good(View, cp)
  BY <1>1, RunningFacts DEF Moving
<1>6. /\ cp.lfst + 1 < e /\ gc.prev = e - 1 /\ View[e - 2] = log[a - 1]
      /\ View[e - 1] = [log[a] EXCEPT !.idata = e - 2] /\ gc.inoden = log[a].num
      /\ gc.left > 0 /\ a > 0 /\ a + gc.left - 1 <= cp.lfst /\ Beyond(a - 1)
  BY <1>1, <1>2 DEF Moving
<1>7. i \in DOMAIN cp.map /\ n \in 0 .. MaxInoden /\ gc.inoden = n
  BY <1>3, <1>5, <1>6, LiveFacts, Constructors
<1> HIDE DEF block, e, x, new
<1>8. x = Imap(n, e - 1) /\ x.type = "imap" /\ x.inode = e - 1
  <2>1. x = [block EXCEPT !.inode = e - 1]
    BY <1>4, <1>6 DEF Moved, x
  <2> HIDE DEF n, a
  <2>2. x = Imap(n, e - 1)
    BY <1>4, <2>1 DEF Imap
  <2> QED BY <2>2, Constructors
<1>9. x \in Block /\ InPlace(x, e)
  <2>1. e - 1 \in Address
    BY <1>5, <1>6, Sizes DEF Address
  <2> HIDE DEF n
  <2>2. x \in Block
    BY <1>7, <1>8, <2>1, Constructors
  <2> QED BY <1>8, <2>2 DEF InPlace
<1>10. View[e - 1] = Inode(n, t, e - 2)
  <2> HIDE DEF n
  <2>1. log[a] = Inode(n, t, a - 1)
    BY <1>3 DEF n
  <2> QED BY <1>6, <2>1 DEF Inode
<1>11. new \in Seq(Entry) /\ new = SetCrMap(cp.map, n, e)
  <2>1. Named(cp.map) /\ e \in Address
    BY <1>5 DEF Good, Address
  <2>2. new = SetCrMap(cp.map, n, e)
    BY <1>7 DEF new
  <2> QED BY <1>5, <1>7, <2>1, <2>2, SetEffect
<1>12. /\ cp' = [map |-> new, lend |-> e + 1, lfst |-> cp.lfst]
       /\ gc' = Walk(a, gc.left - 1, Nowhere, e, gc.inoden)
  BY <1>1, <1>4 DEF e, new
<1>13. Appended(x, new)
  BY <1>1, <1>9, <1>11, <1>12 DEF Appended, e, x
<1>14. /\ View'[e] = x /\ cp'.map = new /\ cp'.lfst = cp.lfst /\ cp'.lend = e + 1
       /\ Agree(View', View, e) /\ Placed(View')
       /\ cp' \in Checkpoint
       /\ buffer' \in Seq(Block) /\ cp'.lfst + Len(buffer') = cp'.lend
       /\ Placed(log') /\ (saved' = NoCp \/ Kept')
  BY <1>1, <1>13, AppendedFacts DEF e
<1>15. /\ gc'.addr = a /\ gc'.left = gc.left - 1 /\ gc'.curr = Nowhere /\ IsWalk(gc)'
  BY <1>12 DEF Walk, IsWalk
<1>16. View'[e - 1] = Inode(n, t, e - 2) /\ View'[e - 2] = log[a - 1] /\ View'[e] = Imap(n, e - 1)
  <2>1. e - 1 \in Slot /\ e - 2 \in Slot /\ e - 1 < e /\ e - 2 < e
    BY <1>5, <1>6, Sizes
  <2>2. View'[e - 1] = View[e - 1] /\ View'[e - 2] = View[e - 2]
    BY <1>14, <2>1 DEF Agree
  <2> QED BY <1>6, <1>8, <1>10, <1>14, <2>2
<1>17. Chain(View', n, e)
  <2>1. e \in 2 .. LogSize - 1
    BY <1>5, <1>6, Sizes
  <2>2. \/ t = "dir" /\ View'[e - 2].type = "ddata"
        \/ t = "file" /\ View'[e - 2].type = "fdata"
    BY <1>3, <1>16
  <2> HIDE DEF n
  <2> QED BY <1>16, <2>1, <2>2 DEF Chain
<1>18. Moves(View, cp, i, e, View', cp')
  <2>1. cp \in Checkpoint /\ Named(cp.map) /\ Chained(View, cp.map, cp.lend) /\ Closed(cp.map)
    BY <1>5 DEF Good
  <2>2. cp.lend <= cp'.lend /\ e < cp'.lend
    BY <1>5, <1>14 DEF e
  <2>3. cp'.map = SetCrMap(cp.map, cp.map[i].inoden, e)
    BY <1>11, <1>14
  <2> QED BY <1>3, <1>5, <1>14, <1>17, <2>1, <2>2, <2>3 DEF Moves, e
<1>19. Good(View', cp')
  <2>1. cp.map[i].map - 2 = a - 1
    BY <1>2, <1>3
  <2>2. View'[e - 2] = View[cp.map[i].map - 2]
    BY <1>3, <1>16, <2>1
  <2> QED BY <1>5, <1>18, <2>2, MovedGood
<1>20. Beyond(gc.addr)'
  <2>1. /\ Live(cp'.map) = Live(cp.map) /\ cp'.map[i].map = e
        /\ \A j \in Live(cp.map) : j # i => cp'.map[j] = cp.map[j]
    BY <1>18, MoveGood
  <2> SUFFICES ASSUME NEW j \in Live(cp.map)
               PROVE  \/ a <= cp'.map[j].map - 2 /\ cp'.map[j].map < cp.lfst
                      \/ cp.lfst <= cp'.map[j].map - 2
    BY <1>14, <1>15, <2>1 DEF Beyond
  <2>2. CASE j = i
    BY <1>5, <1>6, <2>1, <2>2
  <2>3. CASE j # i
    <3> DEFINE m == cp.map[j].map
    <3>1. cp'.map[j].map = m
      BY <2>1, <2>3
    <3>2. m \in Nat /\ Chain(View, cp.map[j].inoden, m) /\ j \in DOMAIN cp.map
      BY <1>5, LiveFacts
    <3>3. (a - 1 <= m - 2 /\ m < cp.lfst) \/ cp.lfst <= m - 2
      BY <1>6 DEF Beyond
    <3>4. m # a + 1
      <4> SUFFICES ASSUME m = a + 1 PROVE FALSE
        OBVIOUS
      <4>1. View[m] = Imap(cp.map[j].inoden, m - 1)
        BY <3>2 DEF Chain
      <4>2. Chain(View, n, m)
        BY <1>3, <1>5, LiveFacts
      <4>3. View[m] = Imap(n, m - 1)
        BY <4>2 DEF Chain
      <4>4. cp.map[j].inoden = n
        BY <4>1, <4>3, Constructors
      <4> QED BY <1>5, <1>7, <2>3, <3>2, <4>4 DEF Good, Named
    <3> HIDE DEF m, a
    <3> QED BY <1>2, <1>5, <3>1, <3>2, <3>3, <3>4 DEF a
  <2> QED BY <2>2, <2>3
<1>21. Walking'
  <2>1. gc'.addr + gc'.left <= cp'.lfst
    BY <1>2, <1>6, <1>14, <1>15
  <2> QED BY <1>15, <1>20, <2>1 DEF Walking
<1>22. Collecting'
  <2>1. gc'.addr \in Nat /\ gc'.left \in Nat
    BY <1>2, <1>6, <1>15
  <2> QED BY <1>1, <1>14, <1>15, <1>21, <2>1 DEF Collecting
<1>23. Running'
  BY <1>14, <1>19, <1>22 DEF Running
<1>24. Stays
  <2>1. SavedTree' = SavedTree
    BY <1>1, <1>14, SavedTreeAppend DEF e
  <2>2. Leads(View', cp') = Leads(View, cp)
    <3>1. cp.map[i].map - 2 = a - 1
      BY <1>2, <1>3
    <3>2. Held(View'[e - 2]) = Held(View[cp.map[i].map - 2])
      BY <1>3, <1>16, <3>1
    <3> QED BY <1>18, <3>2, MovedLeads
  <2>3. cp' # NoCp
    BY <1>14, NoCpAssumption
  <2> QED BY <1>1, <2>1, <2>2, <2>3 DEF Stays, FilesTree
<1> QED BY <1>14, <1>23, <1>24 DEF IInv

(***************************************************************************)
(* A step of the garbage collector that moves a block keeps the invariant, *)
(* and the trees.                                                          *)
(***************************************************************************)
LEMMA GcMoveIInv ==
  ASSUME IInv, GcMove
  PROVE  IInv' /\ (sound' => Stays)
<1> SUFFICES ASSUME sound' PROVE IInv' /\ Stays
  BY DEF IInv
<1>1. Moving
  BY GcMoveFacts
<1>2. gc.curr = gc.addr - 1 \/ gc.curr = gc.addr \/ gc.curr = gc.addr + 1
  BY <1>1 DEF Moving
<1> QED BY <1>2, GcMoveData, GcMoveInode, GcMoveImap

-----------------------------------------------------------------------------
(* The invariant *)

(***************************************************************************)
(* Before the disk is formatted or read there is nothing.                  *)
(***************************************************************************)
LEMMA InitIInv ==
  ASSUME Init
  PROVE  IInv
<1>1. /\ cp = NoCp /\ saved = NoCp /\ gc = NoGc /\ buffer = <<>>
      /\ log = [a \in Slot |-> Zero]
  BY DEF Init
<1>2. Zero \in Block /\ Zero.type = "imap"
  BY Constructors
<1>3. log \in [Slot -> Block]
  BY <1>1, <1>2
<1>4. \A a \in Slot : InPlace(log[a], a)
  BY <1>1, <1>2 DEF InPlace
<1>5. Placed(log)
  BY <1>3, <1>4 DEF Placed
<1>6. View = log
  BY <1>1, <1>3, FilledEmpty DEF View
<1>7. buffer \in Seq(Block)
  BY <1>1
<1> QED BY <1>1, <1>5, <1>6, <1>7 DEF IInv, Down

(***************************************************************************)
(* Every command, and every step of the garbage collector, keeps the       *)
(* invariant.                                                              *)
(***************************************************************************)
LEMMA NextIInv ==
  ASSUME IInv, [Next]_vars
  PROVE  IInv'
<1>1. CASE gc = NoGc /\ Command /\ UNCHANGED gc
  <2>1. CASE fs_init
    BY <1>1, <2>1, RestartIInv
  <2>2. CASE fs_sync_cr
    BY <1>1, <2>2, SyncCrIInv
  <2>3. CASE fs_sync_lbuf
    <3>1. /\ cp # NoCp /\ Becomes(SyncLogBuf(State)) /\ sound' = sound
          /\ saved' \in {saved, Reloaded(cp)} /\ gc' = NoGc
      BY <1>1, <2>3 DEF fs_sync_lbuf
    <3> QED BY <3>1, SyncIInv
  <2>4. CASE fs_sync
    <3>1. /\ cp # NoCp /\ Becomes(SyncLogBuf(State)) /\ sound' = sound
          /\ saved' \in {saved, Reloaded(cp)} /\ gc' = NoGc
      BY <1>1, <2>4 DEF fs_sync
    <3> QED BY <3>1, SyncIInv
  <2>5. CASE \E leftover \in 0 .. 1, room \in Rooms : fs_creat(leftover, room)
    BY <1>1, <2>5, CreatIInv
  <2>6. CASE \E name \in FileNames, text \in Texts : \E parent \in ParentTexts(name) :
             fs_mkfile(name, parent, Fdata(text), "file")
    <3>0. PICK name \in FileNames, text \in Texts : \E parent \in ParentTexts(name) :
             fs_mkfile(name, parent, Fdata(text), "file")
      BY <2>6
    <3>1. PICK parent \in ParentTexts(name) : fs_mkfile(name, parent, Fdata(text), "file")
      BY <3>0
    <3>2. name \in Names \ {Root}
      BY LfsAssumption
    <3>3. Content(Fdata(text), "file")
      BY Constructors DEF Content
    <3> QED BY <1>1, <3>1, <3>2, <3>3, MkfileIInv
  <2>7. CASE \E name \in DirNames, room \in Rooms : \E parent \in ParentTexts(name) :
             fs_mkfile(name, parent, Ddata({}, room), "dir")
    <3>0. PICK name \in DirNames, room \in Rooms : \E parent \in ParentTexts(name) :
             fs_mkfile(name, parent, Ddata({}, room), "dir")
      BY <2>7
    <3>1. PICK parent \in ParentTexts(name) : fs_mkfile(name, parent, Ddata({}, room), "dir")
      BY <3>0
    <3>2. name \in Names \ {Root}
      BY LfsAssumption
    <3>3. Content(Ddata({}, room), "dir")
      <4>1. room \in 0 .. MAX_DIR_FILES
        BY LfsAssumption DEF Rooms
      <4> QED BY <4>1, Constructors DEF Content
    <3> QED BY <1>1, <3>1, <3>2, <3>3, MkfileIInv
  <2>8. CASE \E name \in Names : fs_remove(name)
    BY <1>1, <2>8, RemoveIInv
  <2>9. CASE \E room \in Rooms : fs_creat_cut(room)
    BY <2>9 DEF fs_creat_cut, IInv
  <2> QED BY <1>1, <2>1, <2>2, <2>3, <2>4, <2>5, <2>6, <2>7, <2>8, <2>9 DEF Command
<1>2. CASE \E len \in GcLengths, stray \in Strays : fs_run_gc(len, stray)
  BY <1>2, GcStartIInv
<1>3. CASE GcWalk
  BY <1>3, GcWalkIInv
<1>4. CASE GcMove
  BY <1>4, GcMoveIInv
<1>5. CASE GcEnd
  <2>1. /\ gc # NoGc /\ gc' = NoGc /\ Becomes(SyncLogBuf(State)) /\ sound' = sound
        /\ saved' \in {saved, Reloaded(cp)}
    BY <1>5 DEF GcEnd, GcDone, fs_sync
  <2>2. sound => cp # NoCp
    BY <2>1, NoCpAssumption DEF IInv, Down, Running, Good
  <2>3. CASE ~sound
    BY <2>1, <2>3 DEF IInv
  <2>4. CASE sound
    BY <2>1, <2>2, <2>4, SyncIInv
  <2> QED BY <2>3, <2>4
<1>6. CASE Reboot
  BY <1>6, RestartIInv
<1>8. CASE GcSave
  BY <1>8, SyncCrIInv DEF GcSave
<1>7. CASE UNCHANGED vars
  <2>1. /\ cp' = cp /\ buffer' = buffer /\ log' = log /\ saved' = saved /\ gc' = gc
        /\ sound' = sound
    BY <1>7 DEF vars
  <2>2. View' = View
    BY <2>1 DEF View
  <2>3. Down' <=> Down
    BY <2>1 DEF Down
  <2>4. Collecting' <=> Collecting
    <3>1. Walking' <=> Walking
      BY <2>1 DEF Walking, Beyond
    <3>2. Moving' <=> Moving
      BY <2>1, <2>2 DEF Moving, Beyond
    <3> QED BY <2>1, <3>1, <3>2 DEF Collecting
  <2>5. Running' <=> Running
    BY <2>1, <2>2, <2>4 DEF Running
  <2>6. Kept' <=> Kept
    BY <2>1, <2>2 DEF Kept
  <2> QED BY <2>1, <2>2, <2>3, <2>5, <2>6 DEF IInv
<1> QED BY <1>1, <1>2, <1>3, <1>4, <1>5, <1>6, <1>7, <1>8 DEF Next

(***************************************************************************)
(* A block is read from the buffer, or from the disk: from the log as it   *)
(* will be.                                                                *)
(***************************************************************************)
LEMMA ReadFact ==
  ASSUME IInv, sound, NEW a \in Slot
  PROVE  Read(a) = View[a]
<1>0. State.log = log /\ a \in Nat /\ log \in [Slot -> Block]
  BY Sizes DEF State, IInv, Placed
<1>1. CASE cp = NoCp
  <2>1. ~Unsynced(a)
    BY <1>1 DEF Unsynced
  <2>2. Read(a) = log[a]
    BY <1>0, <2>1, LoadFact DEF Read
  <2>3. buffer = <<>>
    BY <1>1, NoCpAssumption DEF IInv, Down, Running, Good
  <2> QED BY <1>0, <2>2, <2>3, FilledEmpty DEF View
<1>2. CASE cp # NoCp
  <2>1. /\ cp.lend \in Nat /\ cp.lfst \in Nat /\ buffer \in Seq(Block) /\ Len(buffer) \in Nat
        /\ cp.lfst + Len(buffer) = cp.lend
    BY <1>2, RunningFacts
  <2>2. CASE cp.lfst <= a /\ a < cp.lend
    <3>1. Unsynced(a) /\ Ahead(a) = a - cp.lfst
      BY <1>2, <2>2, UnsyncedFact
    <3>2. Read(a) = buffer[a - cp.lfst + 1]
      BY <3>1 DEF Read
    <3>3. buffer # <<>> /\ a < cp.lfst + Len(buffer)
      BY <1>0, <2>1, <2>2
    <3> QED BY <2>2, <3>2, <3>3 DEF View, Filled
  <2>3. CASE ~(cp.lfst <= a /\ a < cp.lend)
    <3>1. ~Unsynced(a)
      BY <1>2, <2>3, UnsyncedFact
    <3>2. Read(a) = log[a]
      BY <1>0, <3>1, LoadFact DEF Read
    <3> QED BY <2>1, <2>3, <3>2 DEF View, Filled
  <2> QED BY <2>2, <2>3
<1> QED BY <1>1, <1>2

(***************************************************************************)
(* What a live entry of a checkpoint is read as.                           *)
(***************************************************************************)
LEMMA DataFact ==
  ASSUME IInv, sound, NEW c, Good(View, c), NEW i \in Live(c.map)
  PROVE  DataOf(c.map[i]) = View[c.map[i].map - 2]
<1> DEFINE m == c.map[i].map
           n == c.map[i].inoden
<1>1. Chain(View, n, m) /\ m \in Slot /\ m - 1 \in Slot /\ m - 2 \in Slot
  BY LiveFacts
<1> HIDE DEF m, n
<1>2. Read(m) = Imap(n, m - 1) /\ Read(m - 2) = View[m - 2] /\ Read(m - 1) = View[m - 1]
  BY <1>1, ReadFact DEF Chain
<1>3. PICK t : /\ Read(m - 1) = Inode(n, t, m - 2)
               /\ (t = "dir") = (Read(m - 2).type = "ddata")
  <2>1. CASE View[m - 1] = Inode(n, "dir", m - 2) /\ View[m - 2].type = "ddata"
    BY <1>2, <2>1
  <2>2. CASE View[m - 1] = Inode(n, "file", m - 2) /\ View[m - 2].type = "fdata"
    BY <1>2, <2>2
  <2> QED BY <1>1, <2>1, <2>2 DEF Chain
<1>4. /\ Read(m).type = "imap" /\ Read(m).inoden = n /\ Read(m).inode = m - 1
      /\ Read(m - 1).type = "inode" /\ Read(m - 1).num = n /\ Read(m - 1).ftype = t
      /\ Read(m - 1).idata = m - 2
  BY <1>2, <1>3, Constructors
<1> QED BY <1>2, <1>3, <1>4 DEF DataOf, m, n

(***************************************************************************)
(* The tree that is read is the one the checkpoint leads to.               *)
(***************************************************************************)
LEMMA TreeFact ==
  ASSUME IInv, sound, NEW c, Good(View, c)
  PROVE  Tree(c) = Leads(View, c)
<1>1. c # NoCp
  BY NoCpAssumption DEF Good
<1>2. \A i \in Live(c.map) : ContentOf(c.map[i]) = Held(View[c.map[i].map - 2])
  BY DataFact DEF ContentOf, Held
<1> QED BY <1>1, <1>2 DEF Tree, Leads

(***************************************************************************)
(* What the store holds is what the checkpoints lead to.                   *)
(***************************************************************************)
LEMMA ShownFact == IInv => Shown
<1> SUFFICES ASSUME IInv, sound
             PROVE  Tree(saved) = SavedTree /\ (cp # NoCp => Tree(cp) = FilesTree)
  BY DEF Shown
<1>1. Tree(saved) = SavedTree
  <2>1. CASE saved = NoCp
    BY <2>1 DEF Tree, SavedTree
  <2>2. CASE saved # NoCp
    BY <2>2, TreeFact DEF IInv, Kept, SavedTree
  <2> QED BY <2>1, <2>2
<1>2. cp # NoCp => Tree(cp) = FilesTree
  BY RunningFacts, TreeFact DEF FilesTree
<1> QED BY <1>1, <1>2

(***************************************************************************)
(* The inductive invariant of the file system.                             *)
(***************************************************************************)
THEOREM IInvHolds == Spec => []IInv
BY InitIInv, NextIInv, PTL DEF Spec

(***************************************************************************)
(* The tree stays closed under fs_mkfile, fs_remove, the syncs, a restart  *)
(* and every step of the garbage collector: no file outlives its           *)
(* directory, and no two have one name or one inode number.                *)
(***************************************************************************)
THEOREM TreeAlwaysClosed == Spec => []TreeClosed
<1>1. ASSUME IInv PROVE TreeClosed
  <2> SUFFICES ASSUME sound, cp # NoCp
      PROVE  /\ \A i, j \in DOMAIN cp.map : i # j /\ cp.map[i].inoden # NoInoden =>
                  cp.map[i].name # cp.map[j].name /\ cp.map[i].inoden # cp.map[j].inoden
             /\ \A i \in Live(cp.map) : cp.map[i].name = Root \/
                  \E j \in Live(cp.map) : cp.map[j].name = Parent[cp.map[i].name]
             /\ \A i, j \in Live(cp.map) :
                  cp.map[i].name # Root /\ cp.map[j].name = Parent[cp.map[i].name] =>
                    \/ cp.map[i].name \in DataOf(cp.map[j]).names
                    \/ DataOf(cp.map[j]).room = 0
    BY DEF TreeClosed
  <2>1. Named(cp.map) /\ Closed(cp.map) /\ Listed(View, cp.map)
    BY <1>1, RunningFacts DEF Good
  <2>2. \A j \in Live(cp.map) : DataOf(cp.map[j]) = View[cp.map[j].map - 2]
    BY <1>1, RunningFacts, DataFact
  <2> QED BY <2>1, <2>2 DEF Named, Closed, Listed, Lists
<1> QED BY <1>1, IInvHolds, PTL

-----------------------------------------------------------------------------
(* The store *)

(***************************************************************************)
(* A sync saves the tree, or changes nothing.                              *)
(***************************************************************************)
LEMMA SyncStep ==
  ASSUME IInv, sound, cp # NoCp, Becomes(SyncLogBuf(State)),
         saved' = saved \/ saved' = Reloaded(cp)
  PROVE  Keeps
<1>1. /\ View' = View /\ cp' = Reloaded(cp) /\ Good(View, cp)
  BY SyncFacts, RunningFacts
<1>2. cp'.map = cp.map /\ Good(View, cp')
  BY <1>1, ReloadedFact
<1>3. cp' # NoCp
  BY <1>2, NoCpAssumption DEF Good
<1>4. FilesTree' = FilesTree /\ FilesTree = Leads(View, cp')
  BY <1>1, <1>2, <1>3 DEF FilesTree, Leads
<1>5. CASE saved' = saved
  BY <1>1, <1>4, <1>5 DEF Keeps, Promised, SavedTree
<1>6. CASE saved' = Reloaded(cp)
  <2>1. SavedTree' = FilesTree
    BY <1>1, <1>3, <1>4, <1>6 DEF SavedTree
  <2> QED BY <1>4, <2>1 DEF Keeps, Promised
<1> QED BY <1>5, <1>6

(***************************************************************************)
(* So does fs_sync_cr.                                                     *)
(***************************************************************************)
LEMMA SyncCrStep ==
  ASSUME IInv, sound, fs_sync_cr
  PROVE  Keeps
<1>1. cp # NoCp /\ saved' = Reloaded(cp) /\ cp' = cp /\ buffer' = buffer /\ log' = log
  BY DEF fs_sync_cr
<1>2. View' = View /\ Good(View, cp)
  BY <1>1, RunningFacts DEF View
<1>3. saved'.map = cp.map /\ saved' # NoCp
  BY <1>1, <1>2, ReloadedFact, NoCpAssumption DEF Good
<1>4. FilesTree' = FilesTree /\ SavedTree' = FilesTree
  BY <1>1, <1>2, <1>3 DEF FilesTree, SavedTree, Leads
<1> QED BY <1>4 DEF Keeps, Promised

(***************************************************************************)
(* A restart, and fs_init, bring back the tree that was saved.             *)
(***************************************************************************)
LEMMA RestartStep ==
  ASSUME IInv, sound, sound', fs_init \/ Reboot
  PROVE  Keeps
<1>1. /\ ~Torn /\ buffer' = <<>> /\ log' = log /\ saved' = saved
      /\ \/ cp' = NoCp
         \/ cp' = saved /\ saved # NoCp
  BY DEF fs_init, Reboot
<1>2. View' = log
  BY <1>1, FilledEmpty DEF View, IInv, Placed
<1>3. SavedTree' = SavedTree
  BY <1>1, <1>2, ReadBack DEF SavedTree
<1>4. FilesTree' = SavedTree'
  BY <1>1 DEF FilesTree, SavedTree
<1> QED BY <1>3, <1>4 DEF Keeps, Promised

(***************************************************************************)
(* fs_creat leaves an empty root.                                          *)
(***************************************************************************)
LEMMA CreatStep ==
  ASSUME Formats
  PROVE  Keeps
<1>1. FilesTree' = {<<Root, Dir>>} /\ SavedTree' = {<<Root, Dir>>}
  BY DEF Formats, FilesTree, SavedTree
<1> QED BY <1>1 DEF Keeps, Promised

(***************************************************************************)
(* fs_remove removes the names in which the text of the name occurs.       *)
(***************************************************************************)
LEMMA RemoveStep ==
  ASSUME IInv, sound, NEW name \in Names, fs_remove(name)
  PROVE  Keeps
<1> DEFINE map == [i \in DOMAIN cp.map |->
                    IF cp.map[i].name \in Within[name] THEN [cp.map[i] EXCEPT !.map = Null]
                    ELSE cp.map[i]]
<1>1. /\ cp # NoCp /\ cp' = [cp EXCEPT !.map = map] /\ buffer' = buffer /\ log' = log
      /\ saved' = saved
  BY DEF fs_remove
<1>2. Good(View, cp) /\ cp = [map |-> cp.map, lend |-> cp.lend, lfst |-> cp.lfst]
      /\ cp.lend \in Slot /\ cp.lfst \in Slot /\ cp.map \in Seq(Entry)
  BY <1>1, RunningFacts
<1>3. map \in Seq(Entry)
  <2>1. \A i \in DOMAIN cp.map : map[i] \in Entry
    BY <1>2, EntryFacts DEF Entry, Address
  <2>2. DOMAIN cp.map = 1 .. Len(cp.map) /\ Len(cp.map) \in Nat
    BY <1>2
  <2>3. map = [i \in 1 .. Len(cp.map) |-> map[i]]
    BY <2>2
  <2> HIDE DEF map
  <2> QED BY <2>1, <2>2, <2>3
<1>4. cp' = [map |-> map, lend |-> cp.lend, lfst |-> cp.lfst]
  BY <1>1, <1>2
<1>5. cp'.map = map /\ cp'.lend = cp.lend /\ cp'.lfst = cp.lfst /\ cp' \in Checkpoint
  <2> HIDE DEF map
  <2> QED BY <1>2, <1>3, <1>4 DEF Checkpoint
<1>6. View' = View
  BY <1>1, <1>5 DEF View
<1>7. /\ Live(cp'.map) = {i \in Live(cp.map) : cp.map[i].name \notin Within[name]}
      /\ \A i \in Live(cp'.map) : cp'.map[i] = cp.map[i]
  <2> DEFINE v == View
             c == cp
             d == cp'
  <2>1. Good(v, c) /\ d \in Checkpoint /\ d.lend = c.lend
        /\ d.map = [i \in DOMAIN c.map |->
                     IF c.map[i].name \in Within[name] THEN [c.map[i] EXCEPT !.map = Null]
                     ELSE c.map[i]]
    BY <1>2, <1>5
  <2> HIDE DEF v, c, d
  <2>2. /\ Live(d.map) = {i \in Live(c.map) : c.map[i].name \notin Within[name]}
        /\ \A i \in Live(d.map) : d.map[i] = c.map[i]
    BY <2>1, RemoveGood
  <2> QED BY <2>2 DEF c, d
<1>8. Leads(View, cp') = {x \in Leads(View, cp) : x[1] \notin Within[name]}
  <2> DEFINE P(i) == <<cp'.map[i].name, Held(View[cp'.map[i].map - 2])>>
             Q(i) == <<cp.map[i].name, Held(View[cp.map[i].map - 2])>>
  <2>1. Leads(View, cp') = {P(i) : i \in Live(cp'.map)} /\ Leads(View, cp) = {Q(i) : i \in Live(cp.map)}
    BY DEF Leads
  <2>2. \A i \in Live(cp'.map) : P(i) = Q(i)
    BY <1>7
  <2>3. \A i \in Live(cp.map) : Q(i)[1] = cp.map[i].name
    OBVIOUS
  <2> HIDE DEF P, Q
  <2> QED BY <1>7, <2>1, <2>2, <2>3
<1>9. cp' # NoCp
  BY <1>5, NoCpAssumption
<1>10. FilesTree' = {x \in FilesTree : x[1] \notin Within[name]} /\ SavedTree' = SavedTree
  BY <1>1, <1>6, <1>8, <1>9 DEF FilesTree, SavedTree
<1> QED BY <1>10 DEF Keeps, Promised

(***************************************************************************)
(* fs_mkfile makes the file, in a directory that is there, or finds the    *)
(* checkpoint's map full.                                                  *)
(***************************************************************************)
LEMMA MkfileStep ==
  ASSUME IInv, sound, sound', NEW name \in Names \ {Root}, NEW parent, NEW data,
         NEW ftype, Content(data, ftype), fs_mkfile(name, parent, data, ftype), Grows(name, data)
  PROVE  Keeps
<1>1. /\ cp # NoCp /\ Found(name) = {}
      /\ \E n \in 0 .. MaxInoden, par \in Live(cp.map), e \in Nat :
           MkfileMade(name, data, ftype, n, par, e)
  BY MkfileEffect
<1>2. PICK par \in Live(cp.map) : cp.map[par].name = Parent[name]
                                 /\ View[cp.map[par].map - 2].type = "ddata"
  BY <1>1 DEF MkfileMade
<1>3. FilesTree = Leads(View, cp) /\ FilesTree' = Leads(View', cp') /\ SavedTree' = SavedTree
  BY <1>1 DEF FilesTree, Grows
<1>4. \A x \in Leads(View, cp) : x[1] # name
  <2> SUFFICES ASSUME NEW i \in Live(cp.map)
               PROVE  <<cp.map[i].name, Held(View[cp.map[i].map - 2])>>[1] # name
    BY DEF Leads
  <2>1. i \in DOMAIN cp.map /\ cp.map[i].inoden # NoInoden
    BY DEF Live
  <2>2. cp.map[i].name # name
    BY <1>1, <2>1 DEF Found
  <2> QED BY <2>2
<1>5. <<Parent[name], Dir>> \in Leads(View, cp)
  <2>1. Held(View[cp.map[par].map - 2]) = Dir
    BY <1>2 DEF Held
  <2>2. <<cp.map[par].name, Held(View[cp.map[par].map - 2])>> \in Leads(View, cp)
    BY DEF Leads
  <2> QED BY <1>2, <2>1, <2>2
<1>6. Held(data) \in Texts \cup {Dir}
  BY DEF Held, Content, Block, Inode, Imap, Junk
<1>7. \/ Leads(View', cp') = Leads(View, cp)
      \/ Leads(View', cp') = Leads(View, cp) \cup {<<name, Held(data)>>}
  BY DEF Grows, Grown
<1> HIDE DEF Leads
<1> QED BY <1>3, <1>4, <1>5, <1>6, <1>7 DEF Keeps, Promised

(***************************************************************************)
(* Every command keeps the promise of the store, and so does every step    *)
(* of the garbage collector, which changes nothing.                        *)
(***************************************************************************)
LEMMA NextStep ==
  ASSUME IInv, sound, sound', [Next]_vars
  PROVE  Keeps
<1>0. ASSUME cp' = cp, buffer' = buffer, log' = log, saved' = saved PROVE Keeps
  <2>1. View' = View
    BY <1>0 DEF View
  <2> QED BY <1>0, <2>1 DEF Keeps, Promised, FilesTree, SavedTree
<1>1. CASE gc = NoGc /\ Command /\ UNCHANGED gc
  <2>1. CASE fs_init
    BY <2>1, RestartStep
  <2>2. CASE fs_sync_cr
    BY <2>2, SyncCrStep
  <2>3. CASE fs_sync_lbuf
    BY <2>3, SyncStep DEF fs_sync_lbuf
  <2>4. CASE fs_sync
    BY <2>4, SyncStep DEF fs_sync
  <2>5. CASE \E leftover \in 0 .. 1, room \in Rooms : fs_creat(leftover, room)
    BY <1>1, <2>5, CreatIInv, CreatStep
  <2>6. CASE \E name \in FileNames, text \in Texts : \E parent \in ParentTexts(name) :
             fs_mkfile(name, parent, Fdata(text), "file")
    <3>0. PICK name \in FileNames, text \in Texts : \E parent \in ParentTexts(name) :
             fs_mkfile(name, parent, Fdata(text), "file")
      BY <2>6
    <3>1. PICK parent \in ParentTexts(name) : fs_mkfile(name, parent, Fdata(text), "file")
      BY <3>0
    <3>2. name \in Names \ {Root}
      BY LfsAssumption
    <3>3. Content(Fdata(text), "file")
      BY Constructors DEF Content
    <3> QED BY <1>1, <3>1, <3>2, <3>3, MkfileIInv, MkfileStep
  <2>7. CASE \E name \in DirNames, room \in Rooms : \E parent \in ParentTexts(name) :
             fs_mkfile(name, parent, Ddata({}, room), "dir")
    <3>0. PICK name \in DirNames, room \in Rooms : \E parent \in ParentTexts(name) :
             fs_mkfile(name, parent, Ddata({}, room), "dir")
      BY <2>7
    <3>1. PICK parent \in ParentTexts(name) : fs_mkfile(name, parent, Ddata({}, room), "dir")
      BY <3>0
    <3>2. name \in Names \ {Root}
      BY LfsAssumption
    <3>3. Content(Ddata({}, room), "dir")
      <4>1. room \in 0 .. MAX_DIR_FILES
        BY LfsAssumption DEF Rooms
      <4> QED BY <4>1, Constructors DEF Content
    <3> QED BY <1>1, <3>1, <3>2, <3>3, MkfileIInv, MkfileStep
  <2>8. CASE \E name \in Names : fs_remove(name)
    BY <2>8, RemoveStep
  <2>9. CASE \E room \in Rooms : fs_creat_cut(room)
    BY <2>9 DEF fs_creat_cut
  <2> QED BY <1>1, <2>1, <2>2, <2>3, <2>4, <2>5, <2>6, <2>7, <2>8, <2>9 DEF Command
<1>2. CASE \E len \in GcLengths, stray \in Strays : fs_run_gc(len, stray)
  BY <1>0, <1>2 DEF fs_run_gc
<1>3. CASE GcWalk
  BY <1>0, <1>3 DEF GcWalk
<1>4. CASE GcMove
  BY <1>4, GcMoveIInv DEF Stays, Keeps, Promised
<1>5. CASE GcEnd
  <2>1. gc # NoGc /\ Becomes(SyncLogBuf(State)) /\ saved' = Reloaded(cp)
    BY <1>5 DEF GcEnd, GcDone, fs_sync
  <2>2. cp # NoCp
    BY <2>1, NoCpAssumption DEF IInv, Down, Running, Good
  <2> QED BY <2>1, <2>2, SyncStep
<1>6. CASE Reboot
  BY <1>6, RestartStep
<1>8. CASE GcSave
  BY <1>8, SyncCrStep DEF GcSave
<1>7. CASE UNCHANGED vars
  BY <1>0, <1>7 DEF vars
<1> QED BY <1>1, <1>2, <1>3, <1>4, <1>5, <1>6, <1>7, <1>8 DEF Next

(***************************************************************************)
(* What was done that fs.c does not guard against is not undone.           *)
(***************************************************************************)
LEMMA SoundGuarded ==
  ASSUME sound \in BOOLEAN, NEW guarded, sound' = (sound /\ guarded)
  PROVE  sound' \in BOOLEAN /\ (sound' => sound)
OBVIOUS

(***************************************************************************)
(* No step makes sound true again.                                         *)
(***************************************************************************)
LEMMA SoundFact ==
  ASSUME sound \in BOOLEAN, [Next]_vars
  PROVE  sound' \in BOOLEAN /\ (sound' => sound)
<1>0. ASSUME NEW guarded, sound' = (sound /\ guarded) \/ sound' = sound
      PROVE  sound' \in BOOLEAN /\ (sound' => sound)
  <2>1. CASE sound' = (sound /\ guarded)
    BY <2>1, SoundGuarded
  <2>2. CASE sound' = sound
    BY <2>2
  <2> QED BY <1>0, <2>1, <2>2
<1>1. CASE Command
  <2>1. CASE \E leftover \in 0 .. 1, room \in Rooms : fs_creat(leftover, room)
    BY <2>1 DEF fs_creat
  <2>2. CASE \E name, parent, data, ftype : fs_mkfile(name, parent, data, ftype)
    BY <2>2 DEF fs_mkfile
  <2>3. CASE \E name \in Names : fs_remove(name)
    BY <2>3 DEF fs_remove
  <2>4. CASE fs_init
    <3>1. sound' = (sound /\ ~Torn)
      BY <2>4, Zenon DEF fs_init
    <3> QED BY <1>0, <3>1, Zenon
  <2>5. CASE fs_sync_cr \/ fs_sync_lbuf \/ fs_sync
    <3>1. sound' = sound
      BY <2>5, Zenon DEF fs_sync_cr, fs_sync_lbuf, fs_sync
    <3> QED BY <3>1
  <2>6. CASE \E room \in Rooms : fs_creat_cut(room)
    <3>1. sound' = FALSE
      BY <2>6, Zenon DEF fs_creat_cut
    <3> QED BY <3>1
  <2> QED BY <1>1, <2>1, <2>2, <2>3, <2>4, <2>5, <2>6 DEF Command
<1>2. CASE \E len \in GcLengths, stray \in Strays : fs_run_gc(len, stray)
  BY <1>2 DEF fs_run_gc
<1>3. CASE GcWalk \/ GcSave \/ GcEnd
  <2>1. sound' = sound
    BY <1>3, Zenon DEF GcWalk, GcSave, GcEnd, fs_sync_cr, fs_sync
  <2> QED BY <2>1
<1>4. CASE GcMove
  <2>1. sound' = (sound /\ Fits(1))
    BY <1>4, Zenon DEF GcMove
  <2> QED BY <1>0, <2>1, Zenon
<1>5. CASE Reboot
  <2>1. sound' = (sound /\ ~Torn)
    BY <1>5, Zenon DEF Reboot
  <2> QED BY <1>0, <2>1, Zenon
<1>6. CASE UNCHANGED vars
  BY <1>6 DEF vars
<1> QED BY <1>1, <1>2, <1>3, <1>4, <1>5, <1>6 DEF Next

(***************************************************************************)
(* What is inside a directory has its text in it.                          *)
(***************************************************************************)
LEMMA InsideWithin ==
  ASSUME NEW n \in Names
  PROVE  Store!Inside(n) \subseteq Within[n]
<1>1. Within[n] \in SUBSET Names /\ n \in Within[n]
  BY LfsAssumption
<1>2. ASSUME NEW d \in Names \ {Root}, Parent[d] \in Within[n] PROVE d \in Within[n]
  <2>1. Parent[d] \in Names /\ d \in Within[Parent[d]]
    BY LfsAssumption
  <2>2. Within[Parent[d]] \subseteq Within[n]
    BY <1>2, <2>1, LfsAssumption
  <2> QED BY <2>1, <2>2
<1> QED BY <1>1, <1>2 DEF Store!Inside

(***************************************************************************)
(* fs_remove takes what the store promises, or more.                       *)
(***************************************************************************)
LEMMA RemoveMeets ==
  ASSUME NEW n \in Names, NEW f, NEW g, g = {x \in f : x[1] \notin Within[n]}
  PROVE  \/ g = {x \in f : x[1] \notin Store!Inside(n)}
         \/ \E x \in f : x[1] \in Within[n] \ Store!Inside(n)
BY InsideWithin

(***************************************************************************)
(* The file system implements the store, for as long as it is used within  *)
(* what fs.c guards against: what was made is read back, a restart gives   *)
(* what was saved last, and collecting garbage changes nothing; fs_remove  *)
(* alone may take more than is promised, and no more than it looks for.    *)
(***************************************************************************)
THEOREM StoreImplemented == Spec => ImplementsStore
<1>1. Init => Store!Init
  BY DEF Init, Store!Init, Tree, FilesNow, FilesSaved
<1>2. IInv /\ Shown /\ Shown' /\ sound \in BOOLEAN /\ [Next]_vars
        => [Store!Next \/ RemovesMore]_(Store!vars)
  <2> SUFFICES ASSUME IInv, Shown, Shown', sound \in BOOLEAN, [Next]_vars
               PROVE  [Store!Next \/ RemovesMore]_(Store!vars)
    OBVIOUS
  <2> USE DEF Store!vars
  <2>1. sound' \in BOOLEAN /\ (sound' => sound)
    BY SoundFact
  <2>2. CASE ~sound
    BY <2>1, <2>2 DEF FilesNow, FilesSaved
  <2>3. CASE sound /\ ~sound'
    BY <2>3 DEF Store!Next, Store!Lose, FilesNow, FilesSaved
  <2>4. CASE sound /\ sound'
    <3>1. Keeps
      BY <2>4, NextStep
    <3>2. /\ FilesNow = FilesTree /\ FilesSaved = SavedTree
          /\ FilesNow' = FilesTree' /\ FilesSaved' = SavedTree'
      BY <2>4 DEF Shown, FilesTree, FilesNow, FilesSaved
    <3>3. Promised(FilesNow, FilesSaved, FilesNow', FilesSaved')
      BY <3>1, <3>2 DEF Keeps
    <3>4. CASE \E n \in Names : /\ FilesNow' = {x \in FilesNow : x[1] \notin Within[n]}
                               /\ FilesSaved' = FilesSaved
      <4>1. PICK n \in Names : /\ FilesNow' = {x \in FilesNow : x[1] \notin Within[n]}
                              /\ FilesSaved' = FilesSaved
        BY <3>4
      <4>2. CASE FilesNow' = {x \in FilesNow : x[1] \notin Store!Inside(n)}
        BY <2>4, <4>1, <4>2 DEF Store!Next, Store!Change, Store!Remove
      <4>3. CASE \E x \in FilesNow : x[1] \in Within[n] \ Store!Inside(n)
        BY <2>4, <4>1, <4>3 DEF RemovesMore
      <4> QED BY <4>1, <4>2, <4>3, RemoveMeets
    <3>5. CASE ~ \E n \in Names : /\ FilesNow' = {x \in FilesNow : x[1] \notin Within[n]}
                                 /\ FilesSaved' = FilesSaved
      BY <2>4, <3>3, <3>5 DEF Promised, Store!Next, Store!Format, Store!Empty, Store!Change,
         Store!Make, Store!Save, Store!Restart
    <3> QED BY <3>4, <3>5
  <2> QED BY <2>1, <2>2, <2>3, <2>4
<1>3. Init => sound \in BOOLEAN
  BY DEF Init
<1>4. Spec => []IInv
  BY IInvHolds
<1>5. Spec => []Shown
  BY <1>4, ShownFact, PTL
<1>6. sound \in BOOLEAN /\ [Next]_vars => (sound \in BOOLEAN)'
  BY SoundFact
<1>7. Spec => [](sound \in BOOLEAN)
  BY <1>3, <1>6, PTL DEF Spec
<1> QED BY <1>1, <1>2, <1>4, <1>5, <1>7, PTL DEF Spec, ImplementsStore

-----------------------------------------------------------------------------
(* The heap. *)

\* The blocks of the list, the addresses of those in use, and of all blocks.
List == {a \in HeapAddress : ptr[a] # NULL}

AtsOf(blocks) == {b.at : b \in blocks}

Ats == AtsOf(live)

HeadsOf(M) == (M \ {base}) \cup Ats

Heads == HeadsOf(List) \cup (IF Freeing THEN {bp} ELSE {})

\* The next of a in M is the one above it or, for the last one, the first.
Follows(next, M, a) ==
  /\ next[a] \in M
  /\ \/ a < next[a] /\ \A c \in M : ~ (a < c /\ c < next[a])
     \/ next[a] <= a /\ \A c \in M : next[a] <= c /\ c <= a

Cyclic(next, M) == M \subseteq HeapAddress /\ \A a \in M : Follows(next, M, a)

\* The blocks at H lie in the heap and share nothing.
Tiled(H, s) ==
  /\ \A a \in H : a \in 1 .. Units /\ s[a] \in 1 .. Units /\ a + s[a] <= Units + 1
  /\ \A a, c \in H : a < c => a + s[a] <= c

\* They leave nothing out.
Covered(H, s) == \A u \in 1 .. Units : \E a \in H : a <= u /\ u < a + s[a]

\* None begins where another one ends.
Separate(M, s) == \A a, c \in M \ {base} : a + s[a] # c

InUse(s) == \A b \in live : b.units = s[b.at] /\ b = [at |-> b.at, units |-> b.units]

\* a is met before c on the way from d, which comes to d last.
Before(d, a, c) == IF d < c THEN d < a /\ a < c ELSE d < a \/ a < c

Searching ==
  /\ nunits \in 1 .. MaxUnits
  /\ p \in List /\ prevp \in List /\ ptr[prevp] = p
  /\ \A a \in List : a # freep /\ Before(freep, a, p) => size[a] < nunits

Inserting == p \in List /\ bp \notin List /\ bp \notin Ats

Mode ==
  \/ doing = "idle" /\ nunits = 0
  \/ doing = "malloc" /\ Searching
  \/ doing = "free" /\ nunits = 0 /\ up /\ Inserting
  \/ doing = "morecore" /\ nunits \in 1 .. MaxUnits /\ up /\ Inserting

Unused ==
  /\ freep = NULL /\ doing = "idle" /\ nunits = 0 /\ live = {} /\ ~ up
  /\ ptr = [a \in HeapAddress |-> NULL] /\ size = [a \in HeapAddress |-> 0]

Fields ==
  /\ ptr \in [HeapAddress -> HeapAddress \cup {NULL}]
  /\ size \in [HeapAddress -> 0 .. Units] /\ size[base] = 0

Core ==
  /\ Fields /\ freep \in List /\ Cyclic(ptr, List)
  /\ Tiled(Heads, size) /\ Separate(List, size) /\ InUse(size)
  /\ Ats \cap List = {}
  /\ IF up THEN Covered(Heads, size) ELSE List = {base} /\ live = {}

Working == Core /\ Mode

HeapIInv ==
  /\ base \in {0, Units + 1} /\ up \in BOOLEAN /\ spent \in BOOLEAN
  /\ spent \/ Unused \/ Working
-----------------------------------------------------------------------------
(* Going round the list *)

(***************************************************************************)
(* A set of numbers with 0 and with the next of each has them all.         *)
(***************************************************************************)
LEMMA AllNumbers ==
  ASSUME NEW S, 0 \in S, \A n \in Nat : n \in S => n + 1 \in S
  PROVE  \A n \in Nat : n \in S
<1> SUFFICES ASSUME Nat \ S # {} PROVE FALSE
  OBVIOUS
<1>1. PICK x \in Nat \ S : \A y \in Nat \ S : x <= y
  BY Least
<1>2. x \in Nat /\ x # 0
  OBVIOUS
<1>3. x - 1 \in Nat /\ ~ (x <= x - 1) /\ (x - 1) + 1 = x
  BY <1>2
<1>4. x - 1 \in S
  BY <1>1, <1>3
<1> QED BY <1>1, <1>3, <1>4

IsOrbit(f, next, start, m) ==
  f = [n \in 0 .. m |-> IF n = 0 THEN start ELSE next[f[n - 1]]]

(***************************************************************************)
(* The blocks one meets from start are those of a sequence.                *)
(***************************************************************************)
LEMMA OrbitExists ==
  ASSUME NEW next, NEW start, NEW m \in Nat
  PROVE  \E f : IsOrbit(f, next, start, m)
<1> DEFINE S == {n \in Nat : \E f : IsOrbit(f, next, start, n)}
<1>1. 0 \in S
  <2>1. IsOrbit([i \in 0 .. 0 |-> start], next, start, 0)
    BY DEF IsOrbit
  <2> QED BY <2>1
<1>2. ASSUME NEW n \in Nat, n \in S PROVE n + 1 \in S
  <2>1. PICK f : f = [i \in 0 .. n |-> IF i = 0 THEN start ELSE next[f[i - 1]]]
    BY <1>2 DEF IsOrbit
  <2> DEFINE g == [i \in 0 .. n + 1 |-> IF i = n + 1 THEN next[f[n]] ELSE f[i]]
             h == [i \in 0 .. n + 1 |-> IF i = 0 THEN start ELSE next[g[i - 1]]]
  <2>2. ASSUME NEW i \in 0 .. n + 1 PROVE g[i] = h[i]
    <3>1. CASE i = 0
      BY <2>1, <3>1
    <3>2. CASE i = n + 1
      BY <3>2
    <3>3. CASE i \in 1 .. n
      <4>1. i - 1 \in 0 .. n /\ i - 1 # n + 1 /\ i # 0 /\ i # n + 1
        BY <3>3
      <4>2. f[i] = next[f[i - 1]]
        BY <2>1, <3>3, <4>1
      <4> QED BY <4>1, <4>2
    <3> QED BY <3>1, <3>2, <3>3
  <2>3. g = h
    BY <2>2
  <2>4. IsOrbit(g, next, start, n + 1)
    BY <2>3 DEF IsOrbit
  <2> HIDE DEF g, h
  <2>5. n + 1 \in Nat /\ \E h2 : IsOrbit(h2, next, start, n + 1)
    BY <2>4
  <2> QED BY <2>5
<1> HIDE DEF S
<1>3. m \in S
  BY <1>1, <1>2, AllNumbers
<1> QED BY <1>3 DEF S

\* f goes round from start.
Round(f, next, start) ==
  /\ f[0] = start
  /\ \A n \in 0 .. Units : f[n + 1] = next[f[n]]

(***************************************************************************)
(* OnList is where one comes to by going round.                            *)
(***************************************************************************)
LEMMA OrbitFact ==
  ASSUME NEW next, NEW start
  PROVE  \E f : Round(f, next, start) /\ OnList(next, start) = {f[n] : n \in 0 .. Units + 1}
<1>1. Units + 1 \in Nat
  BY HeapAssumption
<1>2. PICK f : IsOrbit(f, next, start, Units + 1)
  BY <1>1, OrbitExists
<1>3. PICK g : /\ g = [n \in 0 .. Units + 1 |-> IF n = 0 THEN start ELSE next[g[n - 1]]]
               /\ OnList(next, start) = {g[n] : n \in 0 .. Units + 1}
  BY <1>2 DEF OnList, IsOrbit
<1>4. g[0] = start
  BY <1>1, <1>3
<1>5. ASSUME NEW n \in 0 .. Units PROVE g[n + 1] = next[g[n]]
  <2>1. n + 1 \in 0 .. Units + 1 /\ n + 1 # 0 /\ (n + 1) - 1 = n
    BY HeapAssumption
  <2> QED BY <1>3, <2>1
<1> QED BY <1>3, <1>4, <1>5 DEF Round

(***************************************************************************)
(* The way up from a block passes all those above it.                      *)
(***************************************************************************)
LEMMA Climb ==
  ASSUME NEW M, NEW next, NEW f, NEW start, Cyclic(next, M), Round(f, next, start),
         NEW m \in 0 .. Units + 1, NEW k \in 0 .. m, NEW a \in M,
         f[k] \in M, f[k] <= a, k + (a - f[k]) <= m
  PROVE  \E n \in 0 .. m : f[n] = a
<1> DEFINE At(n, d) == /\ n \in 0 .. m /\ f[n] \in M /\ f[n] <= a /\ d = a - f[n]
                       /\ n + d <= m
           S == {d \in Nat : \E n \in 0 .. m : At(n, d)}
<1>0. Units \in Nat /\ \A c \in M : c \in 0 .. Units + 1
  BY HeapAssumption DEF Cyclic, HeapAddress
<1>1. S # {}
  <2>1. a - f[k] \in Nat
    BY <1>0
  <2>2. At(k, a - f[k])
    BY <1>0
  <2> QED BY <2>1, <2>2
<1>2. S \subseteq Nat
  OBVIOUS
<1> HIDE DEF S
<1>3. PICK d \in S : \A e \in S : d <= e
  BY <1>1, <1>2, Least
<1>4. PICK n \in 0 .. m : At(n, d)
  BY <1>3 DEF S
<1>5. d \in Nat
  BY <1>2
<1>6. CASE d = 0
  BY <1>0, <1>4, <1>6
<1>7. CASE d # 0
  <2>1. f[n] \in M /\ f[n] < a /\ f[n] \in Int /\ a \in Int
    BY <1>0, <1>4, <1>5, <1>7
  <2>2. Follows(next, M, f[n])
    BY <2>1 DEF Cyclic
  <2>3. next[f[n]] \in M /\ f[n] < next[f[n]] /\ next[f[n]] <= a
    <3> DEFINE u == f[n]
               v == next[u]
    <3>1. /\ v \in M
          /\ (u < v /\ ~ (u < a /\ a < v)) \/ (v <= u /\ a <= u)
      BY <2>2 DEF Follows
    <3>2. u < a /\ u \in Int /\ a \in Int
      BY <2>1
    <3> HIDE DEF u
    <3>3. v \in Int
      BY <1>0, <3>1
    <3> HIDE DEF v
    <3>4. u < v /\ v <= a
      BY <3>1, <3>2, <3>3
    <3> QED BY <3>1, <3>4 DEF u, v
  <2>4. n + 1 \in 0 .. m /\ n \in 0 .. Units
    BY <1>0, <1>4, <1>5, <1>7
  <2>5. f[n + 1] = next[f[n]]
    BY <2>4 DEF Round
  <2>6. a - f[n + 1] \in Nat /\ a - f[n + 1] < d /\ At(n + 1, a - f[n + 1])
    <3> DEFINE u == f[n]
               v == f[n + 1]
    <3>1. v \in M /\ u < v /\ v <= a /\ d = a - u /\ n + d <= m /\ u \in Int
      BY <1>4, <2>1, <2>3, <2>5
    <3> HIDE DEF u, v
    <3>2. v \in Int /\ a \in Int /\ m \in Int /\ n \in Int
      BY <1>0, <2>1, <3>1
    <3>3. a - v \in Nat /\ a - v < d /\ (n + 1) + (a - v) <= m
      BY <1>5, <3>1, <3>2
    <3> QED BY <2>4, <3>1, <3>3 DEF v  <2>7. a - f[n + 1] \in S
    BY <2>4, <2>6 DEF S
  <2> QED BY <1>3, <1>5, <2>6, <2>7
<1> QED BY <1>5, <1>6, <1>7

(***************************************************************************)
(* One comes to all blocks of a list from any of them, and to no other.    *)
(***************************************************************************)
LEMMA OnListFact ==
  ASSUME NEW M, NEW next, Cyclic(next, M), NEW start \in M
  PROVE  OnList(next, start) = M
<1>0. Units \in Nat /\ \A c \in M : c \in 0 .. Units + 1
  BY HeapAssumption DEF Cyclic, HeapAddress
<1>1. PICK f : Round(f, next, start) /\ OnList(next, start) = {f[n] : n \in 0 .. Units + 1}
  BY OrbitFact
<1> DEFINE S == {n \in Nat : n <= Units + 1 => f[n] \in M}
<1>2. 0 \in S
  BY <1>1 DEF Round
<1>3. ASSUME NEW n \in Nat, n \in S PROVE n + 1 \in S
  <2> SUFFICES ASSUME n + 1 <= Units + 1 PROVE f[n + 1] \in M
    OBVIOUS
  <2>1. n \in 0 .. Units /\ f[n] \in M
    BY <1>0, <1>3
  <2> QED BY <1>1, <2>1 DEF Round, Cyclic, Follows
<1> HIDE DEF S
<1>4. \A n \in Nat : n \in S
  BY <1>2, <1>3, AllNumbers
<1>5. \A n \in 0 .. Units + 1 : f[n] \in M
  BY <1>0, <1>4 DEF S
<1>6. ASSUME NEW a \in M PROVE \E n \in 0 .. Units + 1 : f[n] = a
  <2>1. f[0] = start /\ 0 \in 0 .. Units + 1 /\ f[0] \in M
    BY <1>0, <1>1 DEF Round
  <2>2. CASE start <= a
    <3>1. 0 + (a - f[0]) <= Units + 1 /\ Units + 1 \in 0 .. Units + 1 /\ 0 \in 0 .. Units + 1
      BY <1>0, <2>1, <2>2
    <3> QED BY <1>1, <2>1, <2>2, <3>1, Climb
  <2>3. CASE a < start
    <3> DEFINE T == {(Units + 1) - c : c \in M}
    <3>1. T \subseteq Nat /\ T # {}
      BY <1>0
    <3>2. PICK e \in T : \A d \in T : e <= d
      BY <3>1, Least
    <3>3. PICK top \in M : e = (Units + 1) - top
      OBVIOUS
    <3>4. \A c \in M : c <= top
      <4> TAKE c \in M
      <4>1. (Units + 1) - c \in T
        OBVIOUS
      <4>2. (Units + 1) - top <= (Units + 1) - c
        BY <3>2, <3>3, <4>1
      <4> QED BY <1>0, <4>2
    <3> HIDE DEF T
    <3> DEFINE m == top - start
    <3>5. /\ m \in 0 .. Units /\ m \in 0 .. Units + 1 /\ 0 \in 0 .. m
          /\ 0 + (top - f[0]) <= m /\ f[0] <= top
      BY <1>0, <2>1, <2>3, <3>4
    <3>6. PICK n \in 0 .. m : f[n] = top
      BY <1>1, <2>1, <3>5, Climb
    <3>7. n \in 0 .. Units /\ n + 1 \in 0 .. Units + 1
      BY <1>0, <3>5, <3>6
    <3>8. f[n + 1] = next[top] /\ Follows(next, M, top)
      BY <1>1, <3>6, <3>7 DEF Round, Cyclic
    <3>9. f[n + 1] \in M /\ f[n + 1] <= a
      BY <1>0, <3>4, <3>8 DEF Follows
    <3>10. (n + 1) + (a - f[n + 1]) <= Units + 1
      BY <1>0, <2>3, <3>4, <3>6, <3>7, <3>9
    <3> QED BY <1>0, <1>1, <3>7, <3>9, <3>10, Climb
  <2> QED BY <1>0, <2>2, <2>3
<1> QED BY <1>1, <1>5, <1>6

-----------------------------------------------------------------------------
(* Putting a block in the list, and taking one out *)

(***************************************************************************)
(* The list is told by the next of each of its blocks.                     *)
(***************************************************************************)
LEMMA CyclicSame ==
  ASSUME NEW M, NEW next, NEW next2, Cyclic(next, M), \A a \in M : next2[a] = next[a]
  PROVE  Cyclic(next2, M)
BY DEF Cyclic, Follows

\* x belongs between q and the next of q.
Belongs(next, q, x) ==
  \/ q < x /\ x < next[q]
  \/ next[q] <= q /\ (q < x \/ x < next[q])

(***************************************************************************)
(* The blocks of a list are addresses, and so are their next.              *)
(***************************************************************************)
LEMMA Numbers ==
  ASSUME NEW M, NEW next, Cyclic(next, M)
  PROVE  /\ \A a \in M : a \in Int /\ a \in HeapAddress /\ next[a] \in M /\ next[a] \in Int
         /\ \A a \in M : Follows(next, M, a)
<1>1. \A a \in M : Follows(next, M, a) /\ a \in HeapAddress
  BY DEF Cyclic
<1>2. \A a \in HeapAddress : a \in Int
  BY HeapAssumption DEF HeapAddress
<1>3. \A a \in M : next[a] \in M
  BY <1>1 DEF Follows
<1> QED BY <1>1, <1>2, <1>3

(***************************************************************************)
(* A block put in its place after q keeps the list in order.               *)
(***************************************************************************)
LEMMA CyclicInsert ==
  ASSUME NEW M, NEW next, NEW next2, NEW q \in M, NEW x \in HeapAddress,
         Cyclic(next, M), x \notin M, Belongs(next, q, x),
         next2[x] = next[q], next2[q] = x, \A a \in M : a # q => next2[a] = next[a]
  PROVE  Cyclic(next2, M \cup {x})
<1>0. x \in Int
  BY HeapAssumption DEF HeapAddress
<1>1. PICK n : n = next[q]
  OBVIOUS
<1>2. /\ n \in M /\ n \in Int /\ q \in Int /\ n # x /\ q # x
      /\ (q < x /\ x < n) \/ (n <= q /\ (q < x \/ x < n))
      /\ (q < n /\ \A c \in M : ~ (q < c /\ c < n)) \/ (n <= q /\ \A c \in M : n <= c /\ c <= q)
  BY <1>1, Numbers DEF Belongs, Follows
<1>3. \A c \in M : c \in Int
  BY Numbers
<1>4. Follows(next2, M \cup {x}, x)
  BY <1>0, <1>1, <1>2, <1>3 DEF Follows
<1>5. Follows(next2, M \cup {x}, q)
  BY <1>0, <1>1, <1>2, <1>3 DEF Follows
<1>6. ASSUME NEW a \in M, a # q PROVE Follows(next2, M \cup {x}, a)
  <2>1. PICK m : m = next[a]
    OBVIOUS
  <2>2. /\ m \in M /\ m \in Int /\ a \in Int
        /\ (a < m /\ \A c \in M : ~ (a < c /\ c < m)) \/ (m <= a /\ \A c \in M : m <= c /\ c <= a)
    BY <2>1, Numbers DEF Follows
  <2>3. (a < m /\ ~ (a < x /\ x < m)) \/ (m <= a /\ m <= x /\ x <= a)
    BY <1>0, <1>2, <1>3, <1>6, <2>2
  <2>4. next2[a] = m
    BY <1>6, <2>1
  <2> QED BY <2>2, <2>3, <2>4 DEF Follows
<1>7. M \cup {x} \subseteq HeapAddress
  BY DEF Cyclic
<1> QED BY <1>4, <1>5, <1>6, <1>7 DEF Cyclic

(***************************************************************************)
(* No two blocks have the same next.                                       *)
(***************************************************************************)
LEMMA OnePredecessor ==
  ASSUME NEW M, NEW next, Cyclic(next, M), NEW a \in M, NEW q \in M, next[a] = next[q]
  PROVE  a = q
<1>1. PICK n : n = next[q]
  OBVIOUS
<1>2. /\ n \in M /\ n \in Int /\ q \in Int /\ a \in Int
      /\ (q < n /\ \A c \in M : ~ (q < c /\ c < n)) \/ (n <= q /\ \A c \in M : n <= c /\ c <= q)
      /\ (a < n /\ \A c \in M : ~ (a < c /\ c < n)) \/ (n <= a /\ \A c \in M : n <= c /\ c <= a)
  BY <1>1, Numbers DEF Follows
<1> QED BY <1>2

(***************************************************************************)
(* The list stays in order when the next of q is taken out.                *)
(***************************************************************************)
LEMMA CyclicRemove ==
  ASSUME NEW M, NEW next, NEW next2, NEW q \in M, NEW n \in M,
         Cyclic(next, M), n = next[q], n # q,
         next2[q] = next[n], \A a \in M : a # q /\ a # n => next2[a] = next[a]
  PROVE  Cyclic(next2, M \ {n})
<1>1. PICK m : m = next[n]
  OBVIOUS
<1>2. \A c \in M : c \in Int
  BY Numbers
<1>3. /\ m \in M
      /\ (q < n /\ \A c \in M : ~ (q < c /\ c < n)) \/ (n <= q /\ \A c \in M : n <= c /\ c <= q)
      /\ (n < m /\ \A c \in M : ~ (n < c /\ c < m)) \/ (m <= n /\ \A c \in M : m <= c /\ c <= n)
  BY <1>1, Numbers DEF Follows
<1>4. m # n
  BY <1>2, <1>3
<1>5. Follows(next2, M \ {n}, q)
  <2>1. (q < m /\ \A c \in M \ {n} : ~ (q < c /\ c < m)) \/ (m <= q /\ \A c \in M \ {n} : m <= c /\ c <= q)
    BY <1>2, <1>3, <1>4
  <2> QED BY <1>1, <1>3, <1>4, <2>1 DEF Follows
<1>6. ASSUME NEW a \in M, a # q, a # n PROVE Follows(next2, M \ {n}, a)
  <2>1. next[a] # n
    BY <1>6, OnePredecessor
  <2>2. Follows(next, M, a) /\ next2[a] = next[a]
    BY <1>6, Numbers
  <2> QED BY <2>1, <2>2 DEF Follows
<1>7. M \ {n} \subseteq HeapAddress
  BY DEF Cyclic
<1> QED BY <1>5, <1>6, <1>7 DEF Cyclic

-----------------------------------------------------------------------------
(* Cutting a block, and joining two *)

(***************************************************************************)
(* What the blocks share is told by their sizes.                           *)
(***************************************************************************)
LEMMA TiledSame ==
  ASSUME NEW H, NEW s, NEW s2, Tiled(H, s), \A a \in H : s2[a] = s[a]
  PROVE  Tiled(H, s2) /\ (Covered(H, s) => Covered(H, s2))
BY DEF Tiled, Covered

(***************************************************************************)
(* Two blocks that touch can be made one.                                  *)
(***************************************************************************)
LEMMA TiledJoin ==
  ASSUME NEW H, NEW s, NEW s2, Tiled(H, s), NEW a \in H, NEW c \in H, a + s[a] = c,
         s2[a] = s[a] + s[c], \A x \in H : x # a /\ x # c => s2[x] = s[x]
  PROVE  Tiled(H \ {c}, s2) /\ (Covered(H, s) => Covered(H \ {c}, s2))
<1>0. Units \in Nat /\ \A x \in H : x \in Int /\ s[x] \in Int /\ s[x] >= 1 /\ x >= 1
  BY HeapAssumption DEF Tiled
<1>1. PICK k, l : k = s[a] /\ l = s[c]
  OBVIOUS
<1>2. /\ a \in Int /\ c \in Int /\ k \in Int /\ l \in Int /\ 1 <= k /\ 1 <= l /\ 1 <= a
      /\ a + k = c /\ a < c /\ c + l <= Units + 1 /\ s2[a] = k + l
  BY <1>0, <1>1 DEF Tiled
<1>3. ASSUME NEW x \in H \ {c}
      PROVE  x \in 1 .. Units /\ s2[x] \in 1 .. Units /\ x + s2[x] <= Units + 1
  <2>1. CASE x = a
    BY <1>0, <1>2, <2>1
  <2>2. CASE x # a
    BY <1>3, <2>2 DEF Tiled
  <2> QED BY <2>1, <2>2
<1>4. ASSUME NEW x \in H \ {c}, NEW y \in H \ {c}, x < y PROVE x + s2[x] <= y
  <2>1. CASE x = a
    <3>1. c <= y
      BY <1>1, <1>2, <1>4, <2>1 DEF Tiled
    <3>2. c < y
      BY <1>0, <1>2, <3>1
    <3>3. c + l <= y
      BY <1>1, <3>2 DEF Tiled
    <3> QED BY <1>0, <1>2, <2>1, <3>3
  <2>2. CASE x # a
    BY <1>4, <2>2 DEF Tiled
  <2> QED BY <2>1, <2>2
<1>5. ASSUME Covered(H, s), NEW u \in 1 .. Units
      PROVE  \E x \in H \ {c} : x <= u /\ u < x + s2[x]
  <2>1. PICK x \in H : x <= u /\ u < x + s[x]
    BY <1>5 DEF Covered
  <2>2. CASE x = a \/ x = c
    BY <1>0, <1>1, <1>2, <2>1, <2>2
  <2>3. CASE x # a /\ x # c
    BY <2>1, <2>3
  <2> QED BY <2>2, <2>3
<1> QED BY <1>3, <1>4, <1>5 DEF Tiled, Covered

(***************************************************************************)
(* A block can be cut in two; its tail starts where none did.              *)
(***************************************************************************)
LEMMA TiledSplit ==
  ASSUME NEW H, NEW s, NEW s2, Tiled(H, s), NEW a \in H, NEW k \in Nat, k >= 1, k < s[a],
         NEW c, c = a + s[a] - k,
         s2[a] = s[a] - k, s2[c] = k, \A x \in H : x # a => s2[x] = s[x]
  PROVE  Tiled(H \cup {c}, s2) /\ (Covered(H, s) => Covered(H \cup {c}, s2)) /\ c \notin H
<1>0. Units \in Nat /\ \A x \in H : x \in Int /\ s[x] \in Int /\ s[x] >= 1 /\ x >= 1
  BY HeapAssumption DEF Tiled
<1>1. PICK m : m = s[a]
  OBVIOUS
<1>2. /\ a \in Int /\ c \in Int /\ m \in Int /\ k < m /\ m <= Units /\ 1 <= a /\ c = a + m - k
      /\ a < c /\ a + m <= Units + 1 /\ s2[a] = m - k /\ c + k = a + m
  BY <1>0, <1>1 DEF Tiled
<1>3. \A x \in H : (a < x => a + m <= x) /\ (x < a => x + s[x] <= a)
  BY <1>1 DEF Tiled
<1>4. \A x \in H : (a < x => c + k <= x) /\ x # c
  BY <1>0, <1>2, <1>3
<1>5. ASSUME NEW x \in H \cup {c}
      PROVE  x \in 1 .. Units /\ s2[x] \in 1 .. Units /\ x + s2[x] <= Units + 1
  <2>1. CASE x = a
    BY <1>0, <1>2, <2>1
  <2>2. CASE x = c
    BY <1>0, <1>2, <2>2
  <2>3. CASE x # a /\ x # c
    BY <1>5, <2>3 DEF Tiled
  <2> QED BY <2>1, <2>2, <2>3
<1>6. ASSUME NEW x \in H \cup {c}, NEW y \in H \cup {c}, x < y PROVE x + s2[x] <= y
  <2>1. CASE x = a
    <3>1. y = c \/ c + k <= y
      BY <1>0, <1>4, <1>6, <2>1
    <3> QED BY <1>0, <1>2, <1>6, <2>1, <3>1
  <2>2. CASE x = c
    <3>1. y \in H /\ a < y
      BY <1>0, <1>2, <1>6, <2>2
    <3> QED BY <1>4, <2>2, <3>1
  <2>3. CASE x # a /\ x # c
    <3>1. x \in H /\ s2[x] = s[x]
      BY <1>6, <2>3
    <3>2. CASE y \in H
      BY <1>6, <3>1, <3>2 DEF Tiled
    <3>3. CASE y = c
      <4>1. x < a
        BY <1>0, <1>2, <1>4, <1>6, <2>3, <3>1, <3>3
      <4> QED BY <1>0, <1>2, <1>3, <3>1, <3>3, <4>1
    <3> QED BY <3>2, <3>3
  <2> QED BY <2>1, <2>2, <2>3
<1>7. ASSUME Covered(H, s), NEW u \in 1 .. Units
      PROVE  \E x \in H \cup {c} : x <= u /\ u < x + s2[x]
  <2>1. PICK x \in H : x <= u /\ u < x + s[x]
    BY <1>7 DEF Covered
  <2>2. CASE x = a /\ u < c
    BY <1>2, <2>1, <2>2
  <2>3. CASE x = a /\ c <= u
    BY <1>1, <1>2, <2>1, <2>3
  <2>4. CASE x # a
    BY <2>1, <2>4
  <2>5. u \in Int
    OBVIOUS
  <2> QED BY <1>2, <2>2, <2>3, <2>4, <2>5
<1> QED BY <1>4, <1>5, <1>6, <1>7 DEF Tiled, Covered

-----------------------------------------------------------------------------
(* The steps *)

(***************************************************************************)
(* The bounds of a request, and that NULL is no address.                   *)
(***************************************************************************)
LEMMA UnitsFact == Units \in Nat /\ Units >= 1 /\ MaxUnits \in 1 .. Units /\ NULL \notin HeapAddress
BY HeapAssumption DEF NULL, HeapAddress

(***************************************************************************)
(* Going one block on, only the block that was left is passed.             *)
(***************************************************************************)
LEMMA BeforeNext ==
  ASSUME NEW M, NEW next, Cyclic(next, M), NEW a \in M, NEW c \in M, NEW d \in M,
         c # d, a # d, Before(d, a, next[c])
  PROVE  a = c \/ Before(d, a, c)
<1>1. PICK n : n = next[c]
  OBVIOUS
<1>2. /\ n \in Int /\ a \in Int /\ c \in Int /\ d \in Int
      /\ (c < n /\ ~ (c < a /\ a < n) /\ ~ (c < d /\ d < n)) \/ (n <= c /\ n <= a /\ a <= c /\ n <= d /\ d <= c)
  BY <1>1, Numbers DEF Follows
<1>3. IF d < n THEN d < a /\ a < n ELSE d < a \/ a < n
  BY <1>1 DEF Before
<1>4. a = c \/ (IF d < c THEN d < a /\ a < c ELSE d < a \/ a < c)
  BY <1>2, <1>3
<1> QED BY <1>4 DEF Before

(***************************************************************************)
(* No block is met between one and its next.                               *)
(***************************************************************************)
LEMMA NoneBefore ==
  ASSUME NEW M, NEW next, Cyclic(next, M), NEW a \in M, NEW d \in M, a # d
  PROVE  ~ Before(d, a, next[d])
<1>1. PICK n : n = next[d]
  OBVIOUS
<1>2. /\ n \in Int /\ a \in Int /\ d \in Int
      /\ (d < n /\ ~ (d < a /\ a < n)) \/ (n <= d /\ n <= a /\ a <= d)
  BY <1>1, Numbers DEF Follows
<1>3. ~ (IF d < n THEN d < a /\ a < n ELSE d < a \/ a < n)
  BY <1>2
<1> QED BY <1>1, <1>3 DEF Before

(***************************************************************************)
(* Core is about the layout and the blocks in use only.                    *)
(***************************************************************************)
LEMMA CoreSame ==
  ASSUME Core, UNCHANGED <<base, layout, up, live>>, Heads' = Heads
  PROVE  Core' /\ List' = List /\ Ats' = Ats
<1>1. base' = base /\ ptr' = ptr /\ size' = size /\ freep' = freep /\ up' = up /\ live' = live
  BY DEF layout
<1>2. List' = List /\ Ats' = Ats
  BY <1>1 DEF List, Ats, AtsOf
<1>3. Fields' /\ InUse(size)'
  BY <1>1 DEF Core, Fields, InUse
<1>4. Separate(List, size)'
  BY <1>1, <1>2 DEF Core, Separate
<1> QED BY <1>1, <1>2, <1>3, <1>4 DEF Core

(***************************************************************************)
(* The heap is unused at first.                                            *)
(***************************************************************************)
LEMMA HeapInitIInv == HeapInit => HeapIInv
BY UnitsFact DEF HeapInit, HeapIInv, Unused

(***************************************************************************)
(* The first call of malloc makes the list of base alone.                  *)
(***************************************************************************)
LEMMA MallocFirst ==
  ASSUME Unused, base \in {0, Units + 1}, NEW n \in 1 .. MaxUnits, malloc(n)
  PROVE  Working'
<1>0. base \in HeapAddress /\ base \in Int /\ base # NULL
  BY UnitsFact DEF HeapAddress
<1>1. /\ ptr' = [ptr EXCEPT ![base] = base] /\ size' = [size EXCEPT ![base] = 0]
      /\ freep' = base /\ prevp' = base /\ p' = base
      /\ nunits' = n /\ doing' = "malloc" /\ base' = base /\ up' = up /\ live' = live
  BY DEF malloc, Unused
<1>2. /\ ptr = [a \in HeapAddress |-> NULL] /\ size = [a \in HeapAddress |-> 0]
      /\ live = {} /\ ~ up
  BY DEF Unused
<1>3. ptr' = [a \in HeapAddress |-> IF a = base THEN base ELSE NULL] /\ size' = size
  BY <1>0, <1>1, <1>2
<1>4. List' = {base}
  BY <1>0, <1>3 DEF List
<1>5. ptr'[base] = base
  BY <1>0, <1>3
<1>6. Cyclic(ptr', {base})
  BY <1>0, <1>5 DEF Cyclic, Follows
<1>7. Ats' = {}
  BY <1>1, <1>2 DEF Ats, AtsOf
<1>8. Heads' = {}
  BY <1>1, <1>4, <1>7 DEF Heads, HeadsOf, Freeing
<1>9. Fields'
  BY <1>0, <1>1, <1>2, <1>3, UnitsFact DEF Fields
<1>10. Tiled(Heads', size') /\ Separate(List', size') /\ InUse(size)'
  BY <1>1, <1>2, <1>4, <1>8 DEF Tiled, Separate, InUse
<1>11. Searching'
  BY <1>1, <1>4, <1>5 DEF Searching
<1> QED BY <1>1, <1>2, <1>4, <1>6, <1>7, <1>9, <1>10, <1>11 DEF Working, Core, Mode, Separate

(***************************************************************************)
(* Outside free the blocks are those of the list and those in use.         *)
(***************************************************************************)
LEMMA IdleHeads ==
  ASSUME doing \in {"idle", "malloc"}
  PROVE  Heads = HeadsOf(List)
BY DEF Heads, Freeing

(***************************************************************************)
(* malloc begins its search at freep, having passed nothing.               *)
(***************************************************************************)
LEMMA MallocIInv ==
  ASSUME Working, NEW n \in 1 .. MaxUnits, malloc(n)
  PROVE  Working'
<1>1. freep # NULL /\ freep \in List /\ Cyclic(ptr, List)
  BY UnitsFact DEF Working, Core, List
<1>2. /\ doing = "idle" /\ prevp' = freep /\ p' = ptr[freep] /\ nunits' = n /\ doing' = "malloc"
      /\ UNCHANGED <<base, layout, up, live>>
  BY <1>1 DEF malloc, layout
<1>3. Heads' = Heads /\ List' = List /\ ptr' = ptr /\ size' = size /\ freep' = freep
  BY <1>2 DEF Heads, HeadsOf, Freeing, List, Ats, AtsOf, layout
<1>4. ptr[freep] \in List
  BY <1>1, Numbers
<1>5. \A a \in List : a # freep => ~ Before(freep, a, ptr[freep])
  BY <1>1, NoneBefore
<1>6. Searching'
  BY <1>1, <1>2, <1>3, <1>4, <1>5 DEF Searching
<1> QED BY <1>2, <1>3, <1>6, CoreSame DEF Working, Mode

(***************************************************************************)
(* The search goes on: the block it leaves was too small.                  *)
(***************************************************************************)
LEMMA TooSmallIInv ==
  ASSUME Working, TooSmall
  PROVE  Working'
<1>1. /\ doing = "malloc" /\ size[p] < nunits /\ p # freep /\ prevp' = p /\ p' = ptr[p]
      /\ UNCHANGED <<base, layout, up, live, doing, nunits>>
  BY DEF TooSmall, Next1
<1>2. Searching /\ Cyclic(ptr, List) /\ freep \in List
  BY <1>1 DEF Working, Mode, Core
<1>3. Heads' = Heads /\ List' = List /\ ptr' = ptr /\ size' = size /\ freep' = freep
  BY <1>1 DEF Heads, HeadsOf, Freeing, List, Ats, AtsOf, layout
<1>4. p \in List /\ ptr[p] \in List
  BY <1>2, Numbers DEF Searching
<1>5. ASSUME NEW a \in List, a # freep, Before(freep, a, ptr[p]) PROVE size[a] < nunits
  BY <1>1, <1>2, <1>4, <1>5, BeforeNext DEF Searching
<1>6. Searching'
  BY <1>1, <1>2, <1>3, <1>4, <1>5 DEF Searching
<1> QED BY <1>1, <1>3, <1>6, CoreSame DEF Working, Mode

(***************************************************************************)
(* A call that fails changes nothing.                                      *)
(***************************************************************************)
LEMMA NoneLeftIInv ==
  ASSUME Working, NoneLeft
  PROVE  Working'
<1>1. doing = "malloc" /\ doing' = "idle" /\ nunits' = 0 /\ UNCHANGED <<base, layout, up, live>>
  BY DEF NoneLeft, Returns
<1>2. Heads' = Heads
  BY <1>1 DEF Heads, HeadsOf, Freeing, List, Ats, AtsOf, layout
<1> QED BY <1>1, <1>2, CoreSame DEF Working, Mode

(***************************************************************************)
(* free goes on to the next block of the list.                             *)
(***************************************************************************)
LEMMA SkipIInv ==
  ASSUME Working, Skip
  PROVE  Working'
<1>1. Freeing /\ p' = ptr[p] /\ UNCHANGED <<base, layout, up, doing, nunits, bp, live>>
  BY DEF Skip
<1>2. Inserting /\ Cyclic(ptr, List)
  BY <1>1 DEF Working, Mode, Core, Freeing
<1>3. Heads' = Heads /\ List' = List /\ Ats' = Ats
  BY <1>1 DEF Heads, HeadsOf, Freeing, List, Ats, AtsOf, layout
<1>4. ptr[p] \in List
  BY <1>2, Numbers DEF Inserting
<1>5. Inserting'
  BY <1>1, <1>2, <1>3, <1>4 DEF Inserting
<1>6. Mode'
  BY <1>1, <1>5, Zenon DEF Working, Mode, Freeing
<1> QED BY <1>1, <1>3, <1>6, CoreSame DEF Working

(***************************************************************************)
(* free takes over a block in use, which is on no list yet.                *)
(***************************************************************************)
LEMMA FreeIInv ==
  ASSUME Working, NEW b \in live, free(b)
  PROVE  Working'
<1>1. /\ doing = "idle" /\ live' = live \ {b} /\ bp' = b.at /\ p' = freep /\ doing' = "free"
      /\ base' = base /\ ptr' = ptr /\ size' = size /\ freep' = freep /\ up' = up /\ nunits' = nunits
  BY DEF free, layout
<1>2. nunits = 0 /\ Core
  BY <1>1 DEF Working, Mode
<1>3. List' = List
  BY <1>1 DEF List
<1>4. Ats' = Ats \ {b.at}
  <2>1. ASSUME NEW c \in live, c.at = b.at PROVE c = b
    BY <1>2, <2>1 DEF Core, InUse
  <2> QED BY <1>1, <2>1 DEF Ats, AtsOf
<1>5. b.at \in Ats /\ b.at \notin List
  BY <1>2 DEF Core, Ats, AtsOf
<1>6. Heads' = Heads
  <2>1. Heads = (List \ {base}) \cup Ats
    BY <1>1 DEF Heads, HeadsOf, Freeing
  <2>2. Heads' = (List \ {base}) \cup (Ats \ {b.at}) \cup {b.at}
    BY <1>1, <1>3, <1>4 DEF Heads, HeadsOf, Freeing
  <2> QED BY <1>5, <2>1, <2>2
<1>7. Inserting'
  BY <1>1, <1>2, <1>3, <1>4, <1>5 DEF Inserting, Core
<1>8. Fields' /\ InUse(size)' /\ Separate(List, size)'
  BY <1>1, <1>2, <1>3 DEF Core, Fields, InUse, Separate
<1>9. Core'
  BY <1>1, <1>2, <1>3, <1>4, <1>6, <1>8 DEF Core
<1>10. up'
  BY <1>1, <1>2 DEF Core
<1> QED BY <1>1, <1>2, <1>7, <1>9, <1>10 DEF Working, Mode

(***************************************************************************)
(* morecore makes one block of the heap, and frees it.                     *)
(***************************************************************************)
LEMMA MorecoreIInv ==
  ASSUME Working, base \in {0, Units + 1}, morecore
  PROVE  Working'
<1>1. /\ doing = "malloc" /\ ~ up /\ up' = TRUE /\ size' = [size EXCEPT ![1] = Units]
      /\ bp' = 1 /\ p' = freep /\ doing' = "morecore"
      /\ base' = base /\ ptr' = ptr /\ freep' = freep /\ nunits' = nunits /\ live' = live
  BY DEF morecore
<1>2. Core /\ Searching
  BY <1>1 DEF Working, Mode
<1>3. List = {base} /\ live = {} /\ freep = base
  BY <1>1, <1>2 DEF Core
<1>4. List' = {base} /\ Ats' = {} /\ 1 # base /\ 1 \in HeapAddress
  BY <1>1, <1>3, UnitsFact DEF List, Ats, AtsOf, HeapAddress
<1>5. Heads' = {1}
  BY <1>1, <1>4 DEF Heads, HeadsOf, Freeing
<1>6. size'[1] = Units /\ size'[base] = 0 /\ size' \in [HeapAddress -> 0 .. Units]
  <2>1. size \in [HeapAddress -> 0 .. Units] /\ size[base] = 0
    BY <1>2 DEF Core, Fields
  <2>2. base \in HeapAddress
    BY UnitsFact DEF HeapAddress
  <2>3. Units \in 0 .. Units
    BY UnitsFact
  <2> QED BY <1>1, <1>4, <2>1, <2>2, <2>3
<1>7. Fields'
  <2>1. ptr' \in [HeapAddress -> HeapAddress \cup {NULL}]
    BY <1>1, <1>2 DEF Core, Fields
  <2> QED BY <1>1, <1>6, <2>1 DEF Fields
<1>8. Tiled({1}, size') /\ Covered({1}, size')
  BY <1>6, UnitsFact DEF Tiled, Covered
<1>9. Separate(List, size)' /\ InUse(size)'
  BY <1>1, <1>3, <1>4 DEF Separate, InUse
<1>10. Core'
  BY <1>1, <1>2, <1>3, <1>4, <1>5, <1>7, <1>8, <1>9 DEF Core
<1>11. Inserting'
  BY <1>1, <1>3, <1>4 DEF Inserting
<1> QED BY <1>1, <1>2, <1>10, <1>11 DEF Working, Mode, Searching

-----------------------------------------------------------------------------
(* A list that is written back *)

\* The blocks of a list M with these fields and those in use, at L, make
\* up the heap.
Near(M, next, s, L) ==
  /\ Cyclic(next, M) /\ M \cap L = {} /\ base \notin L /\ (base \in M => s[base] = 0)
  /\ Tiled((M \ {base}) \cup L, s) /\ Covered((M \ {base}) \cup L, s)

\* ... and none begins where another one ends.
Sound(M, next, s, L) == Near(M, next, s, L) /\ Separate(M, s)

\* The step leaves the list M and no other header but those at L.
Written(M, next, s, L) ==
  /\ ptr' \in [HeapAddress -> HeapAddress \cup {NULL}]
  /\ size' \in [HeapAddress -> 0 .. Units] /\ size'[base] = 0
  /\ \A a \in HeapAddress : ptr'[a] # NULL <=> a \in M
  /\ \A a \in M : ptr'[a] = next[a]
  /\ \A a \in M \cup L : size'[a] = s[a]

(***************************************************************************)
(* What Headers leaves is the list that was asked for.                     *)
(***************************************************************************)
LEMMA HeadersFact ==
  ASSUME NEW M, NEW next, NEW s, NEW start \in M, NEW B, NEW L, L = AtsOf(B),
         base \in HeapAddress, Sound(M, next, s, L), Headers(next, s, start, B)
  PROVE  Written(M, next, s, L)
<1>0. Sound(M, next, s, L) /\ Cyclic(next, M)
  BY DEF Sound, Near
<1>1. OnList(next, start) = M
  BY <1>0, OnListFact
<1>2. ptr' = [a \in HeapAddress |-> IF a \in M THEN next[a] ELSE NULL]
  BY <1>1 DEF Headers, AtsOf
<1>3. size' = [a \in HeapAddress |-> IF a \in M \cup L THEN s[a] ELSE 0]
  BY <1>1 DEF Headers, AtsOf
<1>4. \A a \in M : a \in HeapAddress /\ next[a] \in HeapAddress
  BY <1>0, Numbers
<1>5. NULL \notin HeapAddress
  BY UnitsFact
<1>6. \A a \in (M \ {base}) \cup L : a \in 1 .. Units /\ s[a] \in 1 .. Units
  BY <1>0 DEF Sound, Near, Tiled
<1>7. \A a \in M \cup L : a \in HeapAddress /\ s[a] \in 0 .. Units
  <2>1. ASSUME NEW a \in M \cup L, a # base PROVE a \in HeapAddress /\ s[a] \in 0 .. Units
    BY <1>6, <2>1, UnitsFact DEF HeapAddress
  <2>2. base \in M \cup L => s[base] = 0
    BY <1>0 DEF Sound, Near
  <2>3. 0 \in 0 .. Units
    BY UnitsFact
  <2> QED BY <2>1, <2>2, <2>3
<1>8. 0 \in 0 .. Units
  BY UnitsFact
<1>9. size' \in [HeapAddress -> 0 .. Units]
  BY <1>3, <1>7, <1>8
<1>10. size'[base] = 0
  BY <1>0, <1>3 DEF Sound, Near
<1>11. \A a \in M \cup L : size'[a] = s[a]
  BY <1>3, <1>7
<1>12. ptr' \in [HeapAddress -> HeapAddress \cup {NULL}]
  BY <1>2, <1>4
<1>13. \A a \in HeapAddress : ptr'[a] # NULL <=> a \in M
  BY <1>2, <1>4, <1>5
<1>14. \A a \in M : ptr'[a] = next[a]
  BY <1>2, <1>4
<1> QED BY <1>9, <1>10, <1>11, <1>12, <1>13, <1>14 DEF Written

(***************************************************************************)
(* Once a sound list is written back, Core holds.                          *)
(***************************************************************************)
LEMMA HeadersCore ==
  ASSUME NEW M, NEW next, NEW s, NEW start \in M, NEW B, NEW L, L = AtsOf(B),
         base \in HeapAddress, Sound(M, next, s, L), Headers(next, s, start, B),
         base' = base, live' = B, freep' \in M, up', ~ Freeing',
         \A b \in B : b.units = s[b.at] /\ b = [at |-> b.at, units |-> b.units]
  PROVE  Core' /\ List' = M /\ \A a \in M : ptr'[a] = next[a]
<1>1. /\ ptr' \in [HeapAddress -> HeapAddress \cup {NULL}]
      /\ size' \in [HeapAddress -> 0 .. Units] /\ size'[base] = 0
      /\ \A a \in HeapAddress : ptr'[a] # NULL <=> a \in M
      /\ \A a \in M : ptr'[a] = next[a]
      /\ \A a \in M \cup L : size'[a] = s[a]
  <2>1. Written(M, next, s, L)
    BY HeadersFact
  <2> QED BY <2>1 DEF Written
<1>2. Fields'
  BY <1>1 DEF Fields
<1>3. M \subseteq HeapAddress
  BY DEF Sound, Near, Cyclic
<1>4. List' = M
  BY <1>1, <1>3 DEF List
<1>5. Ats' = L
  BY DEF Ats, AtsOf
<1>6. /\ Cyclic(next, M) /\ M \cap L = {}
      /\ Tiled((M \ {base}) \cup L, s) /\ Covered((M \ {base}) \cup L, s) /\ Separate(M, s)
  BY DEF Sound, Near
<1>7. Cyclic(ptr', M)
  BY <1>1, <1>6, CyclicSame
<1>8. Heads' = (M \ {base}) \cup L
  BY <1>4, <1>5 DEF Heads, HeadsOf
<1>9. Tiled((M \ {base}) \cup L, size') /\ Covered((M \ {base}) \cup L, size')
  <2>1. \A a \in (M \ {base}) \cup L : size'[a] = s[a]
    BY <1>1
  <2> QED BY <1>6, <2>1, TiledSame
<1>10. Separate(M, size')
  BY <1>1, <1>6 DEF Separate
<1>11. InUse(size)'
  <2>1. ASSUME NEW b \in B PROVE b.units = size'[b.at] /\ b = [at |-> b.at, units |-> b.units]
    BY <1>1 DEF AtsOf
  <2> QED BY <2>1 DEF InUse
<1>12. Separate(List, size)'
  BY <1>4, <1>10 DEF Separate
<1>13. Cyclic(ptr, List)' /\ Tiled(Heads, size)' /\ Covered(Heads, size)'
  BY <1>4, <1>7, <1>8, <1>9 DEF Cyclic, Follows, Tiled, Covered
<1> QED BY <1>1, <1>2, <1>4, <1>5, <1>6, <1>11, <1>12, <1>13 DEF Core

-----------------------------------------------------------------------------
(* Where free puts a block *)

\* The block at x, of none of the list M, in its place after q in it.
ToPlace(M, next, s, L, q, x) ==
  /\ Cyclic(next, M) /\ M \cap L = {} /\ base \notin L /\ (base \in M => s[base] = 0)
  /\ q \in M /\ x \notin M /\ x \notin L /\ x # base /\ Belongs(next, q, x)
  /\ Tiled((M \ {base}) \cup L \cup {x}, s) /\ Covered((M \ {base}) \cup L \cup {x}, s)
  /\ Separate(M, s)

(***************************************************************************)
(* Of the free blocks, only the one before x can end where x begins, and   *)
(* only the one after it can begin where x ends.                           *)
(***************************************************************************)
LEMMA Neighbours ==
  ASSUME NEW M, NEW next, NEW s, NEW L, NEW q, NEW x, base \in {0, Units + 1},
         ToPlace(M, next, s, L, q, x)
  PROVE  /\ \A a \in M \ {base} : a + s[a] = x => a = q
         /\ \A a \in M \ {base} : x + s[x] = a => a = next[q]
<1>1. PICK n : n = next[q]
  OBVIOUS
<1>2. /\ x \in 1 .. Units /\ s[x] \in 1 .. Units
      /\ \A a \in M \ {base} : a \in 1 .. Units /\ s[a] \in 1 .. Units
      /\ \A a \in M \ {base} : (a < x => a + s[a] <= x) /\ (x < a => x + s[x] <= a)
      /\ \A a, c \in M \ {base} : a < c => a + s[a] <= c
  BY DEF ToPlace, Tiled
<1>3. /\ q \in M /\ n \in M /\ q \in Int /\ n \in Int
      /\ (q < n /\ \A c \in M : ~ (q < c /\ c < n)) \/ (n <= q /\ \A c \in M : n <= c /\ c <= q)
  BY <1>1, Numbers DEF ToPlace, Follows
<1>4. (q < x /\ x < n) \/ (n <= q /\ (q < x \/ x < n))
  BY <1>1 DEF ToPlace, Belongs
<1>5. Units \in Nat /\ base \in Int
  BY UnitsFact
<1>6. ASSUME NEW a \in M \ {base}, a + s[a] = x PROVE a = q
  <2>1. PICK k : k = s[a]
    OBVIOUS
  <2>2. a \in 1 .. Units /\ k \in 1 .. Units /\ a + k = x /\ x \in 1 .. Units
    BY <1>2, <1>6, <2>1
  <2>3. a <= q
    BY <1>3, <1>4, <2>2
  <2>4. a < q /\ q # base => a + k <= q
    BY <1>2, <1>3, <2>1
  <2>7. q < x
    BY <1>3, <1>4, <2>2
  <2>8. q = base => q = 0
    BY <1>5, <2>2, <2>7
  <2> QED BY <1>3, <2>2, <2>3, <2>4, <2>7, <2>8
<1>7. ASSUME NEW a \in M \ {base}, x + s[x] = a PROVE a = n
  <2>1. PICK k : k = s[x]
    OBVIOUS
  <2>2. a \in 1 .. Units /\ k \in 1 .. Units /\ x + k = a /\ x \in 1 .. Units
    BY <1>2, <1>7, <2>1
  <2>3. x < n /\ n <= a
    BY <1>3, <1>4, <2>2
  <2>4. n # base => x + k <= n
    BY <1>2, <1>3, <2>1, <2>3
  <2>5. n # base
    BY <1>5, <2>2, <2>3
  <2> QED BY <1>3, <2>2, <2>3, <2>4, <2>5
<1> QED BY <1>1, <1>6, <1>7

(***************************************************************************)
(* Where x is put: between blocks of the list, and neither is x. base has  *)
(* no size, so it ends where no block begins.                              *)
(***************************************************************************)
LEMMA PlacedFact ==
  ASSUME NEW M, NEW next, NEW s, NEW L, NEW q, NEW x, base \in {0, Units + 1},
         ToPlace(M, next, s, L, q, x)
  PROVE  /\ q \in M /\ next[q] \in M /\ x # q /\ x # next[q] /\ M \subseteq HeapAddress
         /\ x \in HeapAddress /\ x \in Int /\ x + s[x] \in Int /\ s[x] \in 1 .. Units
         /\ \A a \in M \ {base} : a \in Int /\ s[a] \in 1 .. Units /\ a + s[a] # a
         /\ (base \in M => s[base] = 0) /\ base \notin L
         /\ q + s[q] = x => q # base
<1>1. /\ x \in 1 .. Units /\ s[x] \in 1 .. Units
      /\ \A a \in M \ {base} : a \in 1 .. Units /\ s[a] \in 1 .. Units
      /\ q \in M /\ x \notin M
  BY DEF ToPlace, Tiled
<1>2. next[q] \in M /\ M \subseteq HeapAddress
  BY Numbers DEF ToPlace
<1>3. (base \in M => s[base] = 0) /\ base \notin L /\ base # x
  BY DEF ToPlace
<1>4. q = base => q + s[q] = base
  BY <1>1, <1>3, UnitsFact
<1>5. \A a \in M \ {base} : a \in Int /\ s[a] \in 1 .. Units /\ a + s[a] # a
  BY <1>1, UnitsFact
<1>6. x \in HeapAddress /\ x \in Int /\ x + s[x] \in Int
  BY <1>1, UnitsFact DEF HeapAddress
<1>7. q + s[q] = x => q # base
  BY <1>3, <1>4
<1> QED BY <1>1, <1>2, <1>3, <1>5, <1>6, <1>7

\* The only blocks of M with one that begins where another ends.
Touch(M, s, a, c) == a \in M \ {base} /\ c \in M \ {base} /\ a + s[a] = c

\* next2 is next with x after q.
With(M, next, q, x, next2) ==
  next2[x] = next[q] /\ next2[q] = x /\ \A a \in M : a # q => next2[a] = next[a]

\* Only q and x, or x and n, can touch.
TouchAt(M, s, q, x, n) ==
  \A a, c : Touch(M, s, a, c) => (a = q /\ c = x) \/ (a = x /\ c = n)

(***************************************************************************)
(* x in the list, not joined yet, touches at most its neighbours.          *)
(***************************************************************************)
LEMMA PlaceFirst ==
  ASSUME NEW M, NEW next, NEW s, NEW L, NEW q, NEW x, base \in {0, Units + 1},
         ToPlace(M, next, s, L, q, x), NEW next2, With(M, next, q, x, next2)
  PROVE  Near(M \cup {x}, next2, s, L) /\ TouchAt(M \cup {x}, s, q, x, next[q])
<1>1. /\ q \in M /\ x \in HeapAddress /\ x # q
      /\ x \in Int /\ s[x] \in 1 .. Units
  BY PlacedFact
<1>2. Cyclic(next2, M \cup {x})
  BY <1>1, CyclicInsert DEF ToPlace, With
<1>3. /\ \A a \in M \ {base} : a + s[a] = x => a = q
      /\ \A a \in M \ {base} : x + s[x] = a => a = next[q]
  BY Neighbours
<1>4. x + s[x] # x
  BY <1>1, UnitsFact
<1>5. ASSUME NEW a, NEW c, Touch(M \cup {x}, s, a, c)
      PROVE  (a = q /\ c = x) \/ (a = x /\ c = next[q])
  <2>0. a \in (M \cup {x}) \ {base} /\ c \in (M \cup {x}) \ {base} /\ a + s[a] = c
    BY <1>5 DEF Touch
  <2>1. CASE a = x /\ c = x
    BY <1>4, <2>0, <2>1
  <2>2. CASE a # x /\ c = x
    BY <1>3, <2>0, <2>2
  <2>3. CASE a = x /\ c # x
    BY <1>3, <2>0, <2>3
  <2>4. CASE a # x /\ c # x
    BY <2>0, <2>4 DEF ToPlace, Separate
  <2> QED BY <2>1, <2>2, <2>3, <2>4
<1>6. ((M \cup {x}) \ {base}) \cup L = (M \ {base}) \cup L \cup {x}
  BY DEF ToPlace
<1>7. (M \cup {x}) \cap L = {} /\ (base \in M \cup {x} => s[base] = 0) /\ base \notin L
  BY DEF ToPlace
<1> QED BY <1>2, <1>5, <1>6, <1>7 DEF Near, ToPlace, TouchAt

(***************************************************************************)
(* A block joined to its next, which touches none above it, touches none.  *)
(***************************************************************************)
LEMMA JoinNext ==
  ASSUME NEW M, NEW next, NEW s, NEW L, NEW q \in M \ {base}, NEW n \in M \ {base},
         Near(M, next, s, L), n = next[q], n # q, q + s[q] = n,
         \A c : ~ Touch(M, s, n, c), NEW next2, NEW s2,
         next2[q] = next[n], \A a \in M : a # q /\ a # n => next2[a] = next[a],
         s2[q] = s[q] + s[n], \A a \in M \cup L : a # q /\ a # n => s2[a] = s[a]
  PROVE  /\ Near(M \ {n}, next2, s2, L)
         /\ \A a, c : Touch(M \ {n}, s2, a, c) => a # q /\ Touch(M, s, a, c)
<1> DEFINE H == (M \ {base}) \cup L
<1>1. /\ Tiled(H, s) /\ Covered(H, s) /\ Cyclic(next, M) /\ M \cap L = {} /\ base \notin L
      /\ (base \in M => s[base] = 0)
  BY DEF Near
<1>2. Cyclic(next2, M \ {n})
  BY <1>1, CyclicRemove
<1>3. q \in H /\ n \in H /\ (\A a \in H : a # q /\ a # n => s2[a] = s[a])
  OBVIOUS
<1>4. ((M \ {n}) \ {base}) \cup L = H \ {n}
  BY <1>1
<1>5. q \in 1 .. Units /\ n \in 1 .. Units /\ s[q] \in 1 .. Units /\ s[n] \in 1 .. Units
  BY <1>1, <1>3 DEF Tiled
<1> HIDE DEF H
<1>6. Tiled(H \ {n}, s2) /\ Covered(H \ {n}, s2)
  BY <1>1, <1>3, TiledJoin
<1>7. q + s2[q] = n + s[n]
  <2>1. PICK k, l : k = s[q] /\ l = s[n]
    OBVIOUS
  <2>2. q \in Int /\ k \in Int /\ l \in Int /\ q + k = n /\ s2[q] = k + l
    BY <1>5, <2>1
  <2> QED BY <2>1, <2>2
<1>8. ASSUME NEW a, NEW c, Touch(M \ {n}, s2, a, c) PROVE a # q /\ Touch(M, s, a, c)
  <2>1. a \in M \ {base, n} /\ c \in M \ {base, n} /\ a + s2[a] = c
    BY <1>8 DEF Touch
  <2>2. ASSUME a = q PROVE FALSE
    BY <1>7, <2>1, <2>2 DEF Touch
  <2> QED BY <2>1, <2>2 DEF Touch
<1>9. (M \ {n}) \cap L = {} /\ (base \in M \ {n} => s2[base] = 0)
  BY <1>1
<1> QED BY <1>1, <1>2, <1>4, <1>6, <1>8, <1>9 DEF Near

(***************************************************************************)
(* Near is told by the fields of the blocks of the list and of those in    *)
(* use.                                                                    *)
(***************************************************************************)
LEMMA NearSame ==
  ASSUME NEW M, NEW next, NEW s, NEW L, Near(M, next, s, L), NEW next2, NEW s2,
         \A a \in M : next2[a] = next[a], \A a \in M \cup L : s2[a] = s[a]
  PROVE  Near(M, next2, s2, L)
<1> DEFINE H == (M \ {base}) \cup L
<1>1. \A a \in H : s2[a] = s[a]
  OBVIOUS
<1>2. Tiled(H, s) /\ Covered(H, s) /\ Cyclic(next, M) /\ M \cap L = {} /\ base \notin L
      /\ (base \in M => s2[base] = 0)
  BY DEF Near
<1> HIDE DEF H
<1>3. Tiled(H, s2) /\ Covered(H, s2) /\ Cyclic(next2, M)
  BY <1>1, <1>2, TiledSame, CyclicSame
<1> QED BY <1>2, <1>3 DEF Near, H

(***************************************************************************)
(* After the first join of free, x touches at most the block before it;    *)
(* base can drop out of the list here.                                     *)
(***************************************************************************)
LEMMA PlaceUpper ==
  ASSUME NEW M, NEW next, NEW s, NEW L, NEW q, NEW x, base \in {0, Units + 1},
         ToPlace(M, next, s, L, q, x), NEW n, n = next[q],
         ~ (n = q /\ q # base /\ x + s[x] = n), NEW next2, NEW s2,
         next2[q] = x, \A a \in M : a # q => next2[a] = next[a],
         IF x + s[x] = n THEN next2[x] = next[n] /\ s2[x] = s[x] + s[n]
                         ELSE next2[x] = n /\ s2[x] = s[x],
         \A a \in M \cup L : s2[a] = s[a]
  PROVE  \E M2 \in SUBSET (M \cup {x}) :
            /\ q \in M2 /\ x \in M2 /\ Near(M2, next2, s2, L)
            /\ \A a, c : Touch(M2, s2, a, c) => a = q /\ c = x
<1>1. /\ q \in M /\ n \in M /\ x \in HeapAddress /\ x # q /\ x # n /\ x \notin M /\ x # base /\ x \notin L
      /\ x \in Int /\ s[x] \in 1 .. Units /\ base \notin L
  BY PlacedFact DEF ToPlace
<1>2. PICK mid : mid = [a \in M \cup {x} |-> IF a = x THEN n ELSE IF a = q THEN x ELSE next[a]]
  OBVIOUS
<1>3. mid[x] = n /\ mid[q] = x /\ \A a \in M : a # q => mid[a] = next[a]
  BY <1>1, <1>2
<1>4. /\ Near(M \cup {x}, mid, s, L)
      /\ \A a, c : Touch(M \cup {x}, s, a, c) => (a = q /\ c = x) \/ (a = x /\ c = n)
  <2>1. With(M, next, q, x, mid)
    BY <1>3 DEF With
  <2>2. Near(M \cup {x}, mid, s, L) /\ TouchAt(M \cup {x}, s, q, x, next[q])
    BY <2>1, PlaceFirst
  <2> QED BY <2>2 DEF TouchAt
<1>5. CASE x + s[x] # n \/ n = q
  <2>1. next2[x] = n
    BY <1>5
  <2>2. s2[x] = s[x]
    <3>1. CASE x + s[x] # n
      BY <3>1
    <3>2. CASE x + s[x] = n /\ n = q
      <4>1. s[n] = 0
        BY <1>1, <3>2 DEF ToPlace
      <4> QED BY <1>1, <3>2, <4>1
    <3> QED BY <1>5, <3>1, <3>2
  <2>3. \A a \in M \cup {x} : next2[a] = mid[a]
    BY <1>3, <2>1
  <2>4. \A a \in (M \cup {x}) \cup L : s2[a] = s[a]
    BY <2>2
  <2>5. Near(M \cup {x}, next2, s2, L)
    BY <1>4, <2>3, <2>4, NearSame
  <2>6. ASSUME NEW a, NEW c, Touch(M \cup {x}, s2, a, c) PROVE a = q /\ c = x
    <3>1. Touch(M \cup {x}, s, a, c)
      BY <2>4, <2>6 DEF Touch
    <3>2. ASSUME a = x /\ c = n PROVE FALSE
      BY <1>5, <3>1, <3>2 DEF Touch
    <3> QED BY <1>4, <3>1, <3>2
  <2> QED BY <1>1, <2>5, <2>6
<1>6. CASE x + s[x] = n /\ n # q /\ n # base
  <2>1. /\ x \in (M \cup {x}) \ {base} /\ n \in (M \cup {x}) \ {base}
        /\ n = mid[x] /\ n # x /\ x + s[x] = n /\ next2[x] = mid[n] /\ s2[x] = s[x] + s[n]
    BY <1>1, <1>3, <1>6
  <2>2. \A c : ~ Touch(M \cup {x}, s, n, c)
    BY <1>1, <1>4, <1>6
  <2>3. /\ \A a \in M \cup {x} : a # x /\ a # n => next2[a] = mid[a]
        /\ \A a \in (M \cup {x}) \cup L : a # x /\ a # n => s2[a] = s[a]
    BY <1>3
  <2>4. /\ Near((M \cup {x}) \ {n}, next2, s2, L)
        /\ \A a, c : Touch((M \cup {x}) \ {n}, s2, a, c) => a # x /\ Touch(M \cup {x}, s, a, c)
    BY <1>4, <2>1, <2>2, <2>3, JoinNext, SMTT(30)
  <2> QED BY <1>1, <1>4, <1>6, <2>4
<1>7. CASE x + s[x] = n /\ n # q /\ n = base
  <2>1. s2[x] = s[x]
    <3>1. s[n] = 0
      BY <1>1, <1>7 DEF ToPlace
    <3> QED BY <1>1, <1>7, <3>1
  <2>2. Cyclic(next2, (M \cup {x}) \ {n})
    <3>1. /\ x \in M \cup {x} /\ n \in M \cup {x} /\ n = mid[x] /\ n # x
          /\ next2[x] = mid[n] /\ Cyclic(mid, M \cup {x})
      BY <1>1, <1>3, <1>4, <1>7 DEF Near
    <3>2. \A a \in M \cup {x} : a # x /\ a # n => next2[a] = mid[a]
      BY <1>3
    <3> QED BY <3>1, <3>2, CyclicRemove
  <2>3. \A a \in (M \cup {x}) \cup L : s2[a] = s[a]
    BY <2>1
  <2>4. (((M \cup {x}) \ {n}) \ {base}) \cup L = ((M \cup {x}) \ {base}) \cup L
    BY <1>7
  <2>5. \A a \in ((M \cup {x}) \ {base}) \cup L : s2[a] = s[a]
    BY <2>3
  <2>6. Tiled(((M \cup {x}) \ {base}) \cup L, s2) /\ Covered(((M \cup {x}) \ {base}) \cup L, s2)
    BY <1>4, <2>5, TiledSame DEF Near
  <2>7. Near((M \cup {x}) \ {n}, next2, s2, L)
    BY <1>4, <1>7, <2>2, <2>4, <2>6 DEF Near
  <2>8. ASSUME NEW a, NEW c, Touch((M \cup {x}) \ {n}, s2, a, c) PROVE a = q /\ c = x
    <3>1. Touch(M \cup {x}, s, a, c) /\ c # n
      BY <2>3, <2>8 DEF Touch
    <3> QED BY <1>4, <3>1
  <2> QED BY <1>1, <1>7, <2>7, <2>8
<1> QED BY <1>5, <1>6, <1>7

(***************************************************************************)
(* After the second no two blocks of the list touch.                       *)
(***************************************************************************)
LEMMA PlaceLower ==
  ASSUME NEW M, NEW next, NEW s, NEW L, NEW q \in M, NEW x \in M,
         Near(M, next, s, L), x # q, x # base, q + s[q] = x => q # base,
         next[q] = x, \A a, c : Touch(M, s, a, c) => a = q /\ c = x,
         NEW next2, NEW s2,
         \A a \in M : a # q /\ a # x => next2[a] = next[a],
         \A a \in M \cup L : a # q /\ a # x => s2[a] = s[a],
         IF q + s[q] = x
         THEN next2[q] = next[x] /\ s2[q] = s[q] + s[x]
         ELSE next2[q] = next[q] /\ s2[q] = s[q] /\ next2[x] = next[x] /\ s2[x] = s[x]
  PROVE  \E M2 \in SUBSET M : q \in M2 /\ Sound(M2, next2, s2, L)
<1>1. CASE q + s[q] # x
  <2>1. (\A a \in M : next2[a] = next[a]) /\ (\A a \in M \cup L : s2[a] = s[a])
    BY <1>1
  <2>2. Near(M, next2, s2, L)
    BY <2>1, NearSame
  <2>3. ASSUME NEW a \in M \ {base}, NEW c \in M \ {base}, a + s2[a] = c PROVE FALSE
    <3>1. Touch(M, s, a, c)
      BY <2>1, <2>3 DEF Touch
    <3> QED BY <1>1, <3>1 DEF Touch
  <2> QED BY <2>2, <2>3 DEF Sound, Separate
<1>2. CASE q + s[q] = x
  <2>1. q \in M \ {base} /\ x \in M \ {base} /\ next2[q] = next[x] /\ s2[q] = s[q] + s[x]
    BY <1>2
  <2>2. \A c : ~ Touch(M, s, x, c)
    OBVIOUS
  <2>3. /\ Near(M \ {x}, next2, s2, L)
        /\ \A a, c : Touch(M \ {x}, s2, a, c) => a # q /\ Touch(M, s, a, c)
    BY <1>2, <2>1, <2>2, JoinNext
  <2>4. Separate(M \ {x}, s2)
    BY <2>3 DEF Separate, Touch
  <2> QED BY <2>3, <2>4 DEF Sound
<1> QED BY <1>1, <1>2

(***************************************************************************)
(* The addresses of the blocks, when there is one more.                    *)
(***************************************************************************)
LEMMA OneMore ==
  ASSUME NEW B, NEW a, NEW n
  PROVE  AtsOf(B \cup {[at |-> a, units |-> n]}) = AtsOf(B) \cup {a}
<1>1. PICK c : c = [at |-> a, units |-> n]
  OBVIOUS
<1>2. c.at = a
  BY <1>1
<1>3. AtsOf(B \cup {c}) = AtsOf(B) \cup {c.at}
  BY DEF AtsOf
<1> QED BY <1>1, <1>2, <1>3

(***************************************************************************)
(* What Core says of each address.                                         *)
(***************************************************************************)
LEMMA HeadsFact ==
  ASSUME Core, base \in {0, Units + 1}
  PROVE  /\ base \in HeapAddress /\ base \in Int /\ base \notin Heads /\ base \notin Ats
         /\ size[base] = 0 /\ size \in [HeapAddress -> 0 .. Units]
         /\ ptr \in [HeapAddress -> HeapAddress \cup {NULL}]
         /\ \A a \in Heads : a \in 1 .. Units /\ size[a] \in 1 .. Units /\ a \in HeapAddress
         /\ Ats \subseteq Heads /\ List \ {base} \subseteq Heads /\ List \subseteq HeapAddress
         /\ \A b \in live : b.at \in Ats /\ b.units = size[b.at] /\ b = [at |-> b.at, units |-> b.units]
<1>1. base \in HeapAddress /\ base \in Int /\ base \notin 1 .. Units
  BY UnitsFact DEF HeapAddress
<1>2. \A a \in Heads : a \in 1 .. Units /\ size[a] \in 1 .. Units
  BY DEF Core, Tiled
<1>3. \A a \in 1 .. Units : a \in HeapAddress
  BY UnitsFact DEF HeapAddress
<1>4. Ats \subseteq Heads /\ List \ {base} \subseteq Heads /\ List \subseteq HeapAddress
  BY DEF Heads, HeadsOf, List
<1>5. /\ size[base] = 0 /\ size \in [HeapAddress -> 0 .. Units]
      /\ ptr \in [HeapAddress -> HeapAddress \cup {NULL}]
  BY DEF Core, Fields
<1>6. \A b \in live : b.at \in Ats /\ b.units = size[b.at] /\ b = [at |-> b.at, units |-> b.units]
  BY DEF Core, InUse, Ats, AtsOf
<1> QED BY <1>1, <1>2, <1>3, <1>4, <1>5, <1>6

(***************************************************************************)
(* A block taken whole goes from the list to those in use.                 *)
(***************************************************************************)
LEMMA TakeExactlyIInv ==
  ASSUME Working, base \in {0, Units + 1}, TakeExactly, ~ spent'
  PROVE  Working'
<1>1. /\ doing = "malloc" /\ size[p] = nunits /\ freep' = prevp /\ base' = base /\ up' = up
      /\ live' = live \cup {[at |-> p, units |-> nunits]}
      /\ Headers([ptr EXCEPT ![prevp] = ptr[p]], size, prevp, live')
      /\ ~ Alone(p) /\ doing' = "idle" /\ nunits' = 0
  BY DEF TakeExactly, Returns
<1>2. Core /\ Searching /\ nunits >= 1
  BY <1>1, UnitsFact DEF Working, Mode, Searching
<1>3. p \in List /\ prevp \in List /\ ptr[prevp] = p /\ p # base /\ p # prevp
  <2>1. p \in List /\ prevp \in List /\ ptr[prevp] = p /\ p # base
    BY <1>1, <1>2, HeadsFact DEF Searching
  <2> QED BY <1>1, <2>1 DEF Alone
<1>4. up
  BY <1>2, <1>3 DEF Core
<1>0. PICK M, L : M = List \ {p} /\ L = Ats \cup {p}
  OBVIOUS
<1>5. PICK next : next = [ptr EXCEPT ![prevp] = ptr[p]]
  OBVIOUS
<1>6. Cyclic(next, M)
  <2>1. next[prevp] = ptr[p] /\ \A a \in List : a # prevp /\ a # p => next[a] = ptr[a]
    BY <1>2, <1>3, <1>5, HeadsFact
  <2>2. Cyclic(ptr, List)
    BY <1>2 DEF Core
  <2> QED BY <1>0, <1>3, <2>1, <2>2, CyclicRemove
<1>7. Heads = HeadsOf(List)
  BY <1>1, IdleHeads
<1>8. (M \ {base}) \cup L = Heads
  BY <1>0, <1>3, <1>7 DEF HeadsOf
<1>9. Tiled((M \ {base}) \cup L, size) /\ Covered((M \ {base}) \cup L, size)
  BY <1>2, <1>4, <1>8 DEF Core
<1>10. Separate(M, size)
  BY <1>0, <1>2 DEF Core, Separate
<1>11. M \cap L = {} /\ base \notin L /\ size[base] = 0
  BY <1>0, <1>2, <1>3, HeadsFact DEF Core
<1>12. prevp \in M
  BY <1>0, <1>3
<1>13. L = AtsOf(live')
  BY <1>0, <1>1, OneMore DEF Ats
<1>14. \A b \in live' : b.units = size[b.at] /\ b = [at |-> b.at, units |-> b.units]
  <2>1. ASSUME NEW b \in live' PROVE b.units = size[b.at] /\ b = [at |-> b.at, units |-> b.units]
    BY <1>1, <1>2, <2>1, HeadsFact
  <2> QED BY <2>1
<1>15. base \in HeapAddress
  BY <1>2, HeadsFact
<1>16. ~ Freeing'
  BY <1>1 DEF Freeing
<1>17. Sound(M, next, size, L)
  BY <1>6, <1>9, <1>10, <1>11 DEF Sound, Near
<1>18. Core'
  <2>1. PICK B, s : B = live' /\ s = size
    OBVIOUS
  <2>2. Headers(next, s, prevp, B) /\ live' = B /\ L = AtsOf(B)
    BY <1>1, <1>5, <1>13, <2>1
  <2>3. Sound(M, next, s, L)
    BY <1>17, <2>1
  <2>4. \A b \in B : b.units = s[b.at] /\ b = [at |-> b.at, units |-> b.units]
    BY <1>14, <2>1
  <2>5. prevp \in M /\ freep' \in M /\ base' = base /\ up' /\ ~ Freeing' /\ base \in HeapAddress
    BY <1>1, <1>4, <1>12, <1>15, <1>16
  <2>6. PICK start : start = prevp
    OBVIOUS
  <2>7. start \in M /\ Headers(next, s, start, B)
    BY <2>2, <2>5, <2>6
  <2> QED BY <2>2, <2>3, <2>4, <2>5, <2>7, HeadersCore
<1> QED BY <1>1, <1>18 DEF Working, Mode

(***************************************************************************)
(* A block whose tail is taken stays on the list, shorter.                 *)
(***************************************************************************)
LEMMA TakeTailIInv ==
  ASSUME Working, base \in {0, Units + 1}, TakeTail
  PROVE  Working'
<1>0. PICK at : at = p + size[p] - nunits
  OBVIOUS
<1>1. /\ doing = "malloc" /\ size[p] > nunits /\ freep' = prevp /\ base' = base /\ up' = up
      /\ live' = live \cup {[at |-> at, units |-> nunits]} /\ ptr' = ptr
      /\ size' = [size EXCEPT ![p] = @ - nunits, ![at] = nunits]
      /\ doing' = "idle" /\ nunits' = 0
  BY <1>0 DEF TakeTail, Returns
<1>2. Core /\ Searching /\ nunits >= 1 /\ nunits \in Nat /\ nunits \in 0 .. Units
  BY <1>1, UnitsFact DEF Working, Mode, Searching
<1>3. p \in List /\ prevp \in List /\ ptr[prevp] = p
  BY <1>2 DEF Searching
<1>4. p # base
  BY <1>1, <1>2, HeadsFact
<1>5. up
  BY <1>2, <1>3, <1>4 DEF Core
<1>6. Heads = HeadsOf(List) /\ p \in Heads
  BY <1>1, <1>3, <1>4, IdleHeads DEF HeadsOf
<1>7. /\ p \in 1 .. Units /\ size[p] \in 1 .. Units /\ p + size[p] <= Units + 1
      /\ p \in HeapAddress /\ size \in [HeapAddress -> 0 .. Units]
  BY <1>2, <1>6, HeadsFact DEF Core, Tiled
<1>8. at \in HeapAddress /\ at # p /\ at # base /\ at \in 1 .. Units
  <2>1. PICK m : m = size[p]
    OBVIOUS
  <2>2. m \in 1 .. Units /\ m > nunits /\ at = p + m - nunits /\ p + m <= Units + 1
    BY <1>0, <1>1, <1>7, <2>1
  <2>3. at \in 1 .. Units /\ at # p
    BY <1>2, <1>7, <2>2, UnitsFact
  <2> QED BY <2>3, UnitsFact DEF HeapAddress
<1>9. /\ size'[p] = size[p] - nunits /\ size'[at] = nunits
      /\ \A a \in HeapAddress : a # p /\ a # at => size'[a] = size[a]
      /\ size' \in [HeapAddress -> 0 .. Units]
  <2>1. size[p] - nunits \in 0 .. Units
    BY <1>1, <1>2, <1>7, UnitsFact
  <2> QED BY <1>1, <1>2, <1>7, <1>8, <2>1
<1>10. at \notin Heads /\ Tiled(Heads \cup {at}, size') /\ Covered(Heads \cup {at}, size')
  <2>1. PICK s2 : s2 = [a \in HeapAddress |-> IF a = p THEN size[p] - nunits ELSE IF a = at THEN nunits ELSE size[a]]
    OBVIOUS
  <2>2. s2[p] = size[p] - nunits /\ s2[at] = nunits
    BY <1>7, <1>8, <2>1
  <2>3. PICK c : c = at
    OBVIOUS
  <2>4. c \notin Heads
    <3>1. ASSUME c \in Heads PROVE FALSE
      <4>1. PICK m : m = size[p]
        OBVIOUS
      <4>2. \A y \in Heads : p < y => p + m <= y
        BY <1>2, <1>6, <4>1 DEF Core, Tiled
      <4>3. c = p + m - nunits /\ m \in 1 .. Units /\ m > nunits
        BY <1>0, <1>1, <1>7, <2>3, <4>1
      <4> QED BY <1>2, <1>7, <3>1, <4>2, <4>3, UnitsFact
    <3> QED BY <3>1
  <2>5. \A a \in Heads : a # p => s2[a] = size[a]
    BY <1>2, <2>1, <2>3, <2>4, HeadsFact
  <2>6. Tiled(Heads \cup {c}, s2) /\ Covered(Heads \cup {c}, s2)
    <3>1. Tiled(Heads, size) /\ Covered(Heads, size) /\ c = p + size[p] - nunits /\ s2[c] = nunits
      BY <1>0, <1>2, <1>5, <2>2, <2>3 DEF Core
    <3>2. nunits < size[p]
      BY <1>1, <1>2, <1>7, UnitsFact
    <3> QED BY <1>2, <1>6, <2>2, <2>5, <3>1, <3>2, TiledSplit
  <2>7. \A a \in Heads \cup {c} : size'[a] = s2[a]
    <3> QED BY <1>2, <1>8, <1>9, <2>1, <2>3, HeadsFact
  <2> QED BY <2>3, <2>4, <2>6, <2>7, TiledSame
<1>11. List' = List
  BY <1>1 DEF List
<1>12. Ats' = Ats \cup {at}
  BY <1>1, OneMore DEF Ats
<1>13. at \notin List /\ Ats' \cap List = {}
  BY <1>2, <1>8, <1>10, <1>12, HeadsFact DEF Core
<1>14. Heads' = Heads \cup {at}
  BY <1>1, <1>6, <1>11, <1>12 DEF Heads, HeadsOf, Freeing
<1>15. Separate(List, size')
  <2> SUFFICES ASSUME NEW a \in List \ {base}, NEW c \in List \ {base} PROVE a + size'[a] # c
    BY DEF Separate
  <2>1. CASE a = p
    <3>1. p + size'[p] = at
      BY <1>0, <1>2, <1>7, <1>9, UnitsFact
    <3> QED BY <1>13, <2>1, <3>1
  <2>2. CASE a # p
    <3>1. size'[a] = size[a]
      BY <1>2, <1>9, <1>13, <2>2, HeadsFact
    <3> QED BY <1>2, <3>1 DEF Core, Separate
  <2> QED BY <2>1, <2>2
<1>16. InUse(size)'
  <2>1. ASSUME NEW b \in live PROVE b.units = size'[b.at] /\ b = [at |-> b.at, units |-> b.units]
    <3>1. b.at \in Ats /\ b.at \in Heads /\ b.at \notin List /\ b.at \in HeapAddress
      BY <1>2, HeadsFact DEF Core
    <3>2. b.at # p /\ b.at # at
      BY <1>3, <1>10, <3>1
    <3> QED BY <1>2, <1>9, <3>1, <3>2, HeadsFact
  <2>2. ASSUME NEW b \in live' PROVE b.units = size'[b.at] /\ b = [at |-> b.at, units |-> b.units]
    <3>1. PICK c : c = [at |-> at, units |-> nunits]
      OBVIOUS
    <3>2. c.at = at /\ c.units = nunits /\ c = [at |-> c.at, units |-> c.units]
      BY <3>1
    <3>3. b \in live \/ b = c
      BY <1>1, <2>2, <3>1
    <3>4. CASE b = c
      BY <1>9, <3>2, <3>4
    <3>5. CASE b \in live
      BY <2>1, <3>5
    <3> QED BY <3>3, <3>4, <3>5
  <2> QED BY <2>2 DEF InUse
<1>17. Fields'
  <2>1. ptr' \in [HeapAddress -> HeapAddress \cup {NULL}] /\ size'[base] = 0
    BY <1>1, <1>2, <1>4, <1>8, <1>9, HeadsFact
  <2> QED BY <1>1, <1>9, <2>1 DEF Fields
<1>18. Cyclic(ptr, List)' /\ freep' \in List'
  BY <1>1, <1>2, <1>3, <1>11 DEF Core, Cyclic, Follows
<1>19. Tiled(Heads, size)' /\ Covered(Heads, size)' /\ Separate(List, size)'
  BY <1>1, <1>10, <1>11, <1>14, <1>15 DEF Tiled, Covered, Separate
<1>20. Core'
  BY <1>1, <1>5, <1>11, <1>13, <1>16, <1>17, <1>18, <1>19 DEF Core
<1> QED BY <1>1, <1>20 DEF Working, Mode

\* The fields once the block at bp was joined to the one above it, or not.
UpperFields(next, s) ==
  /\ JoinUpper(ptr, size) = [ptr |-> next, size |-> s]
  /\ IF bp + size[bp] = ptr[p]
     THEN next[bp] = ptr[ptr[p]] /\ s[bp] = size[bp] + size[ptr[p]]
     ELSE next[bp] = ptr[p] /\ s[bp] = size[bp]
  /\ \A a \in HeapAddress : a # bp => next[a] = ptr[a] /\ s[a] = size[a]
  /\ DOMAIN next = HeapAddress /\ DOMAIN s = HeapAddress

\* ... and then the one at p to it, or not.
LowerFields(next, s, next2, s2) ==
  /\ JoinLower(next, s) = [ptr |-> next2, size |-> s2]
  /\ IF p + s[p] = bp
     THEN next2[p] = next[bp] /\ s2[p] = s[p] + s[bp]
     ELSE next2[p] = bp /\ s2[p] = s[p]
  /\ \A a \in HeapAddress : a # p => next2[a] = next[a] /\ s2[a] = s[a]

(***************************************************************************)
(* JoinUpper field by field.                                               *)
(***************************************************************************)
LEMMA UpperFact ==
  ASSUME DOMAIN ptr = HeapAddress, DOMAIN size = HeapAddress, bp \in HeapAddress
  PROVE  \E next, s : UpperFields(next, s)
<1>1. CASE bp + size[bp] = ptr[p]
  <2>1. PICK v, w : v = ptr[ptr[p]] /\ w = size[bp] + size[ptr[p]]
    OBVIOUS
  <2>2. PICK next, s : next = [ptr EXCEPT ![bp] = v] /\ s = [size EXCEPT ![bp] = w]
    OBVIOUS
  <2>3. JoinUpper(ptr, size) = [ptr |-> next, size |-> s]
    BY <1>1, <2>1, <2>2 DEF JoinUpper
  <2>4. next[bp] = v /\ s[bp] = w /\ DOMAIN next = HeapAddress /\ DOMAIN s = HeapAddress
        /\ \A a \in HeapAddress : a # bp => next[a] = ptr[a] /\ s[a] = size[a]
    BY <2>2
  <2>5. UpperFields(next, s)
    BY <1>1, <2>1, <2>3, <2>4 DEF UpperFields
  <2> QED BY <2>5
<1>2. CASE bp + size[bp] # ptr[p]
  <2>1. PICK v : v = ptr[p]
    OBVIOUS
  <2>2. PICK next : next = [ptr EXCEPT ![bp] = v]
    OBVIOUS
  <2>3. JoinUpper(ptr, size) = [ptr |-> next, size |-> size]
    BY <1>2, <2>1, <2>2 DEF JoinUpper
  <2>4. next[bp] = v /\ DOMAIN next = HeapAddress
        /\ \A a \in HeapAddress : a # bp => next[a] = ptr[a]
    BY <2>2
  <2>5. UpperFields(next, size)
    BY <1>2, <2>1, <2>3, <2>4 DEF UpperFields
  <2> QED BY <2>5
<1> QED BY <1>1, <1>2

(***************************************************************************)
(* JoinLower field by field.                                               *)
(***************************************************************************)
LEMMA LowerFact ==
  ASSUME NEW next, NEW s, DOMAIN next = HeapAddress, DOMAIN s = HeapAddress, p \in HeapAddress
  PROVE  \E next2, s2 : LowerFields(next, s, next2, s2)
<1>1. CASE p + s[p] = bp
  <2>1. PICK v, w : v = next[bp] /\ w = s[p] + s[bp]
    OBVIOUS
  <2>2. PICK next2, s2 : next2 = [next EXCEPT ![p] = v] /\ s2 = [s EXCEPT ![p] = w]
    OBVIOUS
  <2>3. JoinLower(next, s) = [ptr |-> next2, size |-> s2]
    BY <1>1, <2>1, <2>2 DEF JoinLower
  <2>4. next2[p] = v /\ s2[p] = w
        /\ \A a \in HeapAddress : a # p => next2[a] = next[a] /\ s2[a] = s[a]
    BY <2>2
  <2>5. LowerFields(next, s, next2, s2)
    BY <1>1, <2>1, <2>3, <2>4 DEF LowerFields
  <2> QED BY <2>5
<1>2. CASE p + s[p] # bp
  <2>1. PICK next2 : next2 = [next EXCEPT ![p] = bp]
    OBVIOUS
  <2>2. JoinLower(next, s) = [ptr |-> next2, size |-> s]
    BY <1>2, <2>1 DEF JoinLower
  <2>3. next2[p] = bp /\ \A a \in HeapAddress : a # p => next2[a] = next[a]
    BY <2>1
  <2>4. LowerFields(next, s, next2, s)
    BY <1>2, <2>2, <2>3 DEF LowerFields
  <2> QED BY <2>4
<1> QED BY <1>1, <1>2

(***************************************************************************)
(* free puts the block in the list and joins what touches; the list stays  *)
(* sound unless its only block was consumed. After morecore the search     *)
(* starts over from there.                                                 *)
(***************************************************************************)
LEMMA LinkInIInv ==
  ASSUME Working, base \in {0, Units + 1}, LinkIn, ~ spent'
  PROVE  Working'
<1>1. /\ Freeing /\ (Between \/ AtEnd) /\ freep' = p /\ base' = base /\ up' = up /\ live' = live
      /\ ~ (Alone(p) /\ bp + size[bp] = p)
  BY DEF LinkIn
<1>2. Core /\ Inserting /\ up
  BY <1>1 DEF Working, Mode, Freeing
<1>3. Heads = (List \ {base}) \cup Ats \cup {bp}
  BY <1>1 DEF Heads, HeadsOf
<1>4. /\ p \in List /\ bp \notin List /\ bp \notin Ats /\ p # bp
      /\ p \in HeapAddress /\ bp \in HeapAddress /\ bp # base
  BY <1>2, <1>3, HeadsFact DEF Inserting
<1>5. Belongs(ptr, p, bp)
  <2>1. PICK n : n = ptr[p]
    OBVIOUS
  <2>2. n \in Int /\ p \in Int /\ bp \in Int
    BY <1>2, <1>4, <2>1, Numbers, UnitsFact DEF Core, HeapAddress
  <2>3. (bp > p /\ bp < n) \/ (p >= n /\ (bp > p \/ bp < n))
    BY <1>1, <2>1 DEF Between, AtEnd
  <2>4. (p < bp /\ bp < n) \/ (n <= p /\ (p < bp \/ bp < n))
    BY <2>2, <2>3
  <2> QED BY <2>1, <2>4 DEF Belongs
<1>6. ToPlace(List, ptr, size, Ats, p, bp)
  BY <1>2, <1>3, <1>4, <1>5, HeadsFact DEF Core, ToPlace
<1>6a. PICK next, s : UpperFields(next, s)
  <2>1. DOMAIN ptr = HeapAddress /\ DOMAIN size = HeapAddress
    BY <1>2, HeadsFact
  <2> QED BY <1>4, <2>1, UpperFact
<1>6b. PICK next2, s2 : LowerFields(next, s, next2, s2)
  BY <1>4, <1>6a, LowerFact DEF UpperFields
<1>7. /\ JoinUpper(ptr, size) = [ptr |-> next, size |-> s]
      /\ IF bp + size[bp] = ptr[p]
         THEN next[bp] = ptr[ptr[p]] /\ s[bp] = size[bp] + size[ptr[p]]
         ELSE next[bp] = ptr[p] /\ s[bp] = size[bp]
      /\ \A a \in HeapAddress : a # bp => next[a] = ptr[a] /\ s[a] = size[a]
      /\ JoinLower(next, s) = [ptr |-> next2, size |-> s2]
      /\ IF p + s[p] = bp
         THEN next2[p] = next[bp] /\ s2[p] = s[p] + s[bp]
         ELSE next2[p] = bp /\ s2[p] = s[p]
      /\ \A a \in HeapAddress : a # p => next2[a] = next[a] /\ s2[a] = s[a]
  BY <1>6a, <1>6b DEF UpperFields, LowerFields
<1>8. Headers(next2, s2, p, live)
  BY <1>7 DEF LinkIn
<1>9. List \subseteq HeapAddress /\ Ats \subseteq HeapAddress
  BY <1>2, HeadsFact
<1>10. PICK M2 \in SUBSET (List \cup {bp}) : \E mid :
            /\ p \in M2 /\ bp \in M2 /\ Near(M2, mid, s, Ats) /\ mid[p] = bp
            /\ \A a \in HeapAddress : a # p => mid[a] = next[a]
            /\ \A a, c : Touch(M2, s, a, c) => a = p /\ c = bp
  <2>1. PICK mid : mid = [a \in HeapAddress |-> IF a = p THEN bp ELSE next[a]]
    OBVIOUS
  <2>2. mid[p] = bp /\ \A a \in HeapAddress : a # p => mid[a] = next[a]
    BY <1>4, <2>1
  <2>3. \A a \in List : a # p => mid[a] = ptr[a]
    BY <1>4, <1>7, <1>9, <2>2
  <2>4. \A a \in List \cup Ats : s[a] = size[a]
    BY <1>4, <1>7, <1>9
  <2>5. PICK n : n = ptr[p]
    OBVIOUS
  <2>6. ~ (n = p /\ p # base /\ bp + size[bp] = n)
    BY <1>1, <2>5 DEF Alone
  <2>7. IF bp + size[bp] = n THEN mid[bp] = ptr[n] /\ s[bp] = size[bp] + size[n]
                             ELSE mid[bp] = n /\ s[bp] = size[bp]
    BY <1>4, <1>7, <2>2, <2>5
  <2>8. \E M2 \in SUBSET (List \cup {bp}) :
            /\ p \in M2 /\ bp \in M2 /\ Near(M2, mid, s, Ats)
            /\ \A a, c : Touch(M2, s, a, c) => a = p /\ c = bp
    BY <1>6, <2>2, <2>3, <2>4, <2>5, <2>6, <2>7, PlaceUpper
  <2> QED BY <2>2, <2>8
<1>11. PICK mid :
            /\ p \in M2 /\ bp \in M2 /\ Near(M2, mid, s, Ats) /\ mid[p] = bp
            /\ \A a \in HeapAddress : a # p => mid[a] = next[a]
            /\ \A a, c : Touch(M2, s, a, c) => a = p /\ c = bp
  BY <1>10
<1>12. PICK M \in SUBSET M2 : p \in M /\ Sound(M, next2, s2, Ats)
  <2>1. \A a \in M2 : a # p => next2[a] = mid[a]
    BY <1>4, <1>7, <1>9, <1>11
  <2>2. \A a \in M2 \cup Ats : a # p /\ a # bp => s2[a] = s[a]
    BY <1>4, <1>7, <1>9
  <2>3. p + s[p] = bp => p # base
    <3>1. s[p] = size[p]
      BY <1>4, <1>7
    <3> QED BY <1>6, <3>1, PlacedFact
  <2>4. IF p + s[p] = bp
        THEN next2[p] = mid[bp] /\ s2[p] = s[p] + s[bp]
        ELSE next2[p] = mid[p] /\ s2[p] = s[p] /\ next2[bp] = mid[bp] /\ s2[bp] = s[bp]
    BY <1>4, <1>7, <1>11
  <2> QED BY <1>4, <1>11, <2>1, <2>2, <2>3, <2>4, PlaceLower
<1>13. ~ Freeing'
  BY <1>1 DEF LinkIn, Returns, Freeing
<1>14. \A b \in live : b.units = s2[b.at] /\ b = [at |-> b.at, units |-> b.units]
  <2> SUFFICES ASSUME NEW b \in live PROVE b.units = s2[b.at] /\ b = [at |-> b.at, units |-> b.units]
    OBVIOUS
  <2>1. b.at \in Ats /\ b.units = size[b.at] /\ b = [at |-> b.at, units |-> b.units]
    BY <1>2, HeadsFact
  <2>2. b.at # p /\ b.at # bp /\ b.at \in HeapAddress
    BY <1>2, <1>4, <1>9, <2>1 DEF Core
  <2> QED BY <1>7, <2>1, <2>2
<1>15. Core' /\ List' = M /\ \A a \in M : ptr'[a] = next2[a]
  <2>1. PICK B, L, start : B = live /\ L = Ats /\ start = p
    OBVIOUS
  <2>2. L = AtsOf(B) /\ live' = B /\ start \in M /\ freep' \in M /\ base \in HeapAddress
    BY <1>1, <1>2, <1>12, <2>1, HeadsFact DEF Ats
  <2>3. Sound(M, next2, s2, L) /\ Headers(next2, s2, start, B)
    BY <1>8, <1>12, <2>1
  <2>4. \A b \in B : b.units = s2[b.at] /\ b = [at |-> b.at, units |-> b.units]
    BY <1>14, <2>1
  <2> QED BY <1>1, <1>2, <1>13, <2>2, <2>3, <2>4, HeadersCore
<1>16. CASE doing = "free"
  <2>1. doing' = "idle" /\ nunits' = 0
    BY <1>16 DEF LinkIn, Returns
  <2> QED BY <1>15, <2>1 DEF Working, Mode
<1>17. CASE doing = "morecore"
  <2>1. doing' = "malloc" /\ prevp' = p /\ p' = ptr'[p] /\ nunits' = nunits
    BY <1>17 DEF LinkIn
  <2>2. nunits \in 1 .. MaxUnits
    BY <1>17 DEF Working, Mode
  <2>3. Cyclic(ptr', M)
    BY <1>15 DEF Core, Cyclic, Follows
  <2>4. ptr'[p] \in M
    BY <1>12, <2>3, Numbers
  <2>5. \A a \in M : a # p => ~ Before(p, a, ptr'[p])
    BY <1>12, <2>3, NoneBefore
  <2>6. Searching'
    BY <1>1, <1>12, <1>15, <2>1, <2>2, <2>4, <2>5 DEF Searching, Before
  <2> QED BY <1>15, <2>1, <2>6 DEF Working, Mode
<1> QED BY <1>1, <1>16, <1>17 DEF Freeing

(***************************************************************************)
(* Every step preserves the invariant.                                     *)
(***************************************************************************)
LEMMA HeapNextIInv ==
  ASSUME HeapIInv, [HeapNext]_heapVars
  PROVE  HeapIInv'
<1>1. base' = base /\ base \in {0, Units + 1} /\ up \in BOOLEAN /\ spent \in BOOLEAN
  BY DEF HeapIInv, HeapNext, heapVars, malloc, TakeExactly, TakeTail, TooSmall, NoneLeft, morecore, free,
         Skip, LinkIn
<1>2. up' \in BOOLEAN /\ spent' \in BOOLEAN /\ (spent => spent')
  BY <1>1 DEF HeapNext, heapVars, malloc, TakeExactly, TakeTail, TooSmall, NoneLeft, morecore, free,
         Skip, LinkIn
<1>3. CASE spent'
  BY <1>1, <1>2, <1>3 DEF HeapIInv
<1>4. CASE ~ spent'
  <2>1. Unused \/ Working
    BY <1>2, <1>4 DEF HeapIInv
  <2>2. CASE UNCHANGED heapVars
    <3>1. Unused => Unused'
      BY <2>2 DEF heapVars, layout, locals, Unused
    <3>2. Working => Working'
      <4>1. UNCHANGED <<base, layout, up, live>> /\ doing' = doing /\ nunits' = nunits
            /\ p' = p /\ prevp' = prevp /\ bp' = bp
        BY <2>2 DEF heapVars, locals
      <4>2. Heads' = Heads /\ List' = List /\ Ats' = Ats
        BY <4>1 DEF Heads, HeadsOf, Freeing, List, Ats, AtsOf, layout
      <4>3. Working => Core'
        BY <4>1, <4>2, CoreSame DEF Working
      <4>4. Searching => Searching'
        BY <4>1, <4>2 DEF Searching, Before, layout
      <4>5. Inserting => Inserting'
        BY <4>1, <4>2 DEF Inserting
      <4>6. up' = up
        BY <4>1
      <4>7. Mode => Mode'
        BY <4>1, <4>4, <4>5, <4>6 DEF Mode
      <4> QED BY <4>3, <4>7 DEF Working
    <3> QED BY <1>1, <1>2, <2>1, <3>1, <3>2 DEF HeapIInv
  <2>3. CASE Unused
    <3>1. UNCHANGED heapVars \/ \E n \in 1 .. MaxUnits : malloc(n)
      BY <2>3 DEF HeapNext, Unused, TakeExactly, TakeTail, TooSmall, NoneLeft, morecore, free,
                  Skip, LinkIn, Freeing
    <3> QED BY <1>1, <1>2, <2>2, <2>3, <3>1, MallocFirst DEF HeapIInv
  <2>4. CASE Working /\ HeapNext
    <3>0. Working' => HeapIInv'
      BY <1>1, <1>2 DEF HeapIInv
    <3>1. CASE \E n \in 1 .. MaxUnits : malloc(n)
      BY <3>0, <2>4, <3>1, MallocIInv
    <3>2. CASE TakeExactly
      BY <3>0, <1>1, <1>4, <2>4, <3>2, TakeExactlyIInv
    <3>3. CASE TakeTail
      BY <3>0, <1>1, <2>4, <3>3, TakeTailIInv
    <3>4. CASE TooSmall
      BY <3>0, <2>4, <3>4, TooSmallIInv
    <3>5. CASE NoneLeft
      BY <3>0, <2>4, <3>5, NoneLeftIInv
    <3>6. CASE morecore
      BY <3>0, <1>1, <2>4, <3>6, MorecoreIInv
    <3>7. CASE \E b \in live : free(b)
      BY <3>0, <2>4, <3>7, FreeIInv
    <3>8. CASE Skip
      BY <3>0, <2>4, <3>8, SkipIInv
    <3>9. CASE LinkIn
      BY <3>0, <1>1, <1>4, <2>4, <3>9, LinkInIInv
    <3> QED BY <2>4, <3>1, <3>2, <3>3, <3>4, <3>5, <3>6, <3>7, <3>8, <3>9 DEF HeapNext
  <2> QED BY <2>1, <2>2, <2>3, <2>4
<1> QED BY <1>3, <1>4

-----------------------------------------------------------------------------
(* The results *)

(***************************************************************************)
(* The invariant of the heap, until the only block of a list without base  *)
(* is consumed (malloc.c).                                                 *)
(***************************************************************************)
THEOREM HeapIInvHolds == HeapSpec => []HeapIInv
<1>1. HeapInit => HeapIInv
  BY HeapInitIInv
<1>2. HeapIInv /\ [HeapNext]_heapVars => HeapIInv'
  BY HeapNextIInv
<1> QED BY <1>1, <1>2, PTL DEF HeapSpec

(***************************************************************************)
(* Between calls the blocks on the list and those in use tile the heap.    *)
(***************************************************************************)
LEMMA PartitionedFact ==
  ASSUME HeapIInv
  PROVE  Partitioned
<1> SUFFICES ASSUME doing = "idle", up, ~ spent, NEW u \in 1 .. Units
             PROVE  \E b \in live \cup FreeBlocks : \A c \in live \cup FreeBlocks :
                       u \in Cells(c) <=> c = b
  BY DEF Partitioned
<1>1. Core /\ base \in {0, Units + 1}
  BY DEF HeapIInv, Unused, Working
<1>2. Heads = (List \ {base}) \cup Ats
  BY IdleHeads DEF HeadsOf
<1>3. OnList(ptr, freep) = List
  BY <1>1, OnListFact DEF Core
<1>4. FreeBlocks = {BlockAt(a) : a \in List \ {base}}
  BY <1>3 DEF FreeBlocks
<1>5. ASSUME NEW b \in live \cup FreeBlocks PROVE b.at \in Heads /\ b = BlockAt(b.at)
  <2>1. CASE b \in live
    <3>1. b.at \in Ats /\ b.units = size[b.at] /\ b = [at |-> b.at, units |-> b.units]
      BY <1>1, <2>1, HeadsFact
    <3> QED BY <1>2, <3>1 DEF BlockAt
  <2>2. CASE b \in FreeBlocks
    <3>1. PICK a \in List \ {base} : b = BlockAt(a)
      BY <1>4, <2>2
    <3>2. b.at = a
      BY <3>1 DEF BlockAt
    <3> QED BY <1>2, <3>1, <3>2
  <2> QED BY <2>1, <2>2
<1>6. ASSUME NEW a \in Heads PROVE BlockAt(a) \in live \cup FreeBlocks
  <2>1. CASE a \in Ats
    <3>1. PICK b \in live : b.at = a
      BY <2>1 DEF Ats, AtsOf
    <3>2. b = BlockAt(b.at)
      BY <1>5
    <3> QED BY <3>1, <3>2
  <2>2. CASE a \in List \ {base}
    BY <1>4, <2>2
  <2> QED BY <1>2, <2>1, <2>2
<1>7. Covered(Heads, size) /\ Tiled(Heads, size)
  BY <1>1 DEF Core
<1>8. PICK a \in Heads : a <= u /\ u < a + size[a]
  BY <1>7 DEF Covered
<1>9. ASSUME NEW c \in Heads, c <= u, u < c + size[c] PROVE c = a
  <2>1. a \in Int /\ c \in Int /\ size[a] \in Int /\ size[c] \in Int
    BY <1>1, HeadsFact, UnitsFact
  <2>2. (a < c => a + size[a] <= c) /\ (c < a => c + size[c] <= a)
    BY <1>7 DEF Tiled
  <2> QED BY <1>8, <1>9, <2>1, <2>2, UnitsFact
<1>10. ASSUME NEW c \in Heads PROVE u \in Cells(BlockAt(c)) <=> c = a
  <2>1. PICK b : b = BlockAt(c)
    OBVIOUS
  <2>2. b.at = c /\ b.units = size[c]
    BY <2>1 DEF BlockAt
  <2>3. c \in Int /\ size[c] \in Int /\ u \in Int
    BY <1>1, HeadsFact, UnitsFact
  <2>4. u \in Cells(b) <=> (c <= u /\ u < c + size[c])
    BY <2>2, <2>3 DEF Cells
  <2> QED BY <1>8, <1>9, <2>1, <2>4
<1>11. BlockAt(a) \in live \cup FreeBlocks
  BY <1>6
<1>12. ASSUME NEW c \in live \cup FreeBlocks PROVE u \in Cells(c) <=> c = BlockAt(a)
  <2>1. c.at \in Heads /\ c = BlockAt(c.at)
    BY <1>5
  <2>2. u \in Cells(c) <=> c.at = a
    BY <1>10, <2>1
  <2>3. PICK d : d = BlockAt(a)
    OBVIOUS
  <2>4. d.at = a
    BY <2>3 DEF BlockAt
  <2> QED BY <2>1, <2>2, <2>3, <2>4
<1> QED BY <1>11, <1>12

(***************************************************************************)
(* Between calls every unit of the heap belongs to exactly one block, in   *)
(* use or on the list: malloc and free (malloc.c) leak nothing, for every  *)
(* size of the heap and every order of calls, until the only block of the  *)
(* list is consumed.                                                       *)
(***************************************************************************)
THEOREM PartitionedHolds == HeapSpec => []Partitioned
<1>1. HeapIInv => Partitioned
  BY PartitionedFact
<1> QED BY <1>1, HeapIInvHolds, PTL

(***************************************************************************)
(* Blocks in use lie in the heap, and two of them share no unit.           *)
(***************************************************************************)
LEMMA Apart ==
  ASSUME NEW H, NEW s, NEW B, NEW b \in B, Tiled(H, s),
         \A c \in B : c.at \in H /\ c.units = s[c.at] /\ c = [at |-> c.at, units |-> c.units]
  PROVE  /\ b.at \in 1 .. Units /\ Cells(b) \subseteq 1 .. Units
         /\ \A c \in B : b # c => Cells(b) \cap Cells(c) = {}
<1>3. \A c \in B : c.at \in 1 .. Units /\ c.units \in 1 .. Units /\ c.at + c.units <= Units + 1
  BY DEF Tiled
<1>4. \A c, d \in B : c.at < d.at => c.at + c.units <= d.at
  BY DEF Tiled
<1>5. Cells(b) \subseteq 1 .. Units
  BY <1>3, UnitsFact DEF Cells
<1>6. ASSUME NEW c \in B, b # c PROVE Cells(b) \cap Cells(c) = {}
  <2>1. b.at # c.at
    BY <1>6
  <2>2. PICK i, j, k, l : i = b.at /\ j = c.at /\ k = b.units /\ l = c.units
    OBVIOUS
  <2>3. i \in Int /\ j \in Int /\ k \in Int /\ l \in Int /\ i # j
        /\ (i < j => i + k <= j) /\ (j < i => j + l <= i)
    BY <1>3, <1>4, <2>1, <2>2, UnitsFact
  <2>4. (i .. i + k - 1) \cap (j .. j + l - 1) = {}
    BY <2>3
  <2> QED BY <2>2, <2>4 DEF Cells
<1> QED BY <1>3, <1>5, <1>6

(***************************************************************************)
(* The two modules mean the same by the units of a block.                  *)
(***************************************************************************)
LEMMA CellsSame == \A b : A!Cells(b) = Cells(b)
BY DEF A!Cells, Cells

(***************************************************************************)
(* A block that is handed out lay in what was free.                        *)
(***************************************************************************)
LEMMA GrantFits ==
  ASSUME Core', base' \in {0, Units + 1}, NEW b, live' = live \cup {b}, b \notin live
  PROVE  A!Fits(b) /\ b.at \in 1 .. Units
<1>1. /\ b.at \in 1 .. Units /\ Cells(b) \subseteq 1 .. Units
      /\ \A c \in live' : b # c => Cells(b) \cap Cells(c) = {}
  <2>1. PICK H, s, B : H = Heads' /\ s = size' /\ B = live'
    OBVIOUS
  <2>2. Tiled(H, s)
    BY <2>1 DEF Core
  <2>3. ASSUME NEW c \in B PROVE c.at \in H /\ c.units = s[c.at] /\ c = [at |-> c.at, units |-> c.units]
    <3>1. c.at \in H
      BY <2>1 DEF Heads, HeadsOf, Ats, AtsOf
    <3> QED BY <2>1, <3>1 DEF Core, InUse
  <2> QED BY <2>1, <2>2, <2>3, Apart
<1>2. \A c \in live : Cells(b) \cap Cells(c) = {}
  BY <1>1
<1> QED BY <1>1, <1>2, CellsSame DEF A!Fits, A!Free

(***************************************************************************)
(* When the search of malloc has come back to freep, no stretch of the     *)
(* heap that is free is long enough: it would begin in a free block that   *)
(* is too short, and the one that goes on where that ends would touch it.  *)
(***************************************************************************)
LEMMA RefuseRight ==
  ASSUME Core, base \in {0, Units + 1}, Searching, doing = "malloc", up,
         size[p] < nunits, p = freep, NEW a \in 1 .. Units
  PROVE  ~ A!Fits([at |-> a, units |-> nunits])
<1>1. Heads = (List \ {base}) \cup Ats
  BY IdleHeads DEF HeadsOf
<1>2. nunits \in Int /\ nunits >= 1 /\ a \in Int /\ freep \in Int
  BY UnitsFact, Numbers DEF Searching, Core
<1>3. ASSUME NEW c \in List PROVE size[c] < nunits
  <2>1. c \in Int
    BY Numbers DEF Core
  <2>2. c # freep => Before(freep, c, freep)
    BY <1>2, <2>1 DEF Before
  <2> QED BY <2>2 DEF Searching
<1>4. Covered(Heads, size) /\ Tiled(Heads, size) /\ Separate(List, size)
  BY DEF Core
<1> SUFFICES ASSUME A!Fits([at |-> a, units |-> nunits])
             PROVE  FALSE
  OBVIOUS
<1>5. ASSUME NEW v \in Int, a <= v, v < a + nunits
      PROVE  v \in 1 .. Units /\ \A b \in live : v \notin Cells(b)
  <2>1. PICK b : b = [at |-> a, units |-> nunits]
    OBVIOUS
  <2>2. b.at = a /\ b.units = nunits
    BY <2>1
  <2>3. v \in Cells(b)
    BY <1>2, <1>5, <2>2 DEF Cells
  <2> QED BY <2>1, <2>3, CellsSame DEF A!Fits, A!Free
<1>6. ASSUME NEW v \in Int, a <= v, v < a + nunits
      PROVE  \E c \in List \ {base} : c <= v /\ v < c + size[c]
  <2>1. PICK c \in Heads : c <= v /\ v < c + size[c]
    BY <1>4, <1>5, <1>6 DEF Covered
  <2>2. ASSUME c \in Ats PROVE FALSE
    <3>1. PICK b \in live : b.at = c
      BY <2>2 DEF Ats, AtsOf
    <3>2. b.units = size[c] /\ c \in Int /\ size[c] \in Int
      BY <2>1, <3>1, HeadsFact, UnitsFact
    <3>3. v \in Cells(b)
      BY <1>6, <2>1, <3>1, <3>2 DEF Cells
    <3> QED BY <1>5, <1>6, <3>3
  <2> QED BY <1>1, <2>1, <2>2
<1>7. PICK c \in List \ {base} : c <= a /\ a < c + size[c]
  BY <1>2, <1>6
<1>8. PICK v : v = c + size[c]
  OBVIOUS
<1>9. c \in Int /\ size[c] \in Int /\ c \in Heads /\ v \in Int
  BY <1>1, <1>8, HeadsFact, UnitsFact
<1>10. a <= v /\ v < a + nunits
  BY <1>2, <1>3, <1>7, <1>8, <1>9
<1>11. PICK d \in List \ {base} : d <= v /\ v < d + size[d]
  BY <1>6, <1>9, <1>10
<1>12. d \in Int /\ size[d] \in Int /\ d \in Heads
  BY <1>1, HeadsFact, UnitsFact
<1>13. (c < d => c + size[c] <= d) /\ (d < c => d + size[d] <= c) /\ size[c] \in 1 .. Units
  BY <1>4, <1>9, <1>12 DEF Tiled
<1>14. d = v
  BY <1>8, <1>9, <1>11, <1>12, <1>13, UnitsFact
<1> QED BY <1>4, <1>8, <1>14 DEF Separate

(***************************************************************************)
(* Every step is one of the allocator, or changes nothing it tells.        *)
(***************************************************************************)
LEMMA AllocatorStep ==
  ASSUME HeapIInv, HeapIInv', [HeapNext]_heapVars, ~ spent'
  PROVE  A!Next \/ UNCHANGED <<live, nunits>>
<1>1. base' = base /\ base \in {0, Units + 1} /\ (spent => spent')
  BY DEF HeapIInv, HeapNext, heapVars, malloc, TakeExactly, TakeTail, TooSmall, NoneLeft, morecore, free,
         Skip, LinkIn
<1>2. (Unused \/ Working) /\ (Unused' \/ Working')
  BY <1>1 DEF HeapIInv
<1>3. doing = "idle" => nunits = 0
  BY <1>2 DEF Unused, Working, Mode
<1>4. CASE UNCHANGED heapVars
  BY <1>4 DEF heapVars, locals
<1>5. ASSUME NEW n \in 1 .. MaxUnits, malloc(n) PROVE A!Next
  <2>1. nunits = 0 /\ nunits' = n /\ live' = live /\ n \in 1 .. Units
    BY <1>3, <1>5, UnitsFact DEF malloc
  <2> QED BY <2>1 DEF A!Next, A!Ask
<1>6. doing = "malloc" => Core /\ Searching /\ nunits \in Int /\ nunits > 0
  BY <1>2, UnitsFact DEF Unused, Working, Mode, Searching
<1>7. ASSUME NEW a, doing = "malloc", a \notin Ats,
             live' = live \cup {[at |-> a, units |-> nunits]}, nunits' = 0
      PROVE  A!Next
  <2>1. PICK b : b = [at |-> a, units |-> nunits]
    OBVIOUS
  <2>2. b.at = a /\ live' = live \cup {b}
    BY <1>7, <2>1
  <2>3. b \notin live
    BY <1>7, <2>2 DEF Ats, AtsOf
  <2>4. Core'
    BY <1>2, <2>2 DEF Unused, Working
  <2>5. A!Fits(b) /\ a \in 1 .. Units
    BY <1>1, <2>2, <2>3, <2>4, GrantFits
  <2>6. A!Grant(a)
    BY <1>6, <1>7, <2>1, <2>2, <2>5 DEF A!Grant
  <2> QED BY <2>5, <2>6 DEF A!Next
<1>8. CASE TakeExactly
  <2>1. doing = "malloc" /\ live' = live \cup {[at |-> p, units |-> nunits]} /\ nunits' = 0
    BY <1>8 DEF TakeExactly, Returns
  <2>2. p \notin Ats
    BY <1>6, <2>1 DEF Core, Searching
  <2> QED BY <1>7, <2>1, <2>2
<1>9. CASE TakeTail
  <2>1. PICK at : at = p + size[p] - nunits
    OBVIOUS
  <2>2. doing = "malloc" /\ live' = live \cup {[at |-> at, units |-> nunits]} /\ nunits' = 0
        /\ size[p] > nunits
    BY <1>9, <2>1 DEF TakeTail, Returns
  <2>3. Core /\ p \in List /\ p # base
    BY <1>1, <1>6, <2>2, HeadsFact DEF Searching
  <2>4. Heads = (List \ {base}) \cup Ats
    BY <2>2, IdleHeads DEF HeadsOf
  <2>5. p \in Heads /\ p \in Int /\ size[p] \in Int
    BY <1>1, <2>3, <2>4, HeadsFact, UnitsFact
  <2>6. \A c \in Heads : p < c => p + size[p] <= c
    BY <2>3, <2>5 DEF Core, Tiled
  <2>7. at \notin Heads
    BY <1>6, <2>1, <2>2, <2>5, <2>6
  <2> QED BY <1>7, <2>2, <2>4, <2>7
<1>10. CASE NoneLeft
  <2>1. doing = "malloc" /\ size[p] < nunits /\ p = freep /\ up /\ live' = live /\ nunits' = 0
    BY <1>10 DEF NoneLeft, Returns
  <2>2. \A a \in 1 .. Units : ~ A!Fits([at |-> a, units |-> nunits])
    BY <1>1, <1>6, <2>1, RefuseRight
  <2> QED BY <1>6, <2>1, <2>2 DEF A!Next, A!Refuse
<1>11. ASSUME NEW b \in live, free(b) PROVE A!Next
  BY <1>3, <1>11 DEF free, A!Next, A!Release
<1>12. CASE TooSmall \/ morecore \/ Skip
  BY <1>12 DEF TooSmall, morecore, Skip
<1>13. CASE LinkIn
  <2>1. doing = "free" => nunits = 0
    BY <1>2 DEF Unused, Working, Mode
  <2> QED BY <1>13, <2>1 DEF LinkIn, Returns
<1> QED BY <1>4, <1>5, <1>8, <1>9, <1>10, <1>11, <1>12, <1>13 DEF HeapNext

(***************************************************************************)
(* malloc and free implement the allocator, for every size of the heap:    *)
(* what is handed out was free, and a call fails only when nothing that is *)
(* free is long enough (malloc.c), until the only block of the list is     *)
(* consumed.                                                               *)
(***************************************************************************)
THEOREM AllocatorImplemented == HeapSpec => ImplementsAllocator
<1>1. HeapInit => A!Init
  BY DEF HeapInit, A!Init
<1>2. HeapIInv /\ HeapIInv' /\ [HeapNext]_heapVars => [~ spent' => A!Next]_<<live, nunits>>
  BY AllocatorStep
<1>3. HeapInit => HeapIInv
  BY HeapInitIInv
<1> QED BY <1>1, <1>2, <1>3, HeapIInvHolds, PTL DEF HeapSpec, ImplementsAllocator

(***************************************************************************)
(* At no moment, not even in the middle of a call, do two blocks in use    *)
(* share a unit (malloc.c), until the only block of the list is consumed.  *)
(***************************************************************************)
THEOREM NeverTwiceHolds == HeapSpec => [](~ spent => NeverTwice)
<1>1. HeapIInv => (~ spent => NeverTwice)
  <2> SUFFICES ASSUME HeapIInv, ~ spent PROVE NeverTwice
    OBVIOUS
  <2>1. CASE Unused
    BY <2>1 DEF Unused, NeverTwice
  <2>2. CASE Working
    <3>1. Tiled(Heads, size) /\ base \in {0, Units + 1} /\ Core
      BY <2>2 DEF HeapIInv, Working, Core
    <3>2. \A b \in live : b.at \in Heads /\ b.units = size[b.at] /\ b = [at |-> b.at, units |-> b.units]
      BY <3>1, HeadsFact
    <3>3. PICK H, s, B : H = Heads /\ s = size /\ B = live
      OBVIOUS
    <3> QED BY <3>1, <3>2, <3>3, Apart DEF NeverTwice
  <2> QED BY <2>1, <2>2 DEF HeapIInv
<1> QED BY <1>1, HeapIInvHolds, PTL
=============================================================================
