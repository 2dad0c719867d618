------------------------- MODULE OrderedQueue_proof -------------------------
(***************************************************************************)
(* What inserting into and unlinking from the lists of queue.c returns and *)
(* preserves, for every list.  Cited by the proofs about the time queue    *)
(* and about the kernel; the last lemma, on naturals, by others.           *)
(***************************************************************************)
EXTENDS OrderedQueue, WellFoundedInduction, SequenceTheorems, TLAPS

(***************************************************************************)
(* The insertion loops stop at a place of the list.                        *)
(***************************************************************************)
LEMMA PositionExists ==
  ASSUME NEW S, NEW q \in Seq(S), NEW key \in [S -> Nat], NEW v \in Nat
  PROVE  /\ Position(q, key, v) \in 1 .. Len(q) + 1
         /\ \A j \in 1 .. Position(q, key, v) - 1 : key[q[j]] < v
         /\ Position(q, key, v) <= Len(q) => v <= key[q[Position(q, key, v)]]
<1> DEFINE Stop == {i \in 1 .. Len(q) + 1 : i <= Len(q) => v <= key[q[i]]}
           Less == OpToRel(<, Nat)
<1>1. Len(q) \in Nat /\ DOMAIN q = 1 .. Len(q) /\ \A i \in 1 .. Len(q) : q[i] \in S
  BY LenProperties, ElementOfSeq
<1>2. Stop \subseteq Nat /\ Stop # {}
  <2>1. Len(q) + 1 \in Stop
    BY <1>1
  <2> QED BY <1>1, <2>1
<1>3. PICK i \in Stop : \A k \in Stop : ~ (<<k, i>> \in Less)
  <2> HIDE DEF Stop, Less
  <2>1. IsWellFoundedOn(Less, Nat)
    BY NatLessThanWellFounded DEF Less
  <2> QED BY <1>2, <2>1, WFMin
<1>4. \A k \in Stop : ~ (k < i)
  BY <1>2, <1>3 DEF OpToRel
<1>5. \A j \in 1 .. i - 1 : key[q[j]] < v
  <2> SUFFICES ASSUME NEW j \in 1 .. i - 1
               PROVE  key[q[j]] < v
    OBVIOUS
  <2>1. j \in 1 .. Len(q) /\ j < i
    BY <1>1
  <2>2. j \notin Stop
    BY <1>4, <2>1
  <2> QED BY <1>1, <2>1, <2>2
<1>6. i \in 1 .. Len(q) + 1 /\ (i <= Len(q) => v <= key[q[i]])
  OBVIOUS
<1> QED
  BY <1>5, <1>6 DEF Position

(***************************************************************************)
(* The elements of the list an insertion returns.                          *)
(***************************************************************************)
LEMMA InsertAtElements ==
  ASSUME NEW S, NEW q \in Seq(S), NEW p \in 1 .. Len(q) + 1, NEW e \in S
  PROVE  /\ InsertAt(q, p, e) \in Seq(S)
         /\ Len(InsertAt(q, p, e)) = Len(q) + 1
         /\ DOMAIN InsertAt(q, p, e) = 1 .. Len(q) + 1
         /\ \A i \in 1 .. p - 1 : InsertAt(q, p, e)[i] = q[i]
         /\ InsertAt(q, p, e)[p] = e
         /\ \A i \in p .. Len(q) : InsertAt(q, p, e)[i + 1] = q[i]
<1> DEFINE a == SubSeq(q, 1, p - 1)
           b == SubSeq(q, p, Len(q))
           ae == Append(a, e)
           r == ae \o b
<1>1. Len(q) \in Nat /\ p \in Nat /\ \A i \in 1 .. Len(q) : q[i] \in S
  BY LenProperties, ElementOfSeq
<1>2. a \in Seq(S) /\ Len(a) = p - 1 /\ \A i \in 1 .. p - 1 : a[i] = q[i]
  BY <1>1, SubSeqProperties
<1>3. b \in Seq(S) /\ Len(b) = Len(q) - p + 1 /\ \A i \in 1 .. Len(q) - p + 1 : b[i] = q[p + i - 1]
  BY <1>1, SubSeqProperties
<1>7. InsertAt(q, p, e) = r
  <2>1. ae = a \o <<e>>
    BY <1>2, AppendIsConcat
  <2> QED BY <2>1 DEF InsertAt
<1> HIDE DEF a, b
<1>5. ae \in Seq(S) /\ Len(ae) = p /\ ae[p] = e /\ \A i \in 1 .. p - 1 : ae[i] = q[i]
  BY <1>1, <1>2, AppendProperties
<1> HIDE DEF ae
<1>6. /\ r \in Seq(S)
      /\ Len(r) = Len(ae) + Len(b)
      /\ \A i \in 1 .. Len(ae) + Len(b) : r[i] = IF i <= Len(ae) THEN ae[i] ELSE b[i - Len(ae)]
  BY <1>3, <1>5, ConcatProperties
<1> HIDE DEF r
<1>8. Len(r) = Len(q) + 1 /\ DOMAIN r = 1 .. Len(q) + 1
  BY <1>1, <1>3, <1>5, <1>6, LenProperties
<1>9. \A i \in 1 .. p - 1 : r[i] = q[i]
  BY <1>1, <1>3, <1>5, <1>6
<1>10. r[p] = e
  BY <1>1, <1>3, <1>5, <1>6
<1>11. \A i \in p .. Len(q) : r[i + 1] = q[i]
  <2> SUFFICES ASSUME NEW i \in p .. Len(q) PROVE r[i + 1] = q[i]
    OBVIOUS
  <2>1. r[i + 1] = b[i + 1 - p]
    BY <1>1, <1>3, <1>5, <1>6
  <2>2. b[i + 1 - p] = q[p + (i + 1 - p) - 1]
    BY <1>1, <1>3
  <2>3. p + (i + 1 - p) - 1 = i
    BY <1>1
  <2> QED BY <2>1, <2>2, <2>3
<1> QED BY <1>6, <1>7, <1>8, <1>9, <1>10, <1>11

(***************************************************************************)
(* The elements of the list an unlinking returns.                          *)
(***************************************************************************)
LEMMA RemoveAtElements ==
  ASSUME NEW S, NEW q \in Seq(S), NEW p \in 1 .. Len(q)
  PROVE  /\ RemoveAt(q, p) \in Seq(S)
         /\ Len(RemoveAt(q, p)) = Len(q) - 1
         /\ DOMAIN RemoveAt(q, p) = 1 .. Len(q) - 1
         /\ \A i \in 1 .. p - 1 : RemoveAt(q, p)[i] = q[i]
         /\ \A i \in p .. Len(q) - 1 : RemoveAt(q, p)[i] = q[i + 1]
<1> DEFINE a == SubSeq(q, 1, p - 1)
           b == SubSeq(q, p + 1, Len(q))
           r == a \o b
<1>1. Len(q) \in Nat /\ p \in Nat /\ \A i \in 1 .. Len(q) : q[i] \in S
  BY LenProperties, ElementOfSeq
<1>2. a \in Seq(S) /\ Len(a) = p - 1 /\ \A i \in 1 .. p - 1 : a[i] = q[i]
  BY <1>1, SubSeqProperties
<1>3. b \in Seq(S) /\ Len(b) = Len(q) - p /\ \A i \in 1 .. Len(q) - p : b[i] = q[p + i]
  <2>1. /\ b \in Seq(S)
        /\ Len(b) = IF p + 1 <= Len(q) THEN Len(q) - (p + 1) + 1 ELSE 0
        /\ \A i \in 1 .. Len(q) - (p + 1) + 1 : b[i] = q[p + 1 + i - 1]
    BY <1>1, SubSeqProperties
  <2> HIDE DEF b
  <2>2. \A i \in 1 .. Len(q) - p : b[i] = q[p + i]
    <3> SUFFICES ASSUME NEW i \in 1 .. Len(q) - p PROVE b[i] = q[p + i]
      OBVIOUS
    <3>1. b[i] = q[p + 1 + i - 1] /\ p + 1 + i - 1 = p + i
      BY <1>1, <2>1
    <3> QED BY <3>1
  <2> QED BY <1>1, <2>1, <2>2
<1>5. RemoveAt(q, p) = r
  BY DEF RemoveAt
<1> HIDE DEF a, b
<1>4. /\ r \in Seq(S)
      /\ Len(r) = Len(a) + Len(b)
      /\ \A i \in 1 .. Len(a) + Len(b) : r[i] = IF i <= Len(a) THEN a[i] ELSE b[i - Len(a)]
  BY <1>2, <1>3, ConcatProperties
<1> HIDE DEF r
<1>6. Len(r) = Len(q) - 1 /\ DOMAIN r = 1 .. Len(q) - 1
  BY <1>1, <1>2, <1>3, <1>4, LenProperties
<1>7. \A i \in 1 .. p - 1 : r[i] = q[i]
  BY <1>1, <1>2, <1>3, <1>4
<1>8. \A i \in p .. Len(q) - 1 : r[i] = q[i + 1]
  <2> SUFFICES ASSUME NEW i \in p .. Len(q) - 1 PROVE r[i] = q[i + 1]
    OBVIOUS
  <2>1. r[i] = b[i - (p - 1)]
    BY <1>1, <1>2, <1>3, <1>4
  <2>2. b[i - (p - 1)] = q[p + (i - (p - 1))]
    BY <1>1, <1>3
  <2>3. p + (i - (p - 1)) = i + 1
    BY <1>1
  <2> QED BY <2>1, <2>2, <2>3
<1> QED BY <1>4, <1>5, <1>6, <1>7, <1>8

(***************************************************************************)
(* Inserting e at any place adds e and nothing else, and keeps the list    *)
(* free of repetitions.                                                    *)
(***************************************************************************)
LEMMA InsertAtProperties ==
  ASSUME NEW S, NEW q \in Seq(S), NEW p \in 1 .. Len(q) + 1, NEW e \in S
  PROVE  /\ ToSet(InsertAt(q, p, e)) = ToSet(q) \cup {e}
         /\ NoRepetition(q) /\ e \notin ToSet(q) => NoRepetition(InsertAt(q, p, e))
<1> DEFINE r == InsertAt(q, p, e)
<1>1. Len(q) \in Nat /\ DOMAIN q = 1 .. Len(q) /\ \A i \in 1 .. Len(q) : q[i] \in S
  BY LenProperties, ElementOfSeq
<1>2. p \in 1 .. Len(q) + 1
  OBVIOUS
<1>4. /\ DOMAIN r = 1 .. Len(q) + 1
      /\ \A i \in 1 .. p - 1 : r[i] = q[i]
      /\ r[p] = e
      /\ \A i \in p .. Len(q) : r[i + 1] = q[i]
  BY InsertAtElements
<1> HIDE DEF r
\* every place of r is one of the three kinds
<1>5. \A i \in 1 .. Len(q) + 1 : \/ i \in 1 .. p - 1 /\ i \in 1 .. Len(q)
                                 \/ i = p
                                 \/ i - 1 \in p .. Len(q) /\ i - 1 \in 1 .. Len(q) /\ r[i] = q[i - 1]
  <2> SUFFICES ASSUME NEW i \in 1 .. Len(q) + 1
               PROVE  \/ i \in 1 .. p - 1 /\ i \in 1 .. Len(q)
                      \/ i = p
                      \/ i - 1 \in p .. Len(q) /\ i - 1 \in 1 .. Len(q) /\ r[i] = q[i - 1]
    OBVIOUS
  <2>1. CASE i <= p
    BY <1>1, <1>2, <2>1
  <2>2. CASE i > p
    <3>1. i - 1 \in p .. Len(q) /\ i - 1 \in 1 .. Len(q) /\ (i - 1) + 1 = i
      BY <1>1, <1>2, <2>2
    <3>2. r[(i - 1) + 1] = q[i - 1]
      BY <1>4, <3>1
    <3> QED BY <3>1, <3>2
  <2> QED BY <1>1, <1>2, <2>1, <2>2
<1>6. ToSet(r) = ToSet(q) \cup {e}
  <2>1. ASSUME NEW i \in 1 .. Len(q) + 1 PROVE r[i] \in ToSet(q) \cup {e}
    BY <1>1, <1>4, <1>5 DEF ToSet
  <2>2. e \in ToSet(r)
    BY <1>2, <1>4 DEF ToSet
  <2>3. ASSUME NEW i \in 1 .. Len(q) PROVE q[i] \in ToSet(r)
    <3>1. i \in 1 .. p - 1 \/ i \in p .. Len(q)
      BY <1>1, <1>2
    <3>2. i \in 1 .. Len(q) + 1 /\ i + 1 \in 1 .. Len(q) + 1
      BY <1>1
    <3> QED BY <1>4, <3>1, <3>2 DEF ToSet
  <2> QED BY <1>1, <1>4, <2>1, <2>2, <2>3 DEF ToSet
<1>7. ASSUME NoRepetition(q), e \notin ToSet(q) PROVE NoRepetition(r)
  <2>1. \A i \in 1 .. Len(q) : q[i] # e
    BY <1>1, <1>7 DEF ToSet
  <2>2. \A i, j \in 1 .. Len(q) : q[i] = q[j] => i = j
    BY <1>1, <1>7 DEF NoRepetition
  <2> SUFFICES ASSUME NEW i \in 1 .. Len(q) + 1, NEW j \in 1 .. Len(q) + 1, r[i] = r[j]
               PROVE  i = j
    BY <1>4 DEF NoRepetition
  <2>3. CASE i = p /\ j = p
    BY <2>3
  <2>4. CASE i = p /\ j # p
    BY <1>4, <1>5, <2>1, <2>4
  <2>5. CASE i # p /\ j = p
    BY <1>4, <1>5, <2>1, <2>5
  <2>6. CASE i # p /\ j # p
    <3>1. CASE i \in 1 .. p - 1 /\ j \in 1 .. p - 1
      BY <1>1, <1>2, <1>4, <2>2, <3>1
    <3>2. CASE i \in 1 .. p - 1 /\ j > p
      <4>1. r[i] = q[i] /\ r[j] = q[j - 1] /\ i \in 1 .. Len(q) /\ j - 1 \in 1 .. Len(q) /\ i # j - 1
        BY <1>1, <1>2, <1>4, <1>5, <3>2
      <4> QED BY <2>2, <4>1
    <3>3. CASE i > p /\ j \in 1 .. p - 1
      <4>1. r[j] = q[j] /\ r[i] = q[i - 1] /\ j \in 1 .. Len(q) /\ i - 1 \in 1 .. Len(q) /\ j # i - 1
        BY <1>1, <1>2, <1>4, <1>5, <3>3
      <4> QED BY <2>2, <4>1
    <3>4. CASE i > p /\ j > p
      <4>1. r[i] = q[i - 1] /\ r[j] = q[j - 1] /\ i - 1 \in 1 .. Len(q) /\ j - 1 \in 1 .. Len(q)
        <5>1. i \notin 1 .. p - 1 /\ i # p /\ j \notin 1 .. p - 1 /\ j # p
          BY <1>2, <3>4
        <5> QED BY <1>5, <5>1
      <4>2. i - 1 = j - 1
        BY <2>2, <4>1
      <4> QED BY <4>2
    <3> QED BY <1>1, <1>2, <2>6, <3>1, <3>2, <3>3, <3>4
  <2> QED BY <2>3, <2>4, <2>5, <2>6
<1> QED BY <1>6, <1>7 DEF r

(***************************************************************************)
(* Inserting e at its place also keeps the list in order.                  *)
(***************************************************************************)
LEMMA OrderedInsertProperties ==
  ASSUME NEW S, NEW q \in Seq(S), NEW key \in [S -> Nat], NEW e \in S, NEW v \in Nat
  PROVE  /\ OrderedInsert(q, key, e, v) \in Seq(S)
         /\ ToSet(OrderedInsert(q, key, e, v)) = ToSet(q) \cup {e}
         /\ NoRepetition(q) /\ e \notin ToSet(q) => NoRepetition(OrderedInsert(q, key, e, v))
         /\ IsOrdered(q, key) /\ key[e] = v => IsOrdered(OrderedInsert(q, key, e, v), key)
<1> DEFINE p == Position(q, key, v)
           r == OrderedInsert(q, key, e, v)
<1>1. Len(q) \in Nat /\ DOMAIN q = 1 .. Len(q) /\ \A i \in 1 .. Len(q) : q[i] \in S
  BY LenProperties, ElementOfSeq
<1>2. /\ p \in 1 .. Len(q) + 1
      /\ \A j \in 1 .. p - 1 : key[q[j]] < v
      /\ p <= Len(q) => v <= key[q[p]]
  BY PositionExists
<1>3. r = InsertAt(q, p, e)
  BY DEF OrderedInsert
<1> HIDE DEF p, r
<1>4. /\ r \in Seq(S)
      /\ DOMAIN r = 1 .. Len(q) + 1
      /\ \A i \in 1 .. p - 1 : r[i] = q[i]
      /\ r[p] = e
      /\ \A i \in p .. Len(q) : r[i + 1] = q[i]
  <2>1. /\ InsertAt(q, p, e) \in Seq(S)
        /\ DOMAIN InsertAt(q, p, e) = 1 .. Len(q) + 1
        /\ \A i \in 1 .. p - 1 : InsertAt(q, p, e)[i] = q[i]
        /\ InsertAt(q, p, e)[p] = e
        /\ \A i \in p .. Len(q) : InsertAt(q, p, e)[i + 1] = q[i]
    BY <1>2, InsertAtElements, SMTT(20)
  <2> QED BY <1>3, <2>1, Zenon
\* every place of r is one of the three kinds
<1>5. \A i \in 1 .. Len(q) + 1 : \/ i \in 1 .. p - 1 /\ i \in 1 .. Len(q)
                                 \/ i = p
                                 \/ i - 1 \in p .. Len(q) /\ i - 1 \in 1 .. Len(q) /\ r[i] = q[i - 1]
  <2> SUFFICES ASSUME NEW i \in 1 .. Len(q) + 1
               PROVE  \/ i \in 1 .. p - 1 /\ i \in 1 .. Len(q)
                      \/ i = p
                      \/ i - 1 \in p .. Len(q) /\ i - 1 \in 1 .. Len(q) /\ r[i] = q[i - 1]
    OBVIOUS
  <2>1. CASE i <= p
    BY <1>1, <1>2, <2>1
  <2>2. CASE i > p
    <3>1. i - 1 \in p .. Len(q) /\ i - 1 \in 1 .. Len(q) /\ (i - 1) + 1 = i
      BY <1>1, <1>2, <2>2
    <3>2. r[(i - 1) + 1] = q[i - 1]
      BY <1>4, <3>1
    <3> QED BY <3>1, <3>2
  <2> QED BY <1>1, <1>2, <2>1, <2>2
<1>6. ToSet(r) = ToSet(q) \cup {e}
  BY <1>2, <1>3, InsertAtProperties
<1>7. NoRepetition(q) /\ e \notin ToSet(q) => NoRepetition(r)
  BY <1>2, <1>3, InsertAtProperties
<1>8. ASSUME IsOrdered(q, key), key[e] = v PROVE IsOrdered(r, key)
  <2>1. \A m, n \in 1 .. Len(q) : m < n => key[q[m]] <= key[q[n]]
    BY <1>1, <1>8 DEF IsOrdered
  <2>2. \A m \in 1 .. Len(q) : key[q[m]] \in Nat
    BY <1>1
  <2>3. \A n \in p .. Len(q) : v <= key[q[n]]
    <3> SUFFICES ASSUME NEW n \in p .. Len(q) PROVE v <= key[q[n]]
      OBVIOUS
    <3>1. p \in 1 .. Len(q) /\ n \in 1 .. Len(q) /\ (p < n \/ p = n)
      BY <1>1, <1>2
    <3> QED BY <1>2, <2>1, <2>2, <3>1
  <2> SUFFICES ASSUME NEW i \in 1 .. Len(q) + 1, NEW j \in 1 .. Len(q) + 1, i < j
               PROVE  key[r[i]] <= key[r[j]]
    BY <1>4 DEF IsOrdered
  <2>4. CASE i \in 1 .. p - 1 /\ j \in 1 .. p - 1
    BY <1>1, <1>2, <1>4, <2>1, <2>4
  <2>5. CASE i \in 1 .. p - 1 /\ j = p
    BY <1>1, <1>2, <1>4, <1>8, <2>2, <2>5
  <2>6. CASE i \in 1 .. p - 1 /\ j > p
    <3>1. r[i] = q[i]
      BY <1>4, <2>6
    <3>2. i \in 1 .. Len(q) /\ j - 1 \in 1 .. Len(q) /\ i < j - 1 /\ ~ (j \in 1 .. p - 1) /\ j # p
      BY <1>1, <1>2, <2>6
    <3>3. r[j] = q[j - 1]
      BY <1>5, <3>2
    <3> QED BY <2>1, <3>1, <3>2, <3>3
  <2>7. CASE i = p
    <3>1. r[i] = e /\ r[j] = q[j - 1] /\ j - 1 \in p .. Len(q)
      BY <1>1, <1>2, <1>4, <1>5, <2>7
    <3> QED BY <1>8, <2>3, <3>1
  <2>8. CASE i > p
    <3>1. /\ r[i] = q[i - 1] /\ r[j] = q[j - 1]
          /\ i - 1 \in 1 .. Len(q) /\ j - 1 \in 1 .. Len(q) /\ i - 1 < j - 1
      BY <1>1, <1>2, <1>4, <1>5, <2>8
    <3> QED BY <2>1, <3>1
  <2> QED BY <1>1, <1>2, <2>4, <2>5, <2>6, <2>7, <2>8
<1> QED BY <1>4, <1>6, <1>7, <1>8 DEF r

(***************************************************************************)
(* Unlinking the element at place p removes it and nothing else, and keeps *)
(* the list free of repetitions and in order.                              *)
(***************************************************************************)
LEMMA RemoveAtProperties ==
  ASSUME NEW S, NEW q \in Seq(S), NEW p \in 1 .. Len(q), NoRepetition(q)
  PROVE  /\ RemoveAt(q, p) \in Seq(S)
         /\ ToSet(RemoveAt(q, p)) = ToSet(q) \ {q[p]}
         /\ NoRepetition(RemoveAt(q, p))
         /\ \A key \in [S -> Nat] : IsOrdered(q, key) => IsOrdered(RemoveAt(q, p), key)
<1> DEFINE r == RemoveAt(q, p)
<1>1. Len(q) \in Nat /\ p \in Nat /\ DOMAIN q = 1 .. Len(q) /\ \A i \in 1 .. Len(q) : q[i] \in S
  BY LenProperties, ElementOfSeq
<1>2. /\ r \in Seq(S)
      /\ DOMAIN r = 1 .. Len(q) - 1
      /\ \A i \in 1 .. p - 1 : r[i] = q[i]
      /\ \A i \in p .. Len(q) - 1 : r[i] = q[i + 1]
  BY RemoveAtElements
<1> HIDE DEF r
<1> DEFINE from(i) == IF i < p THEN i ELSE i + 1
<1>3. \A i \in 1 .. Len(q) - 1 : r[i] = q[from(i)] /\ from(i) \in 1 .. Len(q) /\ from(i) # p
  BY <1>1, <1>2
<1>4. \A i, j \in 1 .. Len(q) - 1 : i < j => from(i) < from(j)
  BY <1>1
<1>5. \A i \in 1 .. Len(q) : i # p => \E j \in 1 .. Len(q) - 1 : from(j) = i
  <2> SUFFICES ASSUME NEW i \in 1 .. Len(q), i # p
               PROVE  \E j \in 1 .. Len(q) - 1 : from(j) = i
    OBVIOUS
  <2>1. CASE i < p
    <3>1. i \in 1 .. Len(q) - 1 /\ from(i) = i
      BY <1>1, <2>1
    <3> QED BY <3>1
  <2>2. CASE i > p
    <3>1. i - 1 \in 1 .. Len(q) - 1 /\ from(i - 1) = i
      BY <1>1, <2>2
    <3> QED BY <3>1
  <2> QED BY <1>1, <2>1, <2>2
<1> HIDE DEF from
<1>6. \A i, j \in 1 .. Len(q) : q[i] = q[j] => i = j
  BY <1>1 DEF NoRepetition
<1>7. ToSet(r) = ToSet(q) \ {q[p]}
  <2>1. ASSUME NEW i \in 1 .. Len(q) - 1 PROVE r[i] \in ToSet(q) \ {q[p]}
    BY <1>1, <1>3, <1>6 DEF ToSet
  <2>2. ASSUME NEW i \in 1 .. Len(q), q[i] # q[p] PROVE q[i] \in ToSet(r)
    <3>1. PICK j \in 1 .. Len(q) - 1 : from(j) = i
      BY <1>5, <2>2
    <3> QED BY <1>2, <1>3, <3>1 DEF ToSet
  <2> QED BY <1>1, <1>2, <2>1, <2>2 DEF ToSet
<1>8. NoRepetition(r)
  <2> SUFFICES ASSUME NEW i \in 1 .. Len(q) - 1, NEW j \in 1 .. Len(q) - 1, r[i] = r[j]
               PROVE  i = j
    BY <1>2 DEF NoRepetition
  <2>1. from(i) = from(j)
    BY <1>3, <1>6
  <2>2. from(i) \in Int /\ from(j) \in Int
    BY <1>3
  <2>3. ~ (i < j) /\ ~ (j < i)
    BY <1>4, <2>1, <2>2
  <2> QED BY <2>3
<1>9. ASSUME NEW key \in [S -> Nat], IsOrdered(q, key) PROVE IsOrdered(r, key)
  <2> SUFFICES ASSUME NEW i \in 1 .. Len(q) - 1, NEW j \in 1 .. Len(q) - 1, i < j
               PROVE  key[r[i]] <= key[r[j]]
    BY <1>2 DEF IsOrdered
  <2>1. from(i) < from(j)
    BY <1>4
  <2> QED BY <1>1, <1>3, <1>9, <2>1 DEF IsOrdered
<1> QED BY <1>2, <1>7, <1>8, <1>9 DEF r

(***************************************************************************)
(* mt_dequeue on a task of the list.                                       *)
(***************************************************************************)
LEMMA UnlinkProperties ==
  ASSUME NEW S, NEW q \in Seq(S), NEW e \in ToSet(q), NoRepetition(q)
  PROVE  /\ Unlink(q, e) \in Seq(S)
         /\ ToSet(Unlink(q, e)) = ToSet(q) \ {e}
         /\ NoRepetition(Unlink(q, e))
         /\ \A key \in [S -> Nat] : IsOrdered(q, key) => IsOrdered(Unlink(q, e), key)
<1>1. DOMAIN q = 1 .. Len(q)
  BY LenProperties
<1>2. Place(q, e) \in 1 .. Len(q) /\ q[Place(q, e)] = e
  BY <1>1 DEF Place, ToSet
<1> QED BY <1>2, RemoveAtProperties DEF Unlink

(***************************************************************************)
(* mt_getlast: the tail leaves the list.                                   *)
(***************************************************************************)
LEMMA FrontProperties ==
  ASSUME NEW S, NEW q \in Seq(S), q # <<>>, NoRepetition(q)
  PROVE  /\ Last(q) \in S /\ Last(q) \in ToSet(q)
         /\ Front(q) \in Seq(S)
         /\ ToSet(Front(q)) = ToSet(q) \ {Last(q)}
         /\ NoRepetition(Front(q))
         /\ \A key \in [S -> Nat] : IsOrdered(q, key) => IsOrdered(Front(q), key)
         /\ \A key \in [S -> Nat] : IsOrdered(q, key) =>
               \A x \in ToSet(q) : key[x] <= key[Last(q)]
<1>1. /\ Len(q) \in Nat /\ Len(q) # 0 /\ DOMAIN q = 1 .. Len(q)
      /\ \A i \in 1 .. Len(q) : q[i] \in S
  BY LenProperties, ElementOfSeq, EmptySeq
<1> DEFINE n == Len(q)
<1>2. n \in 1 .. n /\ n \in Nat
  BY <1>1
<1>3. Last(q) = q[n]
  BY DEF Last
<1>4. Last(q) \in S /\ Last(q) \in ToSet(q)
  BY <1>1, <1>2, <1>3 DEF ToSet
<1>5. Front(q) = RemoveAt(q, n)
  <2>1. SubSeq(q, n + 1, n) = <<>>
    BY <1>1, SubSeqEmpty
  <2>2. SubSeq(q, 1, n - 1) \in Seq(S)
    BY <1>1, SubSeqProperties
  <2>3. SubSeq(q, 1, n - 1) \o <<>> = SubSeq(q, 1, n - 1)
    BY <2>2, ConcatEmptySeq
  <2> QED BY <2>1, <2>3 DEF Front, RemoveAt
<1>6. ASSUME NEW key \in [S -> Nat], IsOrdered(q, key), NEW x \in ToSet(q)
      PROVE  key[x] <= key[Last(q)]
  <2>1. PICK i \in 1 .. n : q[i] = x
    BY <1>1 DEF ToSet
  <2>2. \A k, l \in 1 .. n : k < l => key[q[k]] <= key[q[l]]
    BY <1>1, <1>6 DEF IsOrdered
  <2>3. key[q[n]] \in Nat
    BY <1>1, <1>2
  <2> HIDE DEF n
  <2>4. i < n \/ i = n
    BY <1>2
  <2> QED BY <1>2, <1>3, <2>1, <2>2, <2>3, <2>4
<1>7. /\ RemoveAt(q, n) \in Seq(S)
      /\ ToSet(RemoveAt(q, n)) = ToSet(q) \ {q[n]}
      /\ NoRepetition(RemoveAt(q, n))
      /\ \A key \in [S -> Nat] : IsOrdered(q, key) => IsOrdered(RemoveAt(q, n), key)
  BY <1>2, RemoveAtProperties
<1> QED BY <1>3, <1>4, <1>5, <1>6, <1>7, Zenon

(***************************************************************************)
(* mt_getfirst_time: the head leaves the list.                             *)
(***************************************************************************)
LEMMA TailProperties ==
  ASSUME NEW S, NEW q \in Seq(S), q # <<>>, NoRepetition(q)
  PROVE  /\ Head(q) \in S /\ Head(q) \in ToSet(q) /\ Head(q) = q[1] /\ 1 \in DOMAIN q
         /\ Tail(q) \in Seq(S)
         /\ Len(Tail(q)) = Len(q) - 1
         /\ \A i \in 1 .. Len(q) - 1 : Tail(q)[i] = q[i + 1]
         /\ ToSet(Tail(q)) = ToSet(q) \ {Head(q)}
         /\ NoRepetition(Tail(q))
<1>1. /\ Len(q) \in Nat /\ Len(q) # 0 /\ DOMAIN q = 1 .. Len(q)
      /\ \A i \in 1 .. Len(q) : q[i] \in S
  BY LenProperties, ElementOfSeq, EmptySeq
<1>2. 1 \in 1 .. Len(q)
  BY <1>1
<1>3. Head(q) = q[1]
  OBVIOUS
<1>4. Tail(q) = RemoveAt(q, 1)
  <2>1. SubSeq(q, 1, 0) = <<>>
    BY SubSeqEmpty
  <2>2. SubSeq(q, 2, Len(q)) \in Seq(S)
    BY <1>1, SubSeqProperties
  <2>3. <<>> \o SubSeq(q, 2, Len(q)) = SubSeq(q, 2, Len(q))
    BY <2>2, ConcatEmptySeq
  <2>4. Tail(q) = SubSeq(q, 2, Len(q))
    BY TailIsSubSeq
  <2> QED BY <2>1, <2>3, <2>4 DEF RemoveAt
<1>5. /\ RemoveAt(q, 1) \in Seq(S)
      /\ ToSet(RemoveAt(q, 1)) = ToSet(q) \ {q[1]}
      /\ NoRepetition(RemoveAt(q, 1))
  BY <1>2, RemoveAtProperties
<1>6. /\ Len(RemoveAt(q, 1)) = Len(q) - 1
      /\ \A i \in 1 .. Len(q) - 1 : RemoveAt(q, 1)[i] = q[i + 1]
  BY <1>2, RemoveAtElements
<1>7. q[1] \in ToSet(q) /\ q[1] \in S
  BY <1>1, <1>2 DEF ToSet
<1> QED BY <1>1, <1>2, <1>3, <1>4, <1>5, <1>6, <1>7
-----------------------------------------------------------------------------
(* Of two elements of a list, which comes first.                           *)
Precedes(q, x, y) == \E i, j \in DOMAIN q : i < j /\ q[i] = x /\ q[j] = y

(***************************************************************************)
(* In a list without repetitions it is a matter of their places.           *)
(***************************************************************************)
LEMMA PrecedesPlaces ==
  ASSUME NEW S, NEW q \in Seq(S), NoRepetition(q), NEW x \in ToSet(q), NEW y \in ToSet(q)
  PROVE  Precedes(q, x, y) <=> Place(q, x) < Place(q, y)
<1>1. \A e \in ToSet(q) : Place(q, e) \in DOMAIN q /\ q[Place(q, e)] = e
  BY DEF ToSet, Place
<1>2. \A i \in DOMAIN q : Place(q, q[i]) = i
  BY DEF Place, NoRepetition
<1> QED BY <1>1, <1>2 DEF Precedes

(***************************************************************************)
(* An insertion leaves the order of the others as it was.                  *)
(***************************************************************************)
LEMMA InsertKeepsOrder ==
  ASSUME NEW S, NEW q \in Seq(S), NEW key \in [S -> Nat], NEW e \in S, NEW v \in Nat,
         NEW x, NEW y, Precedes(q, x, y)
  PROVE  Precedes(OrderedInsert(q, key, e, v), x, y)
<1> DEFINE p == Position(q, key, v)
           r == OrderedInsert(q, key, e, v)
<1>1. Len(q) \in Nat /\ DOMAIN q = 1 .. Len(q)
  BY LenProperties
<1>2. p \in 1 .. Len(q) + 1
  BY PositionExists
<1>3. r = InsertAt(q, p, e)
  BY DEF OrderedInsert
<1> HIDE DEF p, r
<1>4. /\ DOMAIN r = 1 .. Len(q) + 1
      /\ \A i \in 1 .. p - 1 : r[i] = q[i]
      /\ \A i \in p .. Len(q) : r[i + 1] = q[i]
  <2>1. /\ DOMAIN InsertAt(q, p, e) = 1 .. Len(q) + 1
        /\ \A i \in 1 .. p - 1 : InsertAt(q, p, e)[i] = q[i]
        /\ \A i \in p .. Len(q) : InsertAt(q, p, e)[i + 1] = q[i]
    BY <1>2, InsertAtElements
  <2> QED BY <1>3, <2>1, Zenon
<1>5. PICK i \in DOMAIN q, j \in DOMAIN q : i < j /\ q[i] = x /\ q[j] = y
  BY DEF Precedes
<1> DEFINE to(n) == IF n < p THEN n ELSE n + 1
<1>6. \A n \in 1 .. Len(q) : to(n) \in 1 .. Len(q) + 1 /\ r[to(n)] = q[n]
  <2> SUFFICES ASSUME NEW n \in 1 .. Len(q)
               PROVE  to(n) \in 1 .. Len(q) + 1 /\ r[to(n)] = q[n]
    OBVIOUS
  <2>1. CASE n < p
    <3>1. n \in 1 .. p - 1 /\ n \in 1 .. Len(q) + 1 /\ to(n) = n
      BY <1>1, <1>2, <2>1
    <3> QED BY <1>4, <3>1
  <2>2. CASE ~ (n < p)
    <3>1. n \in p .. Len(q) /\ n + 1 \in 1 .. Len(q) + 1 /\ to(n) = n + 1
      BY <1>1, <1>2, <2>2
    <3>2. r[n + 1] = q[n]
      BY <1>4, <3>1
    <3> QED BY <3>1, <3>2
  <2> QED BY <2>1, <2>2
<1>7. to(i) < to(j)
  BY <1>1, <1>2, <1>5
<1> HIDE DEF to
<1> QED BY <1>1, <1>4, <1>5, <1>6, <1>7 DEF Precedes, r

(***************************************************************************)
(* The new element comes before those whose key is not less.               *)
(***************************************************************************)
LEMMA InsertedBefore ==
  ASSUME NEW S, NEW q \in Seq(S), NEW key \in [S -> Nat], NEW e \in S, NEW v \in Nat,
         NEW y \in ToSet(q), v <= key[y]
  PROVE  Precedes(OrderedInsert(q, key, e, v), e, y)
<1> DEFINE p == Position(q, key, v)
           r == OrderedInsert(q, key, e, v)
<1>1. Len(q) \in Nat /\ DOMAIN q = 1 .. Len(q) /\ \A i \in 1 .. Len(q) : q[i] \in S
  BY LenProperties, ElementOfSeq
<1>2. p \in 1 .. Len(q) + 1 /\ \A j \in 1 .. p - 1 : key[q[j]] < v
  BY PositionExists
<1>3. r = InsertAt(q, p, e)
  BY DEF OrderedInsert
<1> HIDE DEF p, r
<1>4. /\ DOMAIN r = 1 .. Len(q) + 1 /\ r[p] = e
      /\ \A i \in p .. Len(q) : r[i + 1] = q[i]
  <2>1. /\ DOMAIN InsertAt(q, p, e) = 1 .. Len(q) + 1 /\ InsertAt(q, p, e)[p] = e
        /\ \A i \in p .. Len(q) : InsertAt(q, p, e)[i + 1] = q[i]
    BY <1>2, InsertAtElements
  <2> QED BY <1>3, <2>1, Zenon
<1>5. PICK j \in 1 .. Len(q) : q[j] = y
  BY <1>1 DEF ToSet
<1>6. ~ (j < p)
  <2> SUFFICES ASSUME j < p PROVE FALSE
    OBVIOUS
  <2>1. j \in 1 .. p - 1 /\ key[y] \in Nat
    BY <1>1, <1>2, <1>5
  <2>2. key[y] < v
    BY <1>2, <1>5, <2>1
  <2> QED BY <2>1, <2>2
<1>7. j \in p .. Len(q) /\ j + 1 \in 1 .. Len(q) + 1 /\ p < j + 1
  BY <1>1, <1>2, <1>6
<1>8. r[j + 1] = y
  BY <1>4, <1>5, <1>7
<1> QED BY <1>2, <1>4, <1>7, <1>8 DEF Precedes, r

(***************************************************************************)
(* So does a removal.                                                      *)
(***************************************************************************)
LEMMA RemoveKeepsOrder ==
  ASSUME NEW S, NEW q \in Seq(S), NEW p \in 1 .. Len(q),
         NEW x, NEW y, x # q[p], y # q[p], Precedes(q, x, y)
  PROVE  Precedes(RemoveAt(q, p), x, y)
<1> DEFINE r == RemoveAt(q, p)
           to(n) == IF n < p THEN n ELSE n - 1
<1>1. Len(q) \in Nat /\ DOMAIN q = 1 .. Len(q) /\ p \in Nat
  BY LenProperties
<1>2. /\ DOMAIN r = 1 .. Len(q) - 1
      /\ \A i \in 1 .. p - 1 : r[i] = q[i]
      /\ \A i \in p .. Len(q) - 1 : r[i] = q[i + 1]
  BY RemoveAtElements
<1> HIDE DEF r
<1>3. PICK i \in 1 .. Len(q), j \in 1 .. Len(q) : i < j /\ q[i] = x /\ q[j] = y
  BY <1>1 DEF Precedes
<1>4. \A n \in 1 .. Len(q) : n # p => to(n) \in 1 .. Len(q) - 1 /\ r[to(n)] = q[n]
  <2> SUFFICES ASSUME NEW n \in 1 .. Len(q), n # p
               PROVE  to(n) \in 1 .. Len(q) - 1 /\ r[to(n)] = q[n]
    OBVIOUS
  <2>1. CASE n < p
    BY <1>1, <1>2, <2>1
  <2>2. CASE n > p
    <3>1. n - 1 \in p .. Len(q) - 1 /\ (n - 1) + 1 = n /\ to(n) = n - 1
      BY <1>1, <2>2
    <3>2. r[n - 1] = q[(n - 1) + 1]
      BY <1>2, <3>1
    <3> QED BY <1>1, <3>1, <3>2
  <2> QED BY <1>1, <2>1, <2>2
<1>5. i # p /\ j # p
  BY <1>3
<1>6. to(i) < to(j)
  BY <1>1, <1>3, <1>5
<1> HIDE DEF to
<1> QED BY <1>2, <1>3, <1>4, <1>5, <1>6 DEF Precedes, r

(***************************************************************************)
(* mt_dequeue and mt_getlast are removals.                                 *)
(***************************************************************************)
LEMMA UnlinkKeepsOrder ==
  ASSUME NEW S, NEW q \in Seq(S), NEW e \in ToSet(q), NEW x, NEW y, x # e, y # e, Precedes(q, x, y)
  PROVE  Precedes(Unlink(q, e), x, y)
<1>1. DOMAIN q = 1 .. Len(q)
  BY LenProperties
<1>2. Place(q, e) \in 1 .. Len(q) /\ q[Place(q, e)] = e
  BY <1>1 DEF ToSet, Place
<1> QED BY <1>2, RemoveKeepsOrder DEF Unlink

(* The same of the removal of the last element.                            *)
LEMMA FrontKeepsOrder ==
  ASSUME NEW S, NEW q \in Seq(S), NEW x, NEW y, x # Last(q), y # Last(q), Precedes(q, x, y)
  PROVE  Precedes(Front(q), x, y)
<1>1. Len(q) \in Nat /\ DOMAIN q = 1 .. Len(q)
  BY LenProperties
<1>2. PICK i \in 1 .. Len(q), j \in 1 .. Len(q) : i < j /\ q[i] = x /\ q[j] = y
  BY <1>1 DEF Precedes
<1>3. j # Len(q) /\ i < j
  BY <1>2 DEF Last
<1>4. i \in 1 .. Len(q) - 1 /\ j \in 1 .. Len(q) - 1
  <2> DEFINE n == Len(q)
  <2>1. n \in Nat /\ i \in 1 .. n /\ j \in 1 .. n /\ j # n /\ i < j
    BY <1>1, <1>3
  <2> HIDE DEF n
  <2>2. i \in 1 .. n - 1 /\ j \in 1 .. n - 1
    BY ONLY <2>1
  <2> QED BY <2>2 DEF n
<1>5. Len(q) - 1 \in Nat /\ 1 \in 1 .. Len(q) + 1 /\ Len(q) - 1 \in 0 .. Len(q)
  BY <1>1, <1>4
<1>6. Front(q) = SubSeq(q, 1, Len(q) - 1)
  BY DEF Front
<1>7. /\ Len(SubSeq(q, 1, Len(q) - 1)) = Len(q) - 1
      /\ \A n \in 1 .. Len(q) - 1 : SubSeq(q, 1, Len(q) - 1)[n] = q[n]
  BY <1>1, <1>5, SubSeqProperties
<1>8. SubSeq(q, 1, Len(q) - 1) \in Seq(S)
  BY <1>1, <1>5, SubSeqProperties
<1>9. DOMAIN Front(q) = 1 .. Len(q) - 1
  BY <1>6, <1>7, <1>8, LenProperties
<1> QED BY <1>2, <1>4, <1>6, <1>7, <1>9 DEF Precedes

-----------------------------------------------------------------------------
(***************************************************************************)
(* A set of natural numbers has a least one.                               *)
(***************************************************************************)
LEMMA Least ==
  ASSUME NEW S, S \subseteq Nat, S # {}
  PROVE  \E x \in S : \A y \in S : x <= y
<1>1. IsWellFoundedOn({ss \in Nat \X Nat : ss[1] < ss[2]}, Nat)
  BY NatLessThanWellFounded, Zenon DEF OpToRel
<1>2. PICK x \in S : \A y \in S : ~(<<y, x>> \in {ss \in Nat \X Nat : ss[1] < ss[2]})
  BY <1>1, WFMin, Zenon
<1>3. ASSUME NEW y \in S PROVE x <= y
  <2>1. x \in Nat /\ y \in Nat
    OBVIOUS
  <2>2. ~(y < x)
    BY <1>2, <2>1
  <2> QED BY <2>1, <2>2
<1> QED BY <1>3
=============================================================================
