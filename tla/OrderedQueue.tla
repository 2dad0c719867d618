---------------------------- MODULE OrderedQueue ----------------------------
(***************************************************************************)
(* The doubly linked lists of queue.c, seen as sequences without           *)
(* repetitions.  Index 1 is the head of the list.  Both kinds of list are  *)
(* kept in ascending order of a key: a task queue by task->priority, the   *)
(* time queue by the ticks left before each task is due.                   *)
(***************************************************************************)
EXTENDS Integers, Sequences, SequencesExt

\* The place of element e of the list q.
Place(q, e) == CHOOSE i \in DOMAIN q : q[i] = e

\* Faulty variant: past the elements of the same key.
PositionAfterEquals(q, key, v) ==
  CHOOSE i \in 1 .. Len(q) + 1 :
     /\ \A j \in 1 .. i - 1 : key[q[j]] <= v
     /\ i <= Len(q) => v < key[q[i]]

\* Where the insertion loops stop: the first element whose key is not less
\* than v, or one past the tail.
Position(q, key, v) ==
  CHOOSE i \in 1 .. Len(q) + 1 :
     /\ \A j \in 1 .. i - 1 : key[q[j]] < v
     /\ i <= Len(q) => v <= key[q[i]]

\* Linking e in at the place the loop found, and unlinking it.
OrderedInsert(q, key, e, v) == InsertAt(q, Position(q, key, v), e)
Unlink(q, e) == RemoveAt(q, Place(q, e))

IsOrdered(q, key) ==
  \A i, j \in DOMAIN q : i < j => key[q[i]] <= key[q[j]]

NoRepetition(q) ==
  \A i, j \in DOMAIN q : q[i] = q[j] => i = j
=============================================================================
