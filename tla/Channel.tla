------------------------------- MODULE Channel ------------------------------
(***************************************************************************)
(* What a pipe and a message queue promise: items come out once, in the    *)
(* order they went in, to one getter each, and never more than Capacity of *)
(* them are inside.  A pipe takes and hands over several bytes in one go,  *)
(* a message queue one message.                                            *)
(***************************************************************************)
EXTENDS Integers, Sequences, SequencesExt

CONSTANTS Task, NoTask, Item, Capacity

VARIABLES
  contents,   \* the items inside, the next one to come out first
  handed      \* the items the last operation handed over, and to whom

Nothing == [task |-> NoTask, items |-> <<>>]

Init == contents = <<>> /\ handed = Nothing

Put ==
  /\ \E n \in 1 .. Capacity - Len(contents) : \E s \in [1 .. n -> Item] :
       contents' = contents \o s
  /\ handed' = Nothing

Get(t) ==
  \E n \in 1 .. Len(contents) :
    /\ handed' = [task |-> t, items |-> SubSeq(contents, 1, n)]
    /\ contents' = SubSeq(contents, n + 1, Len(contents))

Next == Put \/ \E t \in Task : Get(t)

Spec == Init /\ [][Next]_<<contents, handed>>
=============================================================================
