-------------------------------- MODULE Heap --------------------------------
(***************************************************************************)
(* The memory allocator (malloc.c): a circular list of free blocks in      *)
(* order of address, searched from where the last call left it, one        *)
(* comparison at a time.                                                   *)
(*                                                                         *)
(* Addresses count units of one Header; the heap is 1 .. Units.  The empty *)
(* block base that keeps the list from being empty is a variable of its    *)
(* own, which the linker puts before the heap or, when malloc.c is         *)
(* compiled as the makefile does, right after its last unit.               *)
(*                                                                         *)
(* Calls are taken one at a time, as Malloc and Free make them with        *)
(* Atomic.                                                                 *)
(***************************************************************************)
EXTENDS Integers

CONSTANTS
  Units,     \* HEAPSIZE / sizeof(Header)
  MaxUnits,  \* bound: the size of a request
  GoesOn     \* bound: whether calls are made after the list was broken

ASSUME HeapAssumption == {Units, MaxUnits} \subseteq Nat \ {0} /\ MaxUnits <= Units /\ GoesOn \in BOOLEAN

VARIABLES
  base,      \* where base is: it never changes
  ptr, size, \* the fields of the headers
  freep,
  up,        \* the static variable of morecore: the heap was taken
  doing,     \* idle, in the loop of malloc or of free, or of the free of morecore
  nunits, prevp, p, bp,   \* the local variables of malloc and free
  live,      \* history: the blocks in use
  spent      \* history: the only block of the list was consumed (Consumes)

layout == <<ptr, size, freep>>
locals == <<nunits, prevp, p, bp>>
heapVars == <<base, layout, up, doing, locals, live, spent>>

NULL == -1
HeapAddress == 0 .. Units + 1

\* The addresses one meets from start, and what is left of two fields when
\* headers that head no block any more are given up to their users.
OnList(next, start) ==
  LET nth[n \in 0 .. Units + 1] == IF n = 0 THEN start ELSE next[nth[n - 1]]
  IN {nth[n] : n \in 0 .. Units + 1}

Headers(next, units, start, blocks) ==
  LET list == OnList(next, start)
      heads == list \cup {b.at : b \in blocks}
  IN /\ ptr' = [a \in HeapAddress |-> IF a \in list THEN next[a] ELSE NULL]
     /\ size' = [a \in HeapAddress |-> IF a \in heads THEN units[a] ELSE 0]

HeapInit ==
  /\ base \in {0, Units + 1}
  /\ ptr = [a \in HeapAddress |-> NULL] /\ size = [a \in HeapAddress |-> 0]
  /\ freep = NULL /\ up = FALSE
  /\ doing = "idle" /\ nunits = 0 /\ prevp = NULL /\ p = NULL /\ bp = NULL
  /\ live = {} /\ spent = FALSE

-----------------------------------------------------------------------------
(* malloc.                                                                 *)

malloc(n) ==
  /\ doing = "idle" /\ (spent => GoesOn)
  /\ nunits' = n
  /\ IF freep = NULL
     THEN /\ ptr' = [ptr EXCEPT ![base] = base] /\ size' = [size EXCEPT ![base] = 0]
          /\ freep' = base /\ prevp' = base /\ p' = base
     ELSE prevp' = freep /\ p' = ptr[freep] /\ UNCHANGED layout
  /\ doing' = "malloc"
  /\ UNCHANGED <<base, up, bp, live, spent>>

(* The list has one block, and not base: neither unlinking it, when it is  *)
(* taken whole, nor joining it to a block that is freed below it takes it  *)
(* out of the list.                                                        *)
Alone(a) == ptr[a] = a /\ a # base

Returns == doing' = "idle" /\ nunits' = 0 /\ prevp' = NULL /\ p' = NULL /\ bp' = NULL

TakeExactly ==
  /\ doing = "malloc" /\ size[p] = nunits
  /\ freep' = prevp
  /\ live' = live \cup {[at |-> p, units |-> nunits]}
  /\ Headers([ptr EXCEPT ![prevp] = ptr[p]], size, prevp, live')
  /\ spent' = (spent \/ Alone(p))
  /\ Returns
  /\ UNCHANGED <<base, up>>

\* Faulty variant of TakeTail: the block that is cut keeps its size.
TakeTailUncut ==
  LET at == p + size[p] - nunits
  IN /\ doing = "malloc" /\ size[p] > nunits
     /\ size' = [size EXCEPT ![at] = nunits]
     /\ freep' = prevp
     /\ live' = live \cup {[at |-> at, units |-> nunits]}
     /\ Returns
     /\ UNCHANGED <<base, ptr, up, spent>>

TakeTail ==
  LET at == p + size[p] - nunits
  IN /\ doing = "malloc" /\ size[p] > nunits
     /\ size' = [size EXCEPT ![p] = @ - nunits, ![at] = nunits]
     /\ freep' = prevp
     /\ live' = live \cup {[at |-> at, units |-> nunits]}
     /\ Returns
     /\ UNCHANGED <<base, ptr, up, spent>>

Next1 == prevp' = p /\ p' = ptr[p]

TooSmall ==
  /\ doing = "malloc" /\ size[p] < nunits /\ p # freep
  /\ Next1
  /\ UNCHANGED <<base, layout, up, doing, nunits, bp, live, spent>>

NoneLeft ==
  /\ doing = "malloc" /\ size[p] < nunits /\ p = freep /\ up
  /\ Returns
  /\ UNCHANGED <<base, layout, up, live, spent>>

morecore ==
  /\ doing = "malloc" /\ size[p] < nunits /\ p = freep /\ ~ up
  /\ up' = TRUE /\ size' = [size EXCEPT ![1] = Units]
  /\ bp' = 1 /\ p' = freep /\ doing' = "morecore"
  /\ UNCHANGED <<base, ptr, freep, nunits, prevp, live, spent>>

-----------------------------------------------------------------------------
(* free: find the free blocks before and after, and join what touches.     *)

free(b) ==
  /\ doing = "idle" /\ (spent => GoesOn) /\ b \in live
  /\ live' = live \ {b}
  /\ bp' = b.at /\ p' = freep /\ doing' = "free"
  /\ UNCHANGED <<base, layout, up, nunits, prevp, spent>>

Freeing == doing \in {"free", "morecore"}

Between == bp > p /\ bp < ptr[p]
\* Faulty variant of AtEnd: only a block beyond the last one is at an end.
AtEndAbove == p >= ptr[p] /\ bp > p

AtEnd == p >= ptr[p] /\ (bp > p \/ bp < ptr[p])

Skip ==
  /\ Freeing /\ ~ Between /\ ~ AtEnd
  /\ p' = ptr[p]
  /\ UNCHANGED <<base, layout, up, doing, nunits, prevp, bp, live, spent>>

JoinUpper(next, units) ==
  IF bp + units[bp] = next[p]
  THEN [ptr |-> [next EXCEPT ![bp] = next[next[p]]],
        size |-> [units EXCEPT ![bp] = @ + units[next[p]]]]
  ELSE [ptr |-> [next EXCEPT ![bp] = next[p]], size |-> units]

\* Faulty variant of JoinLower: a block is never joined to the one below it.
JoinLowerNever(next, units) == [ptr |-> [next EXCEPT ![p] = bp], size |-> units]

JoinLower(next, units) ==
  IF p + units[p] = bp
  THEN [ptr |-> [next EXCEPT ![p] = next[bp]],
        size |-> [units EXCEPT ![p] = @ + units[bp]]]
  ELSE [ptr |-> [next EXCEPT ![p] = bp], size |-> units]

LinkIn ==
  /\ Freeing /\ (Between \/ AtEnd)
  /\ LET upper == JoinUpper(ptr, size)
         both == JoinLower(upper.ptr, upper.size)
     IN Headers(both.ptr, both.size, p, live)
  /\ freep' = p
  /\ IF doing = "free" THEN Returns
     ELSE \* back in the loop of malloc, with p = freep, to its next turn
          /\ doing' = "malloc" /\ prevp' = p /\ p' = ptr'[p]
          /\ bp' = NULL /\ UNCHANGED nunits
  /\ spent' = (spent \/ (Alone(p) /\ bp + size[bp] = p))
  /\ UNCHANGED <<base, up, live>>

HeapNext ==
  \/ \E n \in 1 .. MaxUnits : malloc(n)
  \/ TakeExactly \/ TakeTail \/ TooSmall \/ NoneLeft \/ morecore
  \/ \E b \in live : free(b)
  \/ Skip \/ LinkIn

HeapSpec == HeapInit /\ [][HeapNext]_heapVars
FairHeapSpec ==
  HeapSpec /\ WF_heapVars(TakeExactly \/ TakeTail \/ TooSmall \/ NoneLeft
                            \/ morecore \/ Skip \/ LinkIn)

-----------------------------------------------------------------------------
(* Properties.                                                             *)

BlockAt(a) == [at |-> a, units |-> size[a]]
Cells(b) == b.at .. b.at + b.units - 1

FreeBlocks == {BlockAt(a) : a \in OnList(ptr, freep) \ {base}}

HeapTypeOK ==
  /\ base \in {0, Units + 1} /\ freep \in HeapAddress \cup {NULL} /\ up \in BOOLEAN
  /\ ptr \in [HeapAddress -> HeapAddress \cup {NULL}] /\ size \in [HeapAddress -> 0 .. Units]
  /\ doing \in {"idle", "malloc", "free", "morecore"}
  /\ nunits \in 0 .. MaxUnits /\ {prevp, p, bp} \subseteq HeapAddress \cup {NULL}
  /\ live \subseteq [at : 1 .. Units, units : 1 .. MaxUnits] /\ spent \in BOOLEAN

(* Between calls every unit of the heap belongs to exactly one block, in   *)
(* use or on the free list: whatever the order of calls and of the joins   *)
(* they cause, nothing is leaked and nothing is handed out twice.  It      *)
(* holds until the only block of a list without base is consumed.          *)
Partitioned ==
  (doing = "idle" /\ up /\ ~ spent) =>
    \A u \in 1 .. Units :
      \E b \in live \cup FreeBlocks : \A c \in live \cup FreeBlocks : u \in Cells(c) <=> c = b

(* malloc and free implement an allocator; in particular what was freed in *)
(* pieces is found again as one block, wherever the search starts.         *)
A == INSTANCE Allocator WITH asked <- nunits
ImplementsAllocator == A!Init /\ [][~ spent' => A!Next]_<<live, nunits>>

(* The loops of malloc and free end: they go round a circular list whose   *)
(* head, freep, moves, and is changed by morecore in the middle.           *)
CallsEnd == doing # "idle" ~> (doing = "idle" \/ spent)

(* No block is handed out while it, or part of it, is in use.              *)
NeverTwice == \A b, c \in live : b # c => Cells(b) \cap Cells(c) = {}
=============================================================================
