------------------------------ MODULE FileStore -----------------------------
(***************************************************************************)
(* What the file system promises: a tree of files and directories, and a   *)
(* copy of it that survives a restart.  The copy is replaced as a whole.   *)
(*                                                                         *)
(* Lose is the way out of the promise: Lfs takes it where fs.c is used in  *)
(* a way it does not guard against, and nowhere else.                      *)
(***************************************************************************)
CONSTANTS
  Names, Root,
  Parent,     \* the directory of every name but Root
  Texts,      \* what a file may hold
  Dir         \* what stands for the content of a directory

VARIABLES
  files,      \* the names there are, each with its content
  kept,       \* the same, as they were saved last
  lost        \* the promise no longer holds

vars == <<files, kept, lost>>

Empty == {<<Root, Dir>>}

Init == files = {} /\ kept = {} /\ lost = FALSE

\* Everything is wiped, and there is an empty root directory.
Format == files' = Empty /\ kept' = Empty /\ UNCHANGED lost

Make(n, content) ==
  /\ \A f \in files : f[1] # n
  /\ <<Parent[n], Dir>> \in files
  /\ files' = files \cup {<<n, content>>}

\* A name, and every name in it, at any depth.
Inside(n) ==
  {m \in Names : \A S \in SUBSET Names :
     n \in S /\ (\A d \in Names \ {Root} : Parent[d] \in S => d \in S) => m \in S}

Remove(n) == files' = {f \in files : f[1] \notin Inside(n)}

\* What is not saved yet is lost by a restart.
Change ==
  /\ UNCHANGED <<kept, lost>>
  /\ \/ \E n \in Names : Remove(n)
     \/ \E n \in Names \ {Root}, c \in Texts \cup {Dir} : Make(n, c)

Save == kept' = files /\ UNCHANGED <<files, lost>>

Restart == files' = kept /\ UNCHANGED <<kept, lost>>

Lose == lost' = TRUE /\ files' = {} /\ kept' = {}

Next == ~lost /\ (Format \/ Change \/ Save \/ Restart \/ Lose)

Spec == Init /\ [][Next]_vars
=============================================================================
