-------------------------------- MODULE MCLfs -------------------------------
(***************************************************************************)
(* A root (/), a directory or file in it (/a), a path in that one (/a/b)   *)
(* and a name in the root that begins with its text (/ab).                 *)
(***************************************************************************)
EXTENDS Lfs, TLC

CONSTANTS Top, A, AB, Ab

MCNames == {Top, A, AB, Ab}

MCParent == A :> Top @@ AB :> A @@ Ab :> Top

MCWithin == Top :> MCNames @@ A :> {A, AB, Ab} @@ AB :> {AB} @@ Ab :> {Ab}

(* The text read as the parent of /a/b is /a, unless the memory after it    *)
(* holds the rest of /ab.                                                   *)
MCMisread == [n \in MCNames |-> IF n = AB THEN {Ab} ELSE {}]

(* What comes after a use that fs.c does not guard against is left aside.  *)
Guarded == sound
=============================================================================
