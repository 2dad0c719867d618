----------------------------- MODULE MCKeyboard -----------------------------
(* One key of every kind the driver treats in a way of its own, with the   *)
(* rows that us-std.src and spanish.src give them: a shift, both alts,     *)
(* which share a scan code, num lock, and a cursor key, which shares its   *)
(* code with one of the numeric pad and types three characters.            *)
EXTENDS Keyboard

CONSTANTS lshift, lalt, altgr, numlock, cursor, spanish

MCscan == (lshift :> 42) @@ (lalt :> 56) @@ (altgr :> 56) @@ (numlock :> 69) @@ (cursor :> 71)
MCrole == (lshift :> "shift_l") @@ (lalt :> "alt_l") @@ (altgr :> "alt_r")
          @@ (numlock :> "num") @@ (cursor :> "types")

All(v) == [col \in 0 .. 5 |-> v]
Keymap(home) ==
  (42 :> All(SHIFT)) @@ (56 :> All(ALT)) @@ (69 :> All(NLOCK)) @@ (96 :> All(EXTKEY))
  @@ (71 :> [col \in 0 .. 5 |-> home[col + 1]])

\* Row 71: HOME '7' AHOME AHOME A('7') or '7' CHOME.
MCkeymap == (us_std :> Keymap(<<HOME, 55, ALT + 1, ALT + 1, 183, CTRL + 1>>))
            @@ (spanish :> Keymap(<<HOME, 55, ALT + 1, ALT + 1, 55, CTRL + 1>>))
=============================================================================
