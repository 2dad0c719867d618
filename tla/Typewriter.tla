----------------------------- MODULE Typewriter -----------------------------
(***************************************************************************)
(* What a keyboard promises to those who read from it, said of the keys    *)
(* and not of scan codes: a key types what is printed on it for the        *)
(* shift, control, alt and lock keys that are in force when it goes down,  *)
(* all of it, after what was typed before; a lock key changes its lock     *)
(* once however long it is held.                                           *)
(***************************************************************************)
EXTENDS Integers, Sequences, FiniteSets

CONSTANTS
  Key, role,         \* what each key is for, "types" if it types
  Letters, Numpad,   \* the keys that CapsLock (by layout) and NumLock turn over
  legend             \* legend[layout][key][column]: what the key types

VARIABLES
  down,     \* the keys held down
  locks,    \* the roles of the lock keys that are on
  layout,
  text      \* what was typed and not read yet

Locks == {"caps", "num", "scroll"}
Held(roles) == \E k \in down : role[k] \in roles

Upper(k) ==
  LET shift == Held({"shift_l", "shift_r"})
      num == "num" \in locks /\ k \in Numpad
      caps == "caps" \in locks /\ k \in Letters[layout]
  IN Cardinality({i \in 1 .. 3 : <<shift, num, caps>>[i]}) % 2 = 1

Alt == Held({"alt_l", "alt_r"})
AltGr == Held({"alt_r"}) \/ (Alt /\ Held({"ctrl_l", "ctrl_r"}))

\* Columns: plain, upper, alt, alt gr, alt upper, control.
Column(k) ==
  CASE Alt /\ Upper(k) -> 4
    [] Alt /\ ~ Upper(k) -> IF AltGr THEN 3 ELSE 2
    [] ~ Alt /\ Held({"ctrl_l", "ctrl_r"}) -> 5
    [] OTHER -> IF Upper(k) THEN 1 ELSE 0

Types(k) == IF role[k] = "types" THEN legend[layout][k][Column(k)] ELSE <<>>

Press(k) ==
  /\ k \notin down
  /\ down' = down \cup {k}
  /\ locks' = IF role[k] \in Locks
              THEN (locks \cup {role[k]}) \ (locks \cap {role[k]})
              ELSE locks
  /\ text' = text \o Types(k)
  /\ UNCHANGED layout

Repeat(k) ==
  /\ k \in down
  /\ text' = text \o Types(k)
  /\ UNCHANGED <<down, locks, layout>>

Release(k) ==
  /\ k \in down
  /\ down' = down \ {k}
  /\ UNCHANGED <<locks, layout, text>>

Read ==
  /\ text # <<>> /\ text' = Tail(text)
  /\ UNCHANGED <<down, locks, layout>>

\* What was typed and not translated yet may change with the layout.
SetLayout ==
  /\ layout' # layout
  /\ UNCHANGED <<down, locks>>

Init == down = {} /\ locks = {} /\ text = <<>>

Next == Read \/ SetLayout \/ \E k \in Key : Press(k) \/ Repeat(k) \/ Release(k)

Spec == Init /\ [][Next]_<<down, locks, layout, text>>
=============================================================================
