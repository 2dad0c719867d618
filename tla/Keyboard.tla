------------------------------ MODULE Keyboard ------------------------------
(***************************************************************************)
(* The keyboard driver (keyboard.c).  The interrupt handler kbdint moves   *)
(* scan codes from the keyboard to a queue; input_task translates them,    *)
(* keeping the state of the modifier and lock keys, and puts what they     *)
(* type in a second queue, where programs read it.  The two queues are     *)
(* those of MsgQueue, taken here as the channels they are shown to be.     *)
(*                                                                         *)
(* A handler cannot wait: codes that find the first queue full are lost.   *)
(***************************************************************************)
EXTENDS Integers, Sequences, FiniteSets, SequencesExt

CONSTANTS
  Key, NoKey,
  scan,           \* the scan code of each key
  Extended,       \* the keys whose scan code comes after an EXTKEY
  role,           \* what the flags of the driver call the key; "types" if none
  Layout, us_std, \* names, and the first of them
  keymap,         \* keymap[layout][scan code][column]
  ScanSize, KeySize,   \* KBDBUFSIZE, the size of each queue
  MaxDown,        \* bound: keys held down at a time
  MaxLost         \* bound: codes lost

VARIABLES
  down, last,   \* environment: the keys held down, the one that repeats
  sending,      \* environment: the key whose codes the keyboard sends, and those left
  scan_mq, key_mq,
  kbd,          \* the static variables: esc, the flags held, the locks
  out,          \* what input_task has still to put in key_mq
  kbd_name,     \* the name of the layout; the static variable keymap goes with it
  lost,         \* history: how many codes were lost
  inStep,       \* history: the last code of the last key but one was not lost
  whole         \* history: the keys whose state no lost code can have changed

env == <<down, last, sending>>
history == <<lost, inStep, whole>>
keyboardVars == <<env, scan_mq, key_mq, kbd, out, kbd_name, history>>

-----------------------------------------------------------------------------
(* Scan codes and the values of the keymap.                                *)

EXT == 256
CTRL == 512
SHIFT == 1024
ALT == 2048
EXTKEY == 4096
HASCAPS == 32768
HOME == EXT + 1
INSRT == EXT + 12
CALOCK == EXT + 13
NLOCK == EXT + 14
SLOCK == EXT + 15
SLASH_SCAN == 53
RSHIFT_SCAN == 54
HOME_SCAN == 71
DEL_SCAN == 83
ESC == 27
numpad_map == <<72, 89, 65, 66, 68, 67, 86, 85, 71, 83, 84, 64>>   \* "HYABDCVUGST@"

Kbd == [esc : BOOLEAN,
        held : SUBSET {"ctrl_l", "ctrl_r", "shift_l", "shift_r", "alt_l", "alt_r",
                       "caps", "num", "scroll"},
        locks : SUBSET {"caps", "num", "scroll"}]
LockKey == {CALOCK, NLOCK, SLOCK}
E0 == [scan |-> 96, make |-> FALSE]
Code == [scan : {scan[k] : k \in Key} \cup {96}, make : BOOLEAN]

Flags == {k \in Key : role[k] # "types"}
FlagValue == {CTRL, SHIFT, ALT} \cup LockKey

\* Which flag a modifier or lock key is.
FlagOf(ch, s, escape) ==
  CASE ch = CTRL -> IF escape THEN "ctrl_r" ELSE "ctrl_l"
    [] ch = SHIFT -> IF s = RSHIFT_SCAN THEN "shift_r" ELSE "shift_l"
    [] ch = ALT -> IF escape THEN "alt_r" ELSE "alt_l"
    [] ch = CALOCK -> "caps" [] ch = NLOCK -> "num" [] ch = SLOCK -> "scroll"

(* Both keymaps (src/include/keymaps) give a modifier or lock key the same *)
(* value in every column, and to no other key.  The keyboard has one key   *)
(* for every flag, and its control keys have one scan code, which only an  *)
(* E0 tells apart, as its alt keys do.                                     *)
Value(k) == keymap[us_std][scan[k]][0]

ASSUME KeyboardAssumption ==
  /\ NoKey \notin Key /\ us_std \in Layout /\ Extended \subseteq Key
  /\ \A k \in Key, l \in Layout, col \in 0 .. 5 :
       IF k \in Flags THEN keymap[l][scan[k]][col] = Value(k)
       ELSE keymap[l][scan[k]][col] % HASCAPS \notin FlagValue \cup {EXTKEY}
  /\ \A k \in Flags : /\ Value(k) \in FlagValue /\ scan[k] # SLASH_SCAN
                      /\ role[k] = FlagOf(Value(k), scan[k], k \in Extended)
  /\ \A j, k \in Flags : /\ role[j] = role[k] => j = k
                         /\ Value(j) = Value(k) => scan[j] = scan[k] \/ Value(k) = SHIFT
  /\ \A k \in Key : scan[k] # E0.scan
  /\ \A l \in Layout, col \in 0 .. 5 : keymap[l][E0.scan][col] = EXTKEY
  /\ {ScanSize, KeySize, MaxDown} \subseteq Nat \ {0} /\ MaxLost \in Nat

-----------------------------------------------------------------------------
(* map_key and make_break, as functions of the static variables k.         *)

On(k, flags) == k.held \cap flags # {}

Upper(k, s, l) ==
  LET shift == On(k, {"shift_l", "shift_r"})
      num == "num" \in k.locks /\ s \in HOME_SCAN .. DEL_SCAN
      caps == "caps" \in k.locks /\ keymap[l][s][0] >= HASCAPS
  IN (shift # num) # caps

Column(k, upper) ==
  IF On(k, {"alt_l", "alt_r"})
  THEN IF upper THEN 4
       ELSE IF On(k, {"ctrl_l", "ctrl_r", "alt_r"}) THEN 3 ELSE 2
  ELSE IF On(k, {"ctrl_l", "ctrl_r"}) THEN 5
       ELSE IF upper THEN 1 ELSE 0

map_key(k, s, l) ==
  IF s = SLASH_SCAN /\ k.esc THEN 47
  ELSE keymap[l][s][Column(k, Upper(k, s, l))] % HASCAPS

\* Faulty variant of Toggled: the lock changes with every code of the key.
ToggledAgain(k, ch, flag, make) ==
  IF ch \in LockKey /\ make THEN SymDiff(k.locks, {flag}) ELSE k.locks

\* A lock changes when its key goes down, not while it stays down.
Toggled(k, ch, flag, make) ==
  IF ch \in LockKey /\ make /\ flag \notin k.held
  THEN SymDiff(k.locks, {flag}) ELSE k.locks

\* Faulty variant of Flagged: the E0 is not forgotten.
FlaggedKeepsEsc(k, ch, c) ==
  LET flag == FlagOf(ch, c.scan, k.esc)
  IN [esc |-> k.esc,
      held |-> IF c.make THEN k.held \cup {flag} ELSE k.held \ {flag},
      locks |-> Toggled(k, ch, flag, c.make)]

Flagged(k, ch, c) ==
  LET flag == FlagOf(ch, c.scan, k.esc)
  IN [esc |-> FALSE,
      held |-> IF c.make THEN k.held \cup {flag} ELSE k.held \ {flag},
      locks |-> Toggled(k, ch, flag, c.make)]

IsFlag(ch) == ch \in FlagValue

make_break(k, c, l) ==
  LET ch == map_key(k, c.scan, l)
  IN IF IsFlag(ch) THEN Flagged(k, ch, c)
     ELSE [k EXCEPT !.esc = (ch = EXTKEY)]

\* What input_task puts in key_mq for a code.
Put(ch) ==
  IF ch \in 1 .. 255 THEN <<ch>>
  ELSE IF ch \in HOME .. INSRT THEN <<ESC, 91, numpad_map[ch - HOME + 1]>>
  ELSE <<>>

Typed(k, c, l) ==
  LET ch == map_key(k, c.scan, l)
  IN IF c.make /\ ~ IsFlag(ch) /\ ch # EXTKEY THEN Put(ch) ELSE <<>>

-----------------------------------------------------------------------------
(* The keyboard: a key that is pressed, released or held down sends its    *)
(* codes, with an E0 before those of the extended keys.  The key pressed   *)
(* last repeats.                                                           *)

Codes(k, make) ==
  (IF k \in Extended THEN <<E0>> ELSE <<>>) \o <<[scan |-> scan[k], make |-> make]>>

Idle == sending.codes = <<>>
Sends(k, make) == Idle /\ sending' = [key |-> k, codes |-> Codes(k, make)]

Press(k) ==
  /\ k \notin down /\ Cardinality(down) < MaxDown
  /\ down' = down \cup {k} /\ last' = k
  /\ Sends(k, TRUE)
  /\ UNCHANGED <<scan_mq, key_mq, kbd, out, kbd_name, history>>

Repeat ==
  /\ last # NoKey
  /\ Sends(last, TRUE)
  /\ UNCHANGED <<down, last, scan_mq, key_mq, kbd, out, kbd_name, history>>

Release(k) ==
  /\ k \in down
  /\ down' = down \ {k} /\ last' = IF k = last THEN NoKey ELSE last
  /\ Sends(k, FALSE)
  /\ UNCHANGED <<scan_mq, key_mq, kbd, out, kbd_name, history>>

-----------------------------------------------------------------------------
(* kbdint.  A lost code can only mislead the driver about its key, about   *)
(* the one that has the same scan code, and, if an E0 was left alone,      *)
(* about the next key that sends codes.                                    *)

Twins(k) == {j \in Key : scan[j] = scan[k]}

Accept ==
  /\ Len(scan_mq) < ScanSize
  /\ scan_mq' = Append(scan_mq, Head(sending.codes))
  /\ lost' = lost
  /\ IF Len(sending.codes) > 1 THEN UNCHANGED <<inStep, whole>>
     ELSE /\ inStep' = TRUE
          /\ whole' = IF inStep THEN whole \cup ({sending.key} \cap Flags)
                      ELSE whole \ Twins(sending.key)

Lose ==
  /\ Len(scan_mq) = ScanSize
  /\ lost < MaxLost /\ lost' = lost + 1
  /\ inStep' = FALSE /\ whole' = whole \ Twins(sending.key)
  /\ scan_mq' = scan_mq

kbdint ==
  /\ ~ Idle
  /\ sending' = [sending EXCEPT !.codes = Tail(@)]
  /\ Accept \/ Lose
  /\ UNCHANGED <<down, last, key_mq, kbd, out, kbd_name>>

-----------------------------------------------------------------------------
(* input_task: one code, then what it types, one character at a time; it   *)
(* waits while key_mq is full.                                             *)

Translate ==
  /\ out = <<>> /\ scan_mq # <<>>
  /\ scan_mq' = Tail(scan_mq)
  /\ kbd' = make_break(kbd, Head(scan_mq), kbd_name)
  /\ out' = Typed(kbd, Head(scan_mq), kbd_name)
  /\ UNCHANGED <<env, key_mq, kbd_name, history>>

PutChar ==
  /\ out # <<>> /\ Len(key_mq) < KeySize
  /\ key_mq' = Append(key_mq, Head(out))
  /\ out' = Tail(out)
  /\ UNCHANGED <<env, scan_mq, kbd, kbd_name, history>>

input_task == Translate \/ PutChar

\* mt_kbd_getch, or mt_kbd_getch_timed in time.
getch ==
  /\ key_mq # <<>> /\ key_mq' = Tail(key_mq)
  /\ UNCHANGED <<env, scan_mq, kbd, out, kbd_name, history>>

mt_kbd_setlayout(l) ==
  /\ kbd_name' = l
  /\ UNCHANGED <<env, scan_mq, key_mq, kbd, out, history>>

KeyboardInit ==
  /\ down = {} /\ last = NoKey /\ sending = [key |-> NoKey, codes |-> <<>>]
  /\ scan_mq = <<>> /\ key_mq = <<>> /\ out = <<>>
  /\ kbd = [esc |-> FALSE, held |-> {}, locks |-> {}]
  /\ kbd_name = us_std
  /\ lost = 0 /\ inStep = TRUE /\ whole = Flags

KeyboardNext ==
  \/ \E k \in Key : Press(k) \/ Release(k)
  \/ Repeat \/ kbdint \/ input_task \/ getch
  \/ \E l \in Layout : mt_kbd_setlayout(l)

KeyboardSpec == KeyboardInit /\ [][KeyboardNext]_keyboardVars

-----------------------------------------------------------------------------
(* Properties.                                                             *)

\* What the driver holds, and has typed, after a code and after several.
Step(c, l) ==
  [s \in [kbd : Kbd, text : Seq(Nat)] |->
     [kbd |-> make_break(s.kbd, c, l), text |-> s.text \o Typed(s.kbd, c, l)]]

Translated(start, codes, l) ==
  LET after[n \in 0 .. Len(codes)] ==
        IF n = 0 THEN start ELSE Step(codes[n], l)[after[n - 1]]
  IN after[Len(codes)]

After(codes) == Translated([kbd |-> kbd, text |-> key_mq \o out], codes, kbd_name)

KeyboardTypeOK ==
  /\ down \subseteq Key /\ last \in down \cup {NoKey}
  /\ sending \in [key : Key \cup {NoKey}, codes : Seq(Code)]
  /\ scan_mq \in Seq(Code) /\ Len(scan_mq) <= ScanSize
  /\ key_mq \in Seq(Nat) /\ Len(key_mq) <= KeySize /\ out \in Seq(Nat)
  /\ kbd \in Kbd /\ kbd_name \in Layout
  /\ lost \in 0 .. MaxLost /\ inStep \in BOOLEAN /\ whole \subseteq Flags

(* Once what is queued is translated, the flag of a modifier or lock key   *)
(* says whether the key is down, for every key whose codes arrived since   *)
(* the last loss that could concern it: a lost code (kbdint finds scan_mq  *)
(* full) leaves a flag stuck only until its key is used again.             *)
ModifiersFollow ==
  \A k \in whole :
    (Idle \/ sending.key # k) =>
      (role[k] \in After(scan_mq).kbd.held <=> k \in down)

(* As long as no code is lost, the driver is a typewriter: whatever the    *)
(* delay between a key, its interrupt, its translation and its reading,    *)
(* it types what the keys held down when it was pressed ask for, in order  *)
(* and whole, and its locks change once for every press.                   *)
Typing == After(scan_mq \o sending.codes)

Letters == [l \in Layout |-> {k \in Key : keymap[l][scan[k]][0] >= HASCAPS}]
Numpad == {k \in Key : scan[k] \in HOME_SCAN .. DEL_SCAN}
Legend == [l \in Layout |-> [k \in Key |-> [col \in 0 .. 5 |->
            Put(IF scan[k] = SLASH_SCAN /\ k \in Extended THEN 47
                ELSE keymap[l][scan[k]][col] % HASCAPS)]]]

Machine == INSTANCE Typewriter WITH legend <- Legend,
  layout <- kbd_name, locks <- Typing.kbd.locks, text <- Typing.text

ImplementsTypewriter ==
  Machine!Init /\ [][lost' = 0 => Machine!Next]_<<down, kbd_name, Typing>>
=============================================================================
