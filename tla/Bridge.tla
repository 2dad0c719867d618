------------------------------- MODULE Bridge -------------------------------
(***************************************************************************)
(* A road with a stretch of one lane (camino.c, camino_ns.c).  Each car is *)
(* a task that goes from cell to cell; the task control opens and closes   *)
(* the barrier of each direction, told by the cars when they go by the     *)
(* sensors.  The two programs differ in how cars talk to control (a        *)
(* mailbox with two semaphores; Send and Receive), and in its decisions.   *)
(*                                                                         *)
(* A loop that waits for a cell with Yield is a step that may be taken     *)
(* once the cell is empty.  Delays are all of the same length, TDELAY, so  *)
(* that they end in the order they began; what tasks do between two clock  *)
(* interrupts takes no time (Tick).                                        *)
(***************************************************************************)
EXTENDS SyncState

CONSTANTS
  Left, Right,                        \* the cars of each direction
  SENSOR1_POS, BARRIER_POS, ONEWAY_START, ONEWAY_END, SENSOR2_POS, ROAD_END,
  PASS_MAX,                           \* pass_max of camino_ns
  control,                            \* the task that controls the barriers
  mail_empty, mail_full,              \* the semaphores of camino
  send_queue,                         \* where cars wait to send to control
  NoMsg

Car == Left \cup Right

ASSUME BridgeAssumption ==
  /\ Left \cap Right = {} /\ control \notin Car /\ Task = Car \cup {control}
  /\ IsFiniteSet(Car)
  /\ \A t \in Task : prio[t] = prio[control]              \* DEFAULT_PRIO
  /\ Sem = {mail_empty, mail_full} /\ mail_empty # mail_full /\ Cond = {send_queue}
  /\ {SENSOR1_POS, BARRIER_POS, ONEWAY_START, ONEWAY_END, SENSOR2_POS, ROAD_END, PASS_MAX} \subseteq Nat
  /\ 0 < SENSOR1_POS /\ SENSOR1_POS < BARRIER_POS /\ BARRIER_POS + 1 = ONEWAY_START
  /\ ONEWAY_START <= ONEWAY_END /\ ONEWAY_END + 1 = SENSOR2_POS /\ SENSOR2_POS < ROAD_END

VARIABLES
  program,      \* "camino" or "camino_ns"
  w,            \* semaphores and queues (SyncState)
  road,         \* what is in each cell of each direction
  car,          \* where each car is, on the road and in its loop
  delayed,      \* the cars in Delay, the first to wake up first
  mail,         \* the message in the mailbox, or the one handed to control
  ctl           \* the locals of control

vars == <<program, w, road, car, delayed, mail, ctl>>

Directions == {"LEFTBOUND", "RIGHTBOUND"}
Other(d) == IF d = "LEFTBOUND" THEN "RIGHTBOUND" ELSE "LEFTBOUND"
Dir(c) == IF c \in Left THEN "LEFTBOUND" ELSE "RIGHTBOUND"
CarsOf(d) == {c \in Car : Dir(c) = d}
Cells == 0 .. ROAD_END
Oneway == ONEWAY_START .. ONEWAY_END
Kinds == {"IN", "BARRIER", "OUT"}

ASSUME NoMsgAssumption == NoMsg \notin Kinds \cup [dir : Directions, kind : Kinds]

EMPTY == "empty"
BARRIER == "barrier"
CAR == "car"

Nobody == "nobody"

Closed == [i \in Cells |-> IF i = BARRIER_POS THEN BARRIER ELSE EMPTY]

\* main and control up to its loop: both barriers are closed.
Init ==
  /\ program \in {"camino", "camino_ns"}
  /\ w = [value |-> [s \in Sem |-> IF s = mail_empty THEN 1 ELSE 0],
          list |-> [q \in Sem \cup Cond |-> <<>>],
          timed |-> {}, success |-> [t \in Task |-> FALSE]]
  /\ road = [d \in Directions |-> Closed]
  /\ car = [c \in Car |-> [pos |-> 0, pc |-> "gone"]]
  /\ delayed = <<>>
  /\ mail = NoMsg
  /\ ctl = [pc |-> "get", state |-> "IDLE", dir |-> Nobody, close |-> Nobody, open |-> Nobody,
            cars |-> [d \in Directions |-> 0], in_road |-> 0, passed |-> 0]

At(c, place) == car[c].pc = place /\ Runs(w, c)
Cell(c, i) == road[Dir(c)][i]
Pos(c) == car[c].pos

-----------------------------------------------------------------------------
(* Cars.                                                                   *)

\* A new task; which of the names that are free it gets is all the same.
send_car(d) ==
  LET free == {c \in CarsOf(d) : car[c].pc = "gone"}
  IN  /\ free # {}
      /\ car' = [car EXCEPT ![CHOOSE c \in free : TRUE] = [pos |-> 0, pc |-> "look"]]
      /\ UNCHANGED <<program, w, road, delayed, mail, ctl>>

\* The car slows down when the next cell is taken.
MustSlow(c) == Pos(c) < ROAD_END /\ Cell(c, Pos(c) + 1) # EMPTY

MaySlow(c) == At(c, "look") /\ Pos(c) <= ROAD_END /\ Cell(c, Pos(c)) = EMPTY /\ MustSlow(c)

Slow(c) ==
  /\ MaySlow(c)
  /\ car' = [car EXCEPT ![c].pc = "slow"]
  /\ delayed' = Append(delayed, c)
  /\ UNCHANGED <<program, w, road, mail, ctl>>

MayTake(c) ==
  /\ Pos(c) <= ROAD_END /\ Cell(c, Pos(c)) = EMPTY
  /\ At(c, "again") \/ (At(c, "look") /\ ~ MustSlow(c))

\* What a car tells control when it takes a cell.
Tells(i) ==
  CASE i = SENSOR1_POS -> "IN"
    [] i = BARRIER_POS /\ program = "camino_ns" -> "BARRIER"
    [] i = SENSOR2_POS -> "OUT"
    [] OTHER -> NoMsg

Message(c) == [dir |-> Dir(c), kind |-> Tells(Pos(c))]

\* The cell is taken; and the one behind left, which others see later if the
\* car has to wait in between.
Taken(c) == [road EXCEPT ![Dir(c)][Pos(c)] = CAR]
LeftBehind(cells, c) ==
  [cells EXCEPT ![Dir(c)] = [i \in Cells |-> IF i = Pos(c) - 1 THEN EMPTY ELSE @[i]]]

WaitsToTell(c) ==
  /\ road' = Taken(c)
  /\ car' = [car EXCEPT ![c].pc = "tell"]
  /\ UNCHANGED delayed

Drives(c, cells) ==
  /\ road' = LeftBehind(cells, c)
  /\ car' = [car EXCEPT ![c].pc = "delay"]
  /\ delayed' = Append(delayed, c)

TakeCell(c) ==
  /\ MayTake(c) /\ Tells(Pos(c)) = NoMsg
  /\ Drives(c, Taken(c))
  /\ UNCHANGED <<program, w, mail, ctl>>

\* Faulty variant: the message before may not have been read.
PutMsgOver(c) ==
  /\ MayTake(c) /\ Tells(Pos(c)) # NoMsg
  /\ mail' = Message(c)
  /\ w' = IF w.value[mail_full] > 0 THEN w ELSE SignalSem(w, mail_full)
  /\ Drives(c, Taken(c))
  /\ UNCHANGED <<program, ctl>>

\* put_msg, when the mailbox is empty and when it is not.
PutMsg(c) ==
  /\ MayTake(c) /\ Tells(Pos(c)) # NoMsg
  /\ IF w.value[mail_empty] > 0
     THEN /\ mail' = Message(c)
          /\ w' = Returned(SignalSem(WaitSem(w, c, mail_empty, FOREVER), mail_full), c)
          /\ Drives(c, Taken(c))
     ELSE /\ w' = WaitSem(w, c, mail_empty, FOREVER)
          /\ WaitsToTell(c)
          /\ UNCHANGED mail
  /\ UNCHANGED <<program, ctl>>

PutMsgWoken(c) ==
  /\ At(c, "tell")
  /\ mail' = Message(c)
  /\ w' = Returned(SignalSem(w, mail_full), c)
  /\ Drives(c, road)
  /\ UNCHANGED <<program, ctl>>

\* Send, when control waits in Receive and when it does not.
Send(c) ==
  /\ MayTake(c) /\ Tells(Pos(c)) # NoMsg
  /\ IF ctl.pc = "receive"
     THEN /\ mail' = Message(c)
          /\ ctl' = [ctl EXCEPT !.pc = "got"]
          /\ Drives(c, Taken(c))
          /\ UNCHANGED w
     ELSE /\ w' = WaitQueue(w, c, send_queue, FOREVER)
          /\ WaitsToTell(c)
          /\ UNCHANGED <<mail, ctl>>
  /\ UNCHANGED program

Sent(c) ==
  /\ At(c, "tell")
  /\ w' = Returned(w, c)
  /\ Drives(c, road)
  /\ UNCHANGED <<program, mail, ctl>>

\* Off the road.
Finish(c) ==
  /\ At(c, "look") /\ Pos(c) > ROAD_END
  /\ road' = [road EXCEPT ![Dir(c)][ROAD_END] = EMPTY]
  /\ car' = [car EXCEPT ![c] = [pos |-> 0, pc |-> "gone"]]
  /\ UNCHANGED <<program, w, delayed, mail, ctl>>

-----------------------------------------------------------------------------
(* Control.                                                                *)

\* What is done about the barriers, given the counts: the one to close, the
\* one to open, and the state that follows.
Stay(s, d) == [close |-> Nobody, open |-> Nobody, state |-> s, dir |-> d]
OpenFor(d) == [close |-> Nobody, open |-> d, state |-> "BUSY", dir |-> d]
CloseFor(d, plan) == [plan EXCEPT !.close = d]

\* Faulty variant: one side is forgotten.
FromIdleLeft(cars) ==
  IF cars["LEFTBOUND"] > 0 THEN OpenFor("LEFTBOUND") ELSE Stay("IDLE", Nobody)

FromIdle(cars) ==
  IF cars["LEFTBOUND"] > 0 THEN OpenFor("LEFTBOUND")
  ELSE IF cars["RIGHTBOUND"] > 0 THEN OpenFor("RIGHTBOUND")
  ELSE Stay("IDLE", Nobody)

\* camino.c
Decide(k) ==
  LET d == k.dir
      o == Other(d)
  IN  CASE k.state = "IDLE" -> FromIdle(k.cars)
        [] k.state = "BUSY" /\ k.cars[d] > 0 -> Stay("BUSY", d)
        [] k.state = "BUSY" /\ k.cars[d] = 0 ->
             CloseFor(d, IF k.cars[o] > 0 THEN OpenFor(o) ELSE Stay("IDLE", Nobody))

\* camino_ns.c.  Faulty variant: the road need not be empty to change hands.
DecideNsHasty(k) ==
  LET d == k.dir
      o == Other(d)
  IN  CASE k.state = "IDLE" -> FromIdle(k.cars)
        [] k.state = "BUSY" /\ k.cars[d] = 0 /\ k.cars[o] = 0 /\ k.in_road = 0 ->
             CloseFor(d, Stay("IDLE", Nobody))
        [] k.state = "BUSY" /\ k.cars[o] > 0 /\ (k.cars[d] = 0 \/ k.passed = PASS_MAX) ->
             CloseFor(d, OpenFor(o))
        [] OTHER -> Stay(k.state, d)

DecideNs(k) ==
  LET d == k.dir
      o == Other(d)
  IN  CASE k.state = "IDLE" -> FromIdle(k.cars)
        [] k.state = "BUSY" /\ k.cars[d] = 0 /\ k.cars[o] = 0 /\ k.in_road = 0 ->
             CloseFor(d, Stay("IDLE", Nobody))
        [] k.state = "BUSY" /\ k.cars[o] > 0 /\ (k.cars[d] = 0 \/ k.passed = PASS_MAX) ->
             CloseFor(d, IF k.in_road > 0 THEN Stay("DRAINING", d) ELSE OpenFor(o))
        [] k.state = "DRAINING" /\ k.in_road = 0 -> OpenFor(o)
        [] OTHER -> Stay(k.state, d)

\* The counts.  Faulty variant: those who pass are counted beyond PASS_MAX.
CountedOn(k, m) ==
  CASE m.kind = "IN" -> [k EXCEPT !.cars[m.dir] = @ + 1]
    [] m.kind = "BARRIER" -> [k EXCEPT !.cars[m.dir] = @ - 1, !.in_road = @ + 1, !.passed = @ + 1]
    [] m.kind = "OUT" /\ program = "camino" -> [k EXCEPT !.cars[m.dir] = @ - 1]
    [] m.kind = "OUT" /\ program = "camino_ns" -> [k EXCEPT !.in_road = @ - 1]

Counted(k, m) ==
  CASE m.kind = "IN" -> [k EXCEPT !.cars[m.dir] = @ + 1]
    [] m.kind = "BARRIER" -> [k EXCEPT !.cars[m.dir] = @ - 1, !.in_road = @ + 1,
                                       !.passed = IF @ < PASS_MAX THEN @ + 1 ELSE @]
    [] m.kind = "OUT" /\ program = "camino" -> [k EXCEPT !.cars[m.dir] = @ - 1]
    [] m.kind = "OUT" /\ program = "camino_ns" -> [k EXCEPT !.in_road = @ - 1]

Handled(k, m) ==
  LET new == Counted(k, m)
      plan == IF program = "camino" THEN Decide(new) ELSE DecideNs(new)
  IN  [new EXCEPT !.pc = IF plan.close # Nobody THEN "close" ELSE IF plan.open # Nobody THEN "open" ELSE "get",
                  !.close = plan.close, !.open = plan.open, !.state = plan.state, !.dir = plan.dir]

Controls(place) == ctl.pc = place /\ Runs(w, control)

\* get_msg
WaitMsg ==
  /\ Controls("get")
  /\ w' = WaitSem(w, control, mail_full, FOREVER)
  /\ ctl' = [ctl EXCEPT !.pc = "got"]
  /\ UNCHANGED <<program, road, car, delayed, mail>>

\* Faulty variant: the mailbox is not given back.
GetMsgKeeps ==
  /\ Controls("got")
  /\ w' = Returned(w, control)
  /\ mail' = NoMsg
  /\ ctl' = Handled(ctl, mail)
  /\ UNCHANGED <<program, road, car, delayed>>

GetMsg ==
  /\ Controls("got")
  /\ w' = Returned(SignalSem(w, mail_empty), control)
  /\ mail' = NoMsg
  /\ ctl' = Handled(ctl, mail)
  /\ UNCHANGED <<program, road, car, delayed>>

\* Receive
Receive ==
  /\ Controls("get")
  /\ IF w.list[send_queue] = <<>>
     THEN ctl' = [ctl EXCEPT !.pc = "receive"] /\ UNCHANGED w
     ELSE /\ ctl' = Handled(ctl, Message(Last(w.list[send_queue])))
          /\ w' = SignalQueue(w, send_queue)
  /\ UNCHANGED <<program, road, car, delayed, mail>>

Received ==
  /\ Controls("got")
  /\ ctl' = Handled(ctl, mail)
  /\ mail' = NoMsg
  /\ UNCHANGED <<program, w, road, car, delayed>>

MayClose == Controls("close") /\ road[ctl.close][BARRIER_POS] = EMPTY

\* Faulty variant: the barrier comes down on whatever is there.
close_barrier_blindly ==
  /\ Controls("close")
  /\ road' = [road EXCEPT ![ctl.close][BARRIER_POS] = BARRIER]
  /\ ctl' = [ctl EXCEPT !.close = Nobody, !.pc = IF ctl.open # Nobody THEN "open" ELSE "get"]
  /\ UNCHANGED <<program, w, car, delayed, mail>>

close_barrier ==
  /\ MayClose
  /\ road' = [road EXCEPT ![ctl.close][BARRIER_POS] = BARRIER]
  /\ ctl' = [ctl EXCEPT !.close = Nobody, !.pc = IF ctl.open # Nobody THEN "open" ELSE "get"]
  /\ UNCHANGED <<program, w, car, delayed, mail>>

open_barrier ==
  /\ Controls("open")
  /\ road' = [road EXCEPT ![ctl.open][BARRIER_POS] = EMPTY]
  /\ ctl' = [ctl EXCEPT !.open = Nobody, !.pc = "get", !.passed = 0]
  /\ UNCHANGED <<program, w, car, delayed, mail>>

-----------------------------------------------------------------------------
(* Time.  The clock ends delays when every task waits, for a message, for  *)
(* a cell or for the clock itself: a round of all of them is far shorter   *)
(* than TDELAY.                                                            *)

CanGoOn(c) == MaySlow(c) \/ MayTake(c) \/ At(c, "tell") \/ (At(c, "look") /\ Pos(c) > ROAD_END)

ControlCanGoOn ==
  \/ Controls("get") \/ Controls("got") \/ Controls("open")
  \/ MayClose

Quiet == ~ ControlCanGoOn /\ \A c \in Car : ~ CanGoOn(c)

Tick ==
  /\ Quiet
  /\ \E n \in 1 .. Len(delayed) :
       /\ car' = [c \in Car |->
            IF c \notin {delayed[i] : i \in 1 .. n} THEN car[c]
            ELSE IF car[c].pc = "slow" THEN [car[c] EXCEPT !.pc = "again"]
            ELSE [pos |-> Pos(c) + 1, pc |-> "look"]]
       /\ delayed' = SubSeq(delayed, n + 1, Len(delayed))
  /\ UNCHANGED <<program, w, road, mail, ctl>>

-----------------------------------------------------------------------------
\* The cars and the control of each program.
camino(c) ==
  program = "camino" /\ (Slow(c) \/ TakeCell(c) \/ PutMsg(c) \/ PutMsgWoken(c) \/ Finish(c))

camino_ns(c) ==
  program = "camino_ns" /\ (Slow(c) \/ TakeCell(c) \/ Send(c) \/ Sent(c) \/ Finish(c))

camino_control == program = "camino" /\ (WaitMsg \/ GetMsg)

camino_ns_control == program = "camino_ns" /\ (Receive \/ Received)

GoesOn(c) == camino(c) \/ camino_ns(c)

ControlGoesOn == camino_control \/ camino_ns_control \/ close_barrier \/ open_barrier

Works == Tick \/ ControlGoesOn \/ \E c \in Car : GoesOn(c)

Next == Works \/ \E d \in Directions : send_car(d)

Spec == Init /\ [][Next]_vars

\* Something goes on while something can: tasks share the CPU (RoundRobin
\* of Kernel) and delays end (TimedWaitsEnd).  More need not be asked, because
\* tasks do finitely much between two ticks.  Nobody has to send cars.
FairSpec == Spec /\ WF_vars(Works)

-----------------------------------------------------------------------------
(* Properties *)

Count == 0 .. Cardinality(Car)

TypeOK ==
  /\ program \in {"camino", "camino_ns"}
  /\ w \in [value : [Sem -> 0 .. 1], list : [Sem \cup Cond -> Seq(Task)],
            timed : SUBSET Task, success : [Task -> BOOLEAN]]
  /\ road \in [Directions -> [Cells -> {EMPTY, BARRIER, CAR}]]
  /\ car \in [Car -> [pos : 0 .. ROAD_END + 1,
                      pc : {"gone", "look", "slow", "again", "tell", "delay"}]]
  /\ delayed \in Seq(Car)
  /\ mail \in [dir : Directions, kind : Kinds] \cup {NoMsg}
  /\ ctl \in [pc : {"get", "got", "receive", "close", "open"},
              state : {"IDLE", "BUSY", "DRAINING"}, dir : Directions \cup {Nobody},
              close : Directions \cup {Nobody}, open : Directions \cup {Nobody},
              cars : [Directions -> Count], in_road : Count, passed : 0 .. PASS_MAX]

(* The two directions are never in the stretch of one lane together, which *)
(* nothing but the counts of control prevents: each direction has cells of *)
(* its own there (camino.c:38).                                            *)
OneWay ==
  \A i, j \in Oneway : ~ (road["LEFTBOUND"][i] = CAR /\ road["RIGHTBOUND"][j] = CAR)

\* The cells a car has taken and not left.
Behind(c) == Pos(c) - 1
Occupies(c) ==
  CASE car[c].pc = "gone" -> {}
    [] car[c].pc = "delay" -> {Pos(c)}
    [] car[c].pc = "tell" -> {Behind(c), Pos(c)}
    [] OTHER -> {Behind(c)} \cap Cells

(* Each car has the cells it took to itself, and no barrier comes down on  *)
(* a car or goes up under one.                                             *)
CellsAgree ==
  /\ \A d \in Directions, i \in Cells :
       (road[d][i] = CAR) <=> \E c \in Car : Dir(c) = d /\ i \in Occupies(c)
  /\ \A c, e \in Car : c # e /\ Dir(c) = Dir(e) => Occupies(c) \cap Occupies(e) = {}

\* A car that has told control that it went by a sensor, in that control
\* has the message or will find it in the mailbox.
Told(c, i) ==
  /\ car[c].pc # "gone"
  /\ \/ Pos(c) > i
     \/ Pos(c) = i /\ (car[c].pc = "delay" \/ (program = "camino_ns" /\ At(c, "tell")))

Between(cars, i, j) == Cardinality({c \in cars : Told(c, i) /\ ~ Told(c, j)})

Unread(d, kind) == IF mail = [dir |-> d, kind |-> kind] THEN 1 ELSE 0

(* Control counts each car once at each sensor, whatever the order of the  *)
(* messages: its counts are the cars there are between two sensors, but    *)
(* for the message that it has still to read.                              *)
CountsAgree ==
  IF program = "camino"
  THEN \A d \in Directions :
         ctl.cars[d] + Unread(d, "IN") - Unread(d, "OUT") = Between(CarsOf(d), SENSOR1_POS, SENSOR2_POS)
  ELSE /\ \A d \in Directions :
            ctl.cars[d] + Unread(d, "IN") - Unread(d, "BARRIER") =
              Between(CarsOf(d), SENSOR1_POS, BARRIER_POS)
       /\ ctl.in_road + Unread("LEFTBOUND", "BARRIER") + Unread("RIGHTBOUND", "BARRIER")
            - Unread("LEFTBOUND", "OUT") - Unread("RIGHTBOUND", "OUT") =
              Between(Car, BARRIER_POS, SENSOR2_POS)

\* Control waits for the barrier cell of a line of cars, the first of which
\* waits for control to receive its message (camino_ns), whatever the
\* documentation says of deadlocks (doc/MTask.html:292-293).
CircularWait ==
  /\ ctl.pc = "close"
  /\ \E c \in CarsOf(ctl.close) :
       /\ car[c].pc = "tell" /\ ~ Runs(w, c)
       /\ Pos(c) >= BARRIER_POS /\ \A i \in BARRIER_POS .. Pos(c) : road[ctl.close][i] = CAR

(* The road moves: when no delay is running and nobody can go on, there is *)
(* no car on it, or control and a car wait for each other.                 *)
Flows ==
  Quiet /\ delayed = <<>> => (\A c \in Car : car[c].pc = "gone") \/ CircularWait

(* In camino_ns the side that waits gets the bridge, however many cars     *)
(* come the other way.  (In camino it may wait for ever.)                  *)
NoStarvation ==
  \A d \in Directions :
    (program = "camino_ns" /\ ctl.cars[d] > 0) ~> (ctl.dir = d \/ CircularWait)
=============================================================================
