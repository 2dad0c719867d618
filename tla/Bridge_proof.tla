---------------------------- MODULE Bridge_proof ----------------------------
(***************************************************************************)
(* The stretch of one lane is never used in both directions, for any road, *)
(* any number of cars and both programs; and what it rests on: the cells   *)
(* are those of the cars, and the counts of control are right.  From the   *)
(* same invariant: the counts are never negative, and the cars on the road *)
(* never all wait for each other, but for the one way in which control and *)
(* a car do.                                                               *)
(***************************************************************************)
EXTENDS Bridge, SyncState_proof, FiniteSetTheorems, WellFoundedInduction

CarPcs == {"gone", "look", "slow", "again", "tell", "delay"}
Messages == [dir : Directions, kind : Kinds]
Sensors == {SENSOR1_POS, BARRIER_POS, SENSOR2_POS}
Roads == [Directions -> [Cells -> {EMPTY, BARRIER, CAR}]]
Cars == [Car -> [pos : 0 .. ROAD_END + 1, pc : CarPcs]]
Controls_ ==
  [pc : {"get", "got", "receive", "close", "open"}, state : {"IDLE", "BUSY", "DRAINING"},
   dir : Directions \cup {Nobody}, close : Directions \cup {Nobody}, open : Directions \cup {Nobody},
   cars : [Directions -> Int], in_road : Int, passed : 0 .. PASS_MAX]

\* What is in the mail: in camino nobody tells of the barrier.
Posts == {m \in Messages : program = "camino" => m.kind # "BARRIER"}

Pc(c) == car[c].pc
Free(t) == where(w)[t] = {}

(* Who is slow or in its delay has still to wake up; and barriers are      *)
(* nowhere but at their cells.                                             *)
Asleep == \A c \in Car : Pc(c) \in {"slow", "delay"} => \E i \in DOMAIN delayed : delayed[i] = c
BarriersPlaced == \A d \in Directions, i \in Cells : road[d][i] = BARRIER => i = BARRIER_POS

(* The cars: where they are and what that says of their place in the loop. *)
CarsSound ==
  /\ program \in {"camino", "camino_ns"} /\ road \in Roads /\ car \in Cars /\ delayed \in Seq(Car)
  /\ \A c \in Car :
       /\ Pc(c) = "tell" => Tells(Pos(c)) # NoMsg
       /\ Pc(c) \in {"slow", "again", "delay"} => Pos(c) <= ROAD_END
  /\ NoRepetition(delayed)
  /\ \A i \in DOMAIN delayed : Pc(delayed[i]) \in {"slow", "delay"}
  /\ Asleep /\ BarriersPlaced

Typed == CarsSound /\ Linked(w) /\ mail \in Posts \cup {NoMsg} /\ ctl \in Controls_

(* Tasks wait where their place in the code says, and a message lies in    *)
(* the mailbox exactly when control has it to read.                        *)
Woken == {c \in Car : Pc(c) = "tell" /\ Free(c)}

MailboxAgrees ==
  /\ ctl.pc # "receive"
  /\ \A c \in Car : ~ Free(c) => where(w)[c] = {mail_empty} /\ Pc(c) = "tell"
  /\ ~ Free(control) => where(w)[control] = {mail_full} /\ ctl.pc = "got"
  /\ \A s \in Sem : w.value[s] <= 1
  /\ mail # NoMsg <=> w.value[mail_full] = 1 \/ (ctl.pc = "got" /\ Free(control))
  /\ w.value[mail_full] = 1 => ctl.pc # "got"
  /\ w.value[mail_empty] = 1 => mail = NoMsg /\ \A c \in Car : Pc(c) # "tell"
  /\ \A c, e \in Woken : c = e
  /\ Woken # {} => mail = NoMsg /\ w.value[mail_empty] = 0
  /\ w.value[mail_empty] = 0 => mail # NoMsg \/ Woken # {}

MessagesAgree ==
  /\ Free(control)
  /\ \A c \in Car : ~ Free(c) => where(w)[c] = {send_queue} /\ Pc(c) = "tell"
  /\ mail # NoMsg <=> ctl.pc = "got"
  /\ ctl.pc = "receive" => \A c \in Car : Free(c)
  /\ \A s \in Sem : w.value[s] <= 1

Letters ==
  /\ program = "camino" => MailboxAgrees
  /\ program = "camino_ns" => MessagesAgree

(* What control has decided and not done yet.                              *)
Planned ==
  /\ ctl.close # Nobody <=> ctl.pc = "close"
  /\ ctl.pc = "open" => ctl.open # Nobody
  /\ ctl.open # Nobody => ctl.pc \in {"close", "open"} /\ ctl.state = "BUSY" /\ ctl.dir = ctl.open
  /\ ctl.state = "IDLE" <=> ctl.dir = Nobody
  /\ ctl.close # Nobody => \/ ctl.state = "IDLE"
                           \/ ctl.state = "DRAINING" /\ ctl.dir = ctl.close
                           \/ ctl.open = Other(ctl.close)
  /\ program = "camino" => ctl.state # "DRAINING"

(* Whatever it has decided, control has not forgotten a direction in which *)
(* cars wait, unless it lets the other one in.                             *)
Settles(s, d, cars, in_road) ==
  /\ s = "IDLE" => \A x \in Directions : cars[x] <= 0
  /\ s = "BUSY" => cars[d] > 0 \/ (program = "camino_ns" /\ cars[Other(d)] <= 0)
  /\ s = "DRAINING" => in_road > 0 /\ cars[Other(d)] > 0
  /\ program = "camino" => in_road = 0

Settled == Settles(ctl.state, ctl.dir, ctl.cars, ctl.in_road)

(* A barrier is up when control's state says so, or when it is to close.   *)
LetIn(d) == ctl.close = d \/ (ctl.state = "BUSY" /\ ctl.dir = d /\ ctl.open # d)
BarriersAgree == \A d \in Directions : road[d][BARRIER_POS] # BARRIER <=> LetIn(d)

(* The cars from the barrier cell to the last one of the stretch.          *)
InZone(c) ==
  /\ Pc(c) # "gone"
  /\ \/ Pos(c) = BARRIER_POS /\ Pc(c) \in {"tell", "delay"}
     \/ BARRIER_POS < Pos(c) /\ Pos(c) < SENSOR2_POS
     \/ Pos(c) = SENSOR2_POS /\ Pc(c) # "delay"

(* In camino_ns: control knows that the car is off, and the car has not    *)
(* left the last cell yet.                                                 *)
Leaving(c) ==
  program = "camino_ns" /\ Pos(c) = SENSOR2_POS /\ Pc(c) = "tell" /\ Free(c)

Holds(d) == ctl.dir = d /\ ctl.state # "IDLE" /\ ctl.open # d

ZoneHeld ==
  \A c \in Car : InZone(c) => \/ Leaving(c) \/ Holds(Dir(c))
                              \/ (program = "camino_ns" /\ ctl.close = Dir(c))

(* While a barrier is being closed, those it has let in are through, and   *)
(* in camino nobody that is counted comes near it.                         *)
ClosesEmpty ==
  /\ program = "camino" => \A c \in Car :
        Dir(c) = ctl.close /\ Told(c, SENSOR1_POS) /\ ~ Told(c, SENSOR2_POS) =>
          Pos(c) = SENSOR1_POS /\ Pc(c) = "delay"
  /\ program = "camino_ns" /\ ctl.state # "DRAINING" => \A c \in Car :
        Dir(c) = ctl.close /\ Told(c, BARRIER_POS) => Told(c, SENSOR2_POS)

LeavesAlone ==
  \A c, e \in Car : Leaving(c) /\ InZone(e) /\ Dir(c) # Dir(e) => Pos(e) = BARRIER_POS

Zone == ZoneHeld /\ ClosesEmpty /\ LeavesAlone

(* Between two sensors, as far as control has been told.                   *)
Among(c, i, j) == Told(c, i) /\ ~ Told(c, j)

(* The sensors at which cars tell something.                               *)
Stops == {i \in Sensors : Tells(i) # NoMsg}

(* The message in the mailbox is of a car that has gone by a sensor and by *)
(* no other since; one that went by its barrier was let in.                *)
Passed(c, p) ==
  \A i, j \in Stops : i < j => /\ p = i => Among(c, i, j)
                               /\ p = j => ~ Among(c, i, j)

MailMeans ==
  mail # NoMsg =>
    /\ \E c \in Car, p \in Stops : Dir(c) = mail.dir /\ Tells(p) = mail.kind /\ Passed(c, p)
    /\ mail.kind = "BARRIER" => LetIn(mail.dir)

IInv ==
  /\ Typed /\ Letters /\ Planned /\ BarriersAgree /\ CellsAgree /\ CountsAgree /\ Zone
  /\ Settled /\ MailMeans

-----------------------------------------------------------------------------
(***************************************************************************)
(* The places of the road, in their order.                                 *)
(***************************************************************************)
LEMMA Places ==
  /\ SENSOR1_POS \in Int /\ BARRIER_POS \in Int /\ SENSOR2_POS \in Int /\ ROAD_END \in Nat
  /\ ONEWAY_START \in Int /\ ONEWAY_END \in Int
  /\ 0 < SENSOR1_POS /\ SENSOR1_POS < BARRIER_POS /\ BARRIER_POS + 1 = ONEWAY_START
  /\ ONEWAY_START <= ONEWAY_END /\ ONEWAY_END + 1 = SENSOR2_POS /\ SENSOR2_POS < ROAD_END
  /\ BARRIER_POS < SENSOR2_POS /\ PASS_MAX \in Nat
BY BridgeAssumption

(***************************************************************************)
(* The directions and what a cell holds.                                   *)
(***************************************************************************)
LEMMA Sides ==
  /\ \A c \in Car : Dir(c) \in Directions /\ c \in Task
  /\ \A d \in Directions : Other(d) \in Directions /\ Other(d) # d /\ d # Nobody
  /\ \A d, o \in Directions : d # o => o = Other(d)
  /\ EMPTY # CAR /\ BARRIER # CAR /\ EMPTY # BARRIER
  /\ Nobody \notin Directions
BY BridgeAssumption DEF Dir, Directions, Other, Nobody, EMPTY, CAR, BARRIER

(***************************************************************************)
(* A car has a place and a direction, which has its cells.                 *)
(***************************************************************************)
LEMMA CarFields ==
  ASSUME CarsSound, NEW c \in Car
  PROVE  /\ Pos(c) \in 0 .. ROAD_END + 1 /\ Pc(c) \in CarPcs /\ Dir(c) \in Directions
         /\ Pos(c) \in Int /\ 0 <= Pos(c) /\ Pos(c) <= ROAD_END + 1
         /\ car[c] = [pos |-> Pos(c), pc |-> Pc(c)]
         /\ road[Dir(c)] \in [Cells -> {EMPTY, BARRIER, CAR}]
<1>1. Pos(c) \in 0 .. ROAD_END + 1 /\ Pc(c) \in CarPcs /\ Dir(c) \in Directions
  BY Sides DEF CarsSound, Cars, Pos, Pc
<1>2. car[c] = [pos |-> Pos(c), pc |-> Pc(c)]
  BY DEF CarsSound, Cars, Pos, Pc
<1>3. road[Dir(c)] \in [Cells -> {EMPTY, BARRIER, CAR}]
  BY <1>1 DEF CarsSound, Roads
<1> QED BY <1>1, <1>2, <1>3, Places

(***************************************************************************)
(* A car that tells something is at a sensor.                              *)
(***************************************************************************)
LEMMA TellsAtSensor ==
  ASSUME NEW i \in Int, Tells(i) # NoMsg
  PROVE  /\ i \in Sensors /\ Tells(i) \in Kinds /\ 1 <= i /\ i < ROAD_END
         /\ i = SENSOR1_POS => Tells(i) = "IN"
         /\ i = BARRIER_POS => Tells(i) = "BARRIER" /\ program = "camino_ns"
         /\ i = SENSOR2_POS => Tells(i) = "OUT"
<1>1. i = SENSOR1_POS \/ (i = BARRIER_POS /\ program = "camino_ns") \/ i = SENSOR2_POS
  BY DEF Tells
<1> QED BY <1>1, Places DEF Tells, Sensors, Kinds

(***************************************************************************)
(* One car moves: it leaves cells that were its own and takes cells in     *)
(* which there was none.                                                   *)
(***************************************************************************)
LEMMA CellsChange ==
  ASSUME CellsAgree, NEW c \in Car,
         \A e \in Car : e # c => car'[e] = car[e],
         \A d \in Directions, i \in Cells : d # Dir(c) => (road'[d][i] = CAR <=> road[d][i] = CAR),
         \A i \in Cells : road'[Dir(c)][i] = CAR <=>
           i \in Occupies(c)' \/ (road[Dir(c)][i] = CAR /\ i \notin Occupies(c)),
         \A i \in Occupies(c)' : i \in Occupies(c) \/ (i \in Cells /\ road[Dir(c)][i] # CAR)
  PROVE  CellsAgree'
<1>1. \A e \in Car : e # c => Occupies(e)' = Occupies(e)
  BY DEF Occupies, Behind, Pos
<1> DEFINE o == Occupies(c)
           n == Occupies(c)'
           O(e) == IF e = c THEN n ELSE Occupies(e)
<1>2. \A e \in Car : Occupies(e)' = O(e)
  BY <1>1
<1>3. ASSUME NEW d \in Directions, NEW i \in Cells
      PROVE  road'[d][i] = CAR <=> \E e \in Car : Dir(e) = d /\ i \in O(e)
  <2>1. road[d][i] = CAR <=> \E e \in Car : Dir(e) = d /\ i \in Occupies(e)
    BY DEF CellsAgree
  <2>2. CASE d # Dir(c)
    BY <2>1, <2>2
  <2>3. CASE d = Dir(c)
    <3>1. CASE i \in n
      BY <2>3, <3>1
    <3>2. CASE i \notin n /\ i \in o
      <4>1. \A e \in Car : e # c /\ Dir(e) = d => i \notin Occupies(e)
        BY <2>3, <3>2 DEF CellsAgree
      <4> QED BY <2>3, <3>2, <4>1
    <3>3. CASE i \notin n /\ i \notin o
      BY <2>1, <2>3, <3>3
    <3> QED BY <3>1, <3>2, <3>3
  <2> QED BY <2>2, <2>3
<1>4. ASSUME NEW e \in Car, NEW f \in Car, e # f, Dir(e) = Dir(f), NEW i, i \in O(e), i \in O(f)
      PROVE  FALSE
  <2>1. ASSUME NEW g \in Car, g # c, Dir(g) = Dir(c), i \in n, i \in Occupies(g) PROVE FALSE
    <3>1. i \notin o
      BY <2>1 DEF CellsAgree
    <3>2. i \in Cells /\ road[Dir(c)][i] # CAR
      BY <2>1, <3>1
    <3> QED BY <2>1, <3>2, Sides DEF CellsAgree
  <2> QED BY <1>4, <2>1 DEF CellsAgree
<1>5. /\ \A d \in Directions, i \in Cells : road'[d][i] = CAR <=> \E e \in Car : Dir(e) = d /\ i \in Occupies(e)'
      /\ \A e, f \in Car : e # f /\ Dir(e) = Dir(f) => Occupies(e)' \cap Occupies(f)' = {}
  <2> HIDE DEF O
  <2> QED BY <1>2, <1>3, <1>4
<1> QED BY <1>5 DEF CellsAgree

(***************************************************************************)
(* A car is added to those in Delay.                                       *)
(***************************************************************************)
LEMMA DelayedMore ==
  ASSUME CarsSound, NEW c \in Car, Pc(c) \notin {"slow", "delay"}, delayed' = Append(delayed, c),
         Pc(c)' \in {"slow", "delay"}, \A e \in Car : e # c => Pc(e)' = Pc(e)
  PROVE  /\ delayed' \in Seq(Car) /\ NoRepetition(delayed')
         /\ \A i \in DOMAIN delayed' : car'[delayed'[i]].pc \in {"slow", "delay"}
         /\ Asleep'
<1> DEFINE n == Len(delayed)
<1>1. delayed \in Seq(Car) /\ NoRepetition(delayed) /\ n \in Nat /\ DOMAIN delayed = 1 .. n
  BY LenProperties DEF CarsSound
<1>2. /\ delayed' \in Seq(Car) /\ DOMAIN delayed' = 1 .. n + 1
      /\ \A i \in 1 .. n : delayed'[i] = delayed[i] /\ delayed[i] \in Car
      /\ delayed'[n + 1] = c
  BY <1>1, AppendProperties, ElementOfSeq, LenProperties
<1>3. \A i \in 1 .. n : delayed[i] # c /\ Pc(delayed[i]) \in {"slow", "delay"}
  BY <1>1 DEF CarsSound
<1> HIDE DEF n
<1>4. \A i \in 1 .. n + 1 : i \in 1 .. n \/ i = n + 1
  BY <1>1
<1>5. NoRepetition(delayed')
  BY <1>1, <1>2, <1>3, <1>4 DEF NoRepetition
<1>6. \A i \in 1 .. n : car'[delayed'[i]].pc \in {"slow", "delay"}
  BY <1>2, <1>3, ZenonT(40) DEF Pc
<1>7. \A i \in DOMAIN delayed' : car'[delayed'[i]].pc \in {"slow", "delay"}
  BY <1>1, <1>2, <1>4, <1>6 DEF Pc
<1>8. Asleep'
  <2> SUFFICES ASSUME NEW e \in Car, Pc(e)' \in {"slow", "delay"}
               PROVE  \E i \in DOMAIN delayed' : delayed'[i] = e
    BY DEF Asleep
  <2>1. CASE e = c
    <3>1. n + 1 \in 1 .. n + 1
      BY <1>1
    <3> QED BY <1>2, <2>1, <3>1
  <2>2. CASE e # c
    <3>1. PICK i \in 1 .. n : delayed[i] = e
      BY <1>1, <2>2 DEF CarsSound, Asleep
    <3>2. i \in 1 .. n + 1
      BY <1>1
    <3> QED BY <1>2, <3>1, <3>2
  <2> QED BY <2>1, <2>2
<1> QED BY <1>2, <1>5, <1>7, <1>8

-----------------------------------------------------------------------------
(* The car c, and nobody else, is now at p with its program counter at q.  *)
Moved(c, p, q) == car'[c] = [pos |-> p, pc |-> q] /\ \A e \in Car : e # c => car'[e] = car[e]

BarriersSame ==
  \A d \in Directions : road'[d][BARRIER_POS] = BARRIER <=> road[d][BARRIER_POS] = BARRIER

(***************************************************************************)
(* The cell a car takes.                                                   *)
(***************************************************************************)
LEMMA TakenCells ==
  ASSUME CarsSound, NEW c \in Car, Pos(c) \in Cells
  PROVE  /\ Taken(c) \in Roads
         /\ \A d \in Directions, i \in Cells :
              Taken(c)[d][i] = IF d = Dir(c) /\ i = Pos(c) THEN CAR ELSE road[d][i]
BY Sides DEF CarsSound, Taken, Roads

(***************************************************************************)
(* The cell it leaves.                                                     *)
(***************************************************************************)
LEMMA LeftCells ==
  ASSUME CarsSound, NEW c \in Car, NEW cells \in Roads
  PROVE  /\ LeftBehind(cells, c) \in Roads
         /\ \A d \in Directions, i \in Cells :
              LeftBehind(cells, c)[d][i] =
                IF d = Dir(c) /\ i = Pos(c) - 1 THEN EMPTY ELSE cells[d][i]
<1> DEFINE x == Dir(c)
           p == Pos(c)
           f == [i \in Cells |-> IF i = p - 1 THEN EMPTY ELSE cells[x][i]]
<1>1. x \in Directions /\ cells \in [Directions -> [Cells -> {EMPTY, BARRIER, CAR}]]
  BY CarFields DEF Roads
<1>2. LeftBehind(cells, c) = [cells EXCEPT ![x] = f]
  BY DEF LeftBehind
<1>3. f \in [Cells -> {EMPTY, BARRIER, CAR}] /\ \A i \in Cells : f[i] = IF i = p - 1 THEN EMPTY ELSE cells[x][i]
  BY <1>1
<1> HIDE DEF f, x, p
<1>4. [cells EXCEPT ![x] = f] \in Roads
  BY <1>1, <1>3 DEF Roads
<1>5. \A d \in Directions, i \in Cells :
        [cells EXCEPT ![x] = f][d][i] = IF d = x /\ i = p - 1 THEN EMPTY ELSE cells[d][i]
  BY <1>1, <1>3
<1> QED BY <1>2, <1>4, <1>5 DEF x, p

(***************************************************************************)
(* A move of one car leaves the others sound.                              *)
(***************************************************************************)
LEMMA MovedSound ==
  ASSUME CarsSound, NEW c \in Car, NEW p \in 0 .. ROAD_END + 1, NEW q \in CarPcs,
         car' = [car EXCEPT ![c] = [pos |-> p, pc |-> q]], program' = program, road' \in Roads,
         \A d \in Directions, i \in Cells : road'[d][i] = BARRIER => road[d][i] = BARRIER,
         q = "tell" => Tells(p) # NoMsg,
         q \in {"slow", "again", "delay"} => p <= ROAD_END,
         Pc(c) \notin {"slow", "delay"},
         \/ delayed' = delayed /\ q \notin {"slow", "delay"}
         \/ q \in {"slow", "delay"} /\ delayed' = Append(delayed, c)
  PROVE  CarsSound' /\ Moved(c, p, q)
<1>1. car' \in Cars /\ Moved(c, p, q)
  BY DEF CarsSound, Cars, Moved
<1>2. Pc(c)' = q /\ Pos(c)' = p /\ \A e \in Car : e # c => Pc(e)' = Pc(e) /\ Pos(e)' = Pos(e)
  BY <1>1 DEF Moved, Pc, Pos
<1>3. \A i : Tells(i)' = Tells(i)
  BY DEF Tells
<1>4. ASSUME NEW e \in Car
      PROVE  /\ Pc(e)' = "tell" => (Tells(Pos(e)) # NoMsg)'
             /\ Pc(e)' \in {"slow", "again", "delay"} => Pos(e)' <= ROAD_END
  BY <1>2, <1>3 DEF CarsSound, Tells
<1>5. /\ delayed' \in Seq(Car) /\ NoRepetition(delayed')
      /\ \A i \in DOMAIN delayed' : car'[delayed'[i]].pc \in {"slow", "delay"}
      /\ Asleep'
  <2>1. CASE delayed' = delayed /\ q \notin {"slow", "delay"}
    <3>1. delayed \in Seq(Car) /\ NoRepetition(delayed)
      BY DEF CarsSound
    <3>2. \A i \in DOMAIN delayed : delayed[i] \in Car /\ Pc(delayed[i]) \in {"slow", "delay"}
      BY <3>1, ElementOfSeq, LenProperties DEF CarsSound
    <3>3. \A i \in DOMAIN delayed : car'[delayed[i]].pc \in {"slow", "delay"}
      BY <1>2, <3>2 DEF Pc
    <3>4. Asleep'
      BY <1>2, <2>1 DEF CarsSound, Asleep
    <3> QED BY <2>1, <3>1, <3>3, <3>4
  <2>2. CASE q \in {"slow", "delay"} /\ delayed' = Append(delayed, c)
    BY <1>2, <2>2, DelayedMore
  <2> QED BY <2>1, <2>2
<1>6. \A e \in Car : Pc(e)' = "tell" => (Tells(Pos(e)) # NoMsg)'
  BY <1>4
<1>7. \A e \in Car : Pc(e)' \in {"slow", "again", "delay"} => Pos(e)' <= ROAD_END
  BY <1>4
<1>8. BarriersPlaced'
  BY DEF CarsSound, BarriersPlaced
<1> QED BY <1>1, <1>5, <1>6, <1>7, <1>8 DEF CarsSound, Pc, Pos

(* What a car's step does on the road.                                     *)
CarStep(c, p, q) == CarsSound' /\ CellsAgree' /\ Moved(c, p, q) /\ BarriersSame

(***************************************************************************)
(* A car goes on in its loop without moving.                               *)
(***************************************************************************)
LEMMA PcChanges ==
  ASSUME CarsSound, NEW c \in Car, NEW q
  PROVE  [car EXCEPT ![c].pc = q] = [car EXCEPT ![c] = [pos |-> Pos(c), pc |-> q]]
<1>1. car[c] = [pos |-> Pos(c), pc |-> Pc(c)]
  BY CarFields
<1>2. [car[c] EXCEPT !.pc = q] = [pos |-> Pos(c), pc |-> q]
  BY <1>1
<1> QED BY <1>2

(***************************************************************************)
(* A cell of the road that a car may take, and what it has already.        *)
(***************************************************************************)
LEMMA MayTakeCell ==
  ASSUME CarsSound, NEW c \in Car, MayTake(c)
  PROVE  /\ Pos(c) \in Cells /\ Pos(c) \in 0 .. ROAD_END + 1 /\ Pos(c) <= ROAD_END
         /\ road[Dir(c)][Pos(c)] = EMPTY /\ Pc(c) \in {"look", "again"}
         /\ Occupies(c) = {Pos(c) - 1} \cap Cells
<1>1. Pos(c) <= ROAD_END /\ road[Dir(c)][Pos(c)] = EMPTY /\ Pc(c) \in {"look", "again"}
  BY DEF MayTake, At, Cell, Pc
<1>2. Pos(c) \in Cells /\ Pos(c) \in 0 .. ROAD_END + 1
  <2>1. Pos(c) \in 0 .. ROAD_END + 1 /\ Pos(c) \in Int /\ 0 <= Pos(c) /\ ROAD_END \in Nat
    BY CarFields, Places
  <2> QED BY <1>1, <2>1 DEF Cells
<1> QED BY <1>1, <1>2 DEF Occupies, Behind, Pc

(***************************************************************************)
(* A car takes the next cell and leaves the one it was in.                 *)
(***************************************************************************)
LEMMA TakesStep ==
  ASSUME CarsSound, CellsAgree, NEW c \in Car, MayTake(c), Drives(c, Taken(c)), program' = program
  PROVE  CarStep(c, Pos(c), "delay")
<1> DEFINE x == Dir(c)
           p == Pos(c)
<1>1. /\ p \in Cells /\ p \in 0 .. ROAD_END + 1 /\ p <= ROAD_END /\ p \in Int /\ x \in Directions
      /\ road[x][p] = EMPTY /\ Pc(c) \in {"look", "again"} /\ Occupies(c) = {p - 1} \cap Cells
  BY MayTakeCell, CarFields
<1>2. /\ road' \in Roads
      /\ \A d \in Directions, i \in Cells :
           road'[d][i] = IF d = x /\ i = p - 1 THEN EMPTY
                         ELSE IF d = x /\ i = p THEN CAR ELSE road[d][i]
  <2> DEFINE t == Taken(c)
  <2>1. t \in Roads /\ \A d \in Directions, i \in Cells :
                         t[d][i] = IF d = x /\ i = p THEN CAR ELSE road[d][i]
    BY <1>1, TakenCells
  <2>2. road' = LeftBehind(t, c)
    BY DEF Drives
  <2> HIDE DEF t
  <2> QED BY <2>1, <2>2, LeftCells
<1>3. car' = [car EXCEPT ![c] = [pos |-> p, pc |-> "delay"]] /\ delayed' = Append(delayed, c)
  BY PcChanges DEF Drives
<1>4. CarsSound' /\ Moved(c, p, "delay")
  <2>1. \A d \in Directions, i \in Cells : road'[d][i] = BARRIER => road[d][i] = BARRIER
    BY <1>2, Sides
  <2> QED BY <1>1, <1>2, <1>3, <2>1, MovedSound DEF CarPcs
<1>5. Occupies(c)' = {p}
  BY <1>4 DEF Moved, Occupies, Pos
<1> HIDE DEF x, p
<1>6. p # p - 1
  BY <1>1
<1>7. CellsAgree'
  <2>1. \A e \in Car : e # c => car'[e] = car[e]
    BY <1>4 DEF Moved
  <2>2. \A d \in Directions, i \in Cells : d # Dir(c) => (road'[d][i] = CAR <=> road[d][i] = CAR)
    BY <1>2 DEF x
  <2>3. \A i \in Cells : road'[x][i] = CAR <=> i \in Occupies(c)' \/ (road[x][i] = CAR /\ i \notin Occupies(c))
    BY <1>1, <1>2, <1>5, <1>6, Sides
  <2>4. \A i \in Occupies(c)' : i \in Cells /\ road[x][i] # CAR
    BY <1>1, <1>5, Sides
  <2> QED BY <2>1, <2>2, <2>3, <2>4, CellsChange DEF x
<1>8. BarriersSame
  <2>1. BARRIER_POS \in Cells
    BY Places DEF Cells
  <2>2. p - 1 \in Cells => road[x][p - 1] = CAR
    BY <1>1 DEF CellsAgree, x
  <2> QED BY <1>1, <1>2, <2>1, <2>2, Sides DEF BarriersSame
<1> QED BY <1>4, <1>7, <1>8 DEF CarStep, p

(***************************************************************************)
(* A car takes the next cell and waits before it leaves the one it was in. *)
(***************************************************************************)
LEMMA WaitsStep ==
  ASSUME CarsSound, CellsAgree, NEW c \in Car, MayTake(c), Tells(Pos(c)) # NoMsg, WaitsToTell(c),
         program' = program
  PROVE  CarStep(c, Pos(c), "tell")
<1> DEFINE x == Dir(c)
           p == Pos(c)
<1>1. /\ p \in Cells /\ p \in 0 .. ROAD_END + 1 /\ p <= ROAD_END /\ p \in Int /\ x \in Directions
      /\ road[x][p] = EMPTY /\ Pc(c) \in {"look", "again"} /\ Occupies(c) = {p - 1} \cap Cells
  BY MayTakeCell, CarFields
<1>2. /\ road' \in Roads
      /\ \A d \in Directions, i \in Cells : road'[d][i] = IF d = x /\ i = p THEN CAR ELSE road[d][i]
  BY <1>1, TakenCells DEF WaitsToTell
<1>3. car' = [car EXCEPT ![c] = [pos |-> p, pc |-> "tell"]] /\ delayed' = delayed
  BY PcChanges DEF WaitsToTell
<1>4. CarsSound' /\ Moved(c, p, "tell")
  <2>1. \A d \in Directions, i \in Cells : road'[d][i] = BARRIER => road[d][i] = BARRIER
    BY <1>2, Sides
  <2> QED BY <1>1, <1>2, <1>3, <2>1, MovedSound DEF CarPcs
<1>5. 1 <= p
  BY <1>1, TellsAtSensor
<1>6. Occupies(c)' = {p - 1, p} /\ Occupies(c) = {p - 1} /\ p - 1 \in Cells
  <2>1. p - 1 \in Cells
    BY <1>1, <1>5, Places DEF Cells
  <2>2. car'[c].pc = "tell" /\ car'[c].pos = p
    BY <1>4 DEF Moved
  <2>3. Occupies(c)' = {p - 1, p}
    BY <2>2 DEF Occupies, Pos, Behind
  <2> QED BY <1>1, <2>1, <2>3
<1> HIDE DEF x, p
<1>7. CellsAgree'
  <2>1. \A e \in Car : e # c => car'[e] = car[e]
    BY <1>4 DEF Moved
  <2>2. \A d \in Directions, i \in Cells : d # Dir(c) => (road'[d][i] = CAR <=> road[d][i] = CAR)
    BY <1>2 DEF x
  <2>3. road[x][p - 1] = CAR
    BY <1>1, <1>6 DEF CellsAgree, x
  <2>4. \A i \in Cells : road'[x][i] = CAR <=> i \in Occupies(c)' \/ (road[x][i] = CAR /\ i \notin Occupies(c))
    BY <1>1, <1>2, <1>6, <2>3, Sides
  <2>5. \A i \in Occupies(c)' : i \in Occupies(c) \/ (i \in Cells /\ road[x][i] # CAR)
    BY <1>1, <1>6, Sides
  <2> QED BY <2>1, <2>2, <2>4, <2>5, CellsChange DEF x
<1>8. BarriersSame
  <2>1. BARRIER_POS \in Cells
    BY Places DEF Cells
  <2> QED BY <1>1, <1>2, <2>1, Sides DEF BarriersSame
<1> QED BY <1>4, <1>7, <1>8 DEF CarStep, p

(***************************************************************************)
(* A car that has told control leaves the cell behind.                     *)
(***************************************************************************)
LEMMA LeavesStep ==
  ASSUME CarsSound, CellsAgree, NEW c \in Car, Pc(c) = "tell", Drives(c, road), program' = program
  PROVE  CarStep(c, Pos(c), "delay")
<1> DEFINE x == Dir(c)
           p == Pos(c)
<1>1. p \in 0 .. ROAD_END + 1 /\ p \in Int /\ x \in Directions
  BY CarFields
<1>2. 1 <= p /\ p < ROAD_END
  BY <1>1, TellsAtSensor DEF CarsSound
<1>3. p \in Cells /\ p - 1 \in Cells /\ p # p - 1
  BY <1>1, <1>2, Places DEF Cells
<1>4. /\ road' \in Roads
      /\ \A d \in Directions, i \in Cells : road'[d][i] = IF d = x /\ i = p - 1 THEN EMPTY ELSE road[d][i]
  <2>1. road \in Roads
    BY DEF CarsSound
  <2> QED BY <2>1, LeftCells DEF Drives
<1>5. car' = [car EXCEPT ![c] = [pos |-> p, pc |-> "delay"]] /\ delayed' = Append(delayed, c)
  BY PcChanges DEF Drives
<1>6. CarsSound' /\ Moved(c, p, "delay")
  <2>1. p <= ROAD_END
    BY <1>1, <1>2, Places
  <2>2. "delay" \in CarPcs /\ Pc(c) \notin {"slow", "delay"}
    BY DEF CarPcs
  <2>3. \A d \in Directions, i \in Cells : road'[d][i] = BARRIER => road[d][i] = BARRIER
    BY <1>4, Sides
  <2> QED BY <1>1, <1>4, <1>5, <2>1, <2>2, <2>3, MovedSound
<1>7. Occupies(c)' = {p} /\ Occupies(c) = {p - 1, p}
  BY <1>6 DEF Moved, Occupies, Pos, Pc, Behind
<1>8. road[x][p] = CAR /\ road[x][p - 1] = CAR
  BY <1>1, <1>3, <1>7 DEF CellsAgree
<1> HIDE DEF x, p
<1>9. CellsAgree'
  <2>1. \A e \in Car : e # c => car'[e] = car[e]
    BY <1>6 DEF Moved
  <2>2. \A d \in Directions, i \in Cells : d # Dir(c) => (road'[d][i] = CAR <=> road[d][i] = CAR)
    BY <1>4 DEF x
  <2>3. \A i \in Cells : road'[x][i] = CAR <=> i \in Occupies(c)' \/ (road[x][i] = CAR /\ i \notin Occupies(c))
    BY <1>1, <1>3, <1>4, <1>7, <1>8, Sides
  <2>4. \A i \in Occupies(c)' : i \in Occupies(c)
    BY <1>7
  <2> QED BY <2>1, <2>2, <2>3, <2>4, CellsChange DEF x
<1>10. BarriersSame
  <2>1. BARRIER_POS \in Cells
    BY Places DEF Cells
  <2> QED BY <1>3, <1>4, <1>8, <2>1, Sides DEF BarriersSame
<1> QED BY <1>6, <1>9, <1>10 DEF CarStep, p

(***************************************************************************)
(* A car comes to the road.                                                *)
(***************************************************************************)
LEMMA EntersStep ==
  ASSUME CarsSound, CellsAgree, NEW d \in Directions, send_car(d)
  PROVE  \E c \in Car : Pc(c) = "gone" /\ CarStep(c, 0, "look")
<1>1. PICK c \in {e \in CarsOf(d) : car[e].pc = "gone"} :
        car' = [car EXCEPT ![c] = [pos |-> 0, pc |-> "look"]]
  BY DEF send_car
<1>2. /\ c \in Car /\ Pc(c) = "gone"
      /\ car' = [car EXCEPT ![c] = [pos |-> 0, pc |-> "look"]]
      /\ program' = program /\ road' = road /\ delayed' = delayed
  BY <1>1 DEF send_car, CarsOf, Pc
<1>3. CarsSound' /\ Moved(c, 0, "look")
  <2>1. 0 \in 0 .. ROAD_END + 1 /\ "look" \in CarPcs /\ road' \in Roads
    BY <1>2, Places DEF CarPcs, CarsSound
  <2> DEFINE p == 0
  <2> HIDE DEF p
  <2>2. p \in 0 .. ROAD_END + 1 /\ car' = [car EXCEPT ![c] = [pos |-> p, pc |-> "look"]]
    BY <1>2, <2>1 DEF p
  <2>3. CarsSound' /\ Moved(c, p, "look")
    BY <1>2, <2>1, <2>2, MovedSound
  <2> QED BY <2>3 DEF p
<1>4. Occupies(c) = {} /\ Occupies(c)' = {}
  <2>1. Occupies(c) = {}
    BY <1>2 DEF Occupies, Pc
  <2>2. car'[c].pc = "look" /\ car'[c].pos = 0
    BY <1>3 DEF Moved
  <2>3. Occupies(c)' = {car'[c].pos - 1} \cap Cells
    BY <2>2 DEF Occupies, Pos, Behind
  <2>4. car'[c].pos - 1 \notin Cells
    BY <2>2, Places DEF Cells
  <2> QED BY <2>1, <2>3, <2>4
<1>5. CellsAgree'
  <2>1. \A e \in Car : e # c => car'[e] = car[e]
    BY <1>3 DEF Moved
  <2>2. \A i \in Cells : road'[Dir(c)][i] = CAR <=>
          i \in Occupies(c)' \/ (road[Dir(c)][i] = CAR /\ i \notin Occupies(c))
    BY <1>2, <1>4
  <2>3. \A i \in Occupies(c)' : i \in Occupies(c)
    BY <1>4
  <2> QED BY <1>2, <2>1, <2>2, <2>3, CellsChange
<1> QED BY <1>2, <1>3, <1>5 DEF CarStep, BarriersSame

(***************************************************************************)
(* A car slows down.                                                       *)
(***************************************************************************)
LEMMA SlowsStep ==
  ASSUME CarsSound, CellsAgree, NEW c \in Car, Slow(c)
  PROVE  Pc(c) = "look" /\ CarStep(c, Pos(c), "slow")
<1>1. Pc(c) = "look" /\ Pos(c) <= ROAD_END /\ Pos(c) \in 0 .. ROAD_END + 1
  BY CarFields DEF Slow, MaySlow, At, Pc
<1>2. /\ car' = [car EXCEPT ![c] = [pos |-> Pos(c), pc |-> "slow"]]
      /\ program' = program /\ road' = road /\ delayed' = Append(delayed, c) /\ road' \in Roads
  BY PcChanges DEF Slow, CarsSound
<1>3. CarsSound' /\ Moved(c, Pos(c), "slow")
  BY <1>1, <1>2, MovedSound DEF CarPcs
<1>4. Occupies(c)' = Occupies(c) /\ Occupies(c) \subseteq Cells
  BY <1>1, <1>3 DEF Moved, Occupies, Pos, Pc, Behind
<1>5. CellsAgree'
  <2>1. \A i \in Cells : i \in Occupies(c) => road[Dir(c)][i] = CAR
    BY Sides DEF CellsAgree
  <2> QED BY <1>1, <1>2, <1>3, <1>4, <2>1, CellsChange DEF Moved
<1> QED BY <1>1, <1>2, <1>3, <1>5 DEF CarStep, BarriersSame

(***************************************************************************)
(* A car is off the road.                                                  *)
(***************************************************************************)
LEMMA FinishStep ==
  ASSUME CarsSound, CellsAgree, NEW c \in Car, Finish(c)
  PROVE  Pc(c) = "look" /\ Pos(c) = ROAD_END + 1 /\ CarStep(c, 0, "gone")
<1> DEFINE x == Dir(c)
<1>1. Pc(c) = "look" /\ Pos(c) = ROAD_END + 1 /\ x \in Directions
  <2>1. Pos(c) \in Int /\ Pos(c) <= ROAD_END + 1 /\ ROAD_END \in Nat /\ x \in Directions
    BY CarFields, Places
  <2>2. Pc(c) = "look" /\ Pos(c) > ROAD_END
    BY DEF Finish, At, Pc
  <2> QED BY <2>1, <2>2
<1>2. /\ car' = [car EXCEPT ![c] = [pos |-> 0, pc |-> "gone"]]
      /\ program' = program /\ delayed' = delayed /\ road' = [road EXCEPT ![x][ROAD_END] = EMPTY]
  BY DEF Finish
<1>3. ROAD_END \in Cells /\ BARRIER_POS \in Cells /\ BARRIER_POS # ROAD_END
  BY Places DEF Cells
<1>4. /\ road' \in Roads
      /\ \A d \in Directions, i \in Cells : road'[d][i] = IF d = x /\ i = ROAD_END THEN EMPTY ELSE road[d][i]
  BY <1>1, <1>2, <1>3 DEF CarsSound, Roads
<1>5. CarsSound' /\ Moved(c, 0, "gone")
  <2>1. 0 \in 0 .. ROAD_END + 1 /\ "gone" \in CarPcs
    BY Places DEF CarPcs
  <2> DEFINE p == 0
  <2> HIDE DEF p
  <2>2. p \in 0 .. ROAD_END + 1 /\ car' = [car EXCEPT ![c] = [pos |-> p, pc |-> "gone"]]
    BY <1>2, <2>1 DEF p
  <2>3. \A d \in Directions, i \in Cells : road'[d][i] = BARRIER => road[d][i] = BARRIER
    BY <1>4, Sides
  <2>4. CarsSound' /\ Moved(c, p, "gone")
    BY <1>1, <1>2, <1>4, <2>1, <2>2, <2>3, MovedSound
  <2> QED BY <2>4 DEF p
<1>6. Occupies(c)' = {} /\ Occupies(c) = {ROAD_END}
  BY <1>1, <1>3, <1>5, Places DEF Moved, Occupies, Pos, Pc, Behind, Cells
<1> HIDE DEF x
<1>7. CellsAgree'
  <2>1. \A e \in Car : e # c => car'[e] = car[e]
    BY <1>5 DEF Moved
  <2>2. \A d \in Directions, i \in Cells : d # Dir(c) => (road'[d][i] = CAR <=> road[d][i] = CAR)
    BY <1>4 DEF x
  <2>3. \A i \in Cells : road'[x][i] = CAR <=> i \in Occupies(c)' \/ (road[x][i] = CAR /\ i \notin Occupies(c))
    BY <1>1, <1>3, <1>4, <1>6, Sides
  <2>4. \A i \in Occupies(c)' : i \in Occupies(c)
    BY <1>6
  <2> QED BY <2>1, <2>2, <2>3, <2>4, CellsChange DEF x
<1>8. BarriersSame
  BY <1>3, <1>4 DEF BarriersSame
<1> QED BY <1>1, <1>5, <1>7, <1>8 DEF CarStep

-----------------------------------------------------------------------------
(* No car passes a sensor in a step, or the car c does.                    *)
StagesSame ==
  \A e \in Car, i, j \in Stops : i < j => (Among(e, i, j)' <=> Among(e, i, j))

StagesPass(c) ==
  /\ Pos(c) \in Stops
  /\ \A e \in Car, i, j \in Stops : e # c /\ i < j => (Among(e, i, j)' <=> Among(e, i, j))
  /\ \A i, j \in Stops : i < j => /\ Among(c, i, j) <=> i < Pos(c) /\ Pos(c) <= j
                                  /\ Among(c, i, j)' <=> i <= Pos(c) /\ Pos(c) < j

(* The others do not move, and in camino_ns are not woken either.          *)
OthersStay(c) ==
  \A e \in Car : e # c => /\ car'[e] = car[e]
                          /\ program = "camino_ns" => (Free(e)' <=> Free(e))

(***************************************************************************)
(* What it is to have told control that one went by a sensor.              *)
(***************************************************************************)
LEMMA ToldMeans ==
  ASSUME NEW c \in Car, NEW i
  PROVE  /\ Told(c, i) <=>
              /\ Pc(c) # "gone"
              /\ \/ Pos(c) > i
                 \/ Pos(c) = i /\ (Pc(c) = "delay" \/ (program = "camino_ns" /\ Pc(c) = "tell" /\ Free(c)))
         /\ Told(c, i)' <=>
              /\ Pc(c)' # "gone"
              /\ \/ Pos(c)' > i
                 \/ Pos(c)' = i /\ (Pc(c)' = "delay" \/ (program' = "camino_ns" /\ Pc(c)' = "tell" /\ Free(c)'))
<1>1. (Runs(w, c) <=> Free(c)) /\ (Runs(w', c) <=> Free(c)')
  BY Sides, RunsNowhere DEF Free
<1> QED BY <1>1 DEF Told, At, Pc, Pos

(***************************************************************************)
(* A car that does not move passes no sensor.                              *)
(***************************************************************************)
LEMMA OthersTold ==
  ASSUME NEW c, OthersStay(c), program' = program, NEW e \in Car, e # c, NEW i
  PROVE  Told(e, i)' <=> Told(e, i)
BY ToldMeans DEF OthersStay, Pc, Pos

(***************************************************************************)
(* The sensors are integers.                                               *)
(***************************************************************************)
LEMMA StopsAre ==
  /\ Stops \subseteq Sensors /\ Stops \subseteq Int
  /\ program = "camino_ns" => Stops = Sensors
  /\ program = "camino" => Stops = {SENSOR1_POS, SENSOR2_POS}
  /\ program' = program => Stops' = Stops
<1>1. NoMsg \notin {"IN", "BARRIER", "OUT"}
  BY NoMsgAssumption DEF Kinds
<1>2. /\ SENSOR1_POS \in Int /\ BARRIER_POS \in Int /\ SENSOR2_POS \in Int
      /\ SENSOR1_POS # BARRIER_POS /\ SENSOR1_POS # SENSOR2_POS /\ BARRIER_POS # SENSOR2_POS
  BY Places
<1>3. Tells(SENSOR1_POS) = "IN" /\ Tells(SENSOR2_POS) = "OUT"
  BY <1>2 DEF Tells
<1>4. program = "camino_ns" => Tells(BARRIER_POS) = "BARRIER"
  BY <1>2 DEF Tells
<1>5. program = "camino" => Tells(BARRIER_POS) = NoMsg
  BY <1>2 DEF Tells
<1>6. program' = program => \A i : Tells(i)' = Tells(i)
  BY DEF Tells
<1>7. program' = program => Stops' = Stops
  BY <1>6 DEF Stops, Sensors, Tells
<1>8. Stops \subseteq Sensors /\ Sensors \subseteq Int
  BY <1>2 DEF Stops, Sensors
<1> QED BY <1>1, <1>3, <1>4, <1>5, <1>7, <1>8 DEF Stops, Sensors

(***************************************************************************)
(* A car that moves on without telling anything passes no sensor, nor does *)
(* one that is off the road or not yet on it.                              *)
(***************************************************************************)
LEMMA CarPasses ==
  ASSUME CarsSound, NEW c \in Car, NEW p \in Int, NEW q, Moved(c, p, q), OthersStay(c), program' = program,
         \A i, j \in Stops : i < j => (Among(c, i, j)' <=> Among(c, i, j))
  PROVE  StagesSame
<1>1. \A e \in Car : \A i : e # c => (Told(e, i)' <=> Told(e, i))
  BY OthersTold
<1> QED BY <1>1 DEF StagesSame, Among

(***************************************************************************)
(* Told at a sensor, a car has passed it.                                  *)
(***************************************************************************)
LEMMA CarTells ==
  ASSUME CarsSound, NEW c \in Car, NEW q, Moved(c, Pos(c), q), OthersStay(c), program' = program,
         NEW p, p = Pos(c), Tells(p) # NoMsg, ~ Told(c, p), Told(c, p)', Pc(c) # "gone"
  PROVE  StagesPass(c)
<1>1. p \in Int /\ p \in Stops
  BY CarFields, TellsAtSensor DEF Stops
<1>2. Pos(c)' = p /\ Pc(c)' # "gone"
  BY ToldMeans DEF Moved, Pos
<1>3. ASSUME NEW i \in Stops
      PROVE  (Told(c, i) <=> i < p) /\ (Told(c, i)' <=> i <= p)
  <2>1. i \in Int
    BY StopsAre
  <2>2. CASE i = p
    BY <1>1, <2>1, <2>2
  <2>3. CASE i # p
    <3>1. Told(c, i) <=> Pos(c) > i
      BY <2>3, ToldMeans
    <3>2. Told(c, i)' <=> Pos(c)' > i
      BY <1>2, <2>3, ToldMeans
    <3> QED BY <1>1, <1>2, <2>1, <2>3, <3>1, <3>2
  <2> QED BY <2>2, <2>3
<1>4. \A i, j \in Stops : i < j => /\ Among(c, i, j) <=> i < p /\ p <= j
                                   /\ Among(c, i, j)' <=> i <= p /\ p < j
  BY <1>1, <1>3, StopsAre DEF Among
<1>5. \A e \in Car : \A i : e # c => (Told(e, i)' <=> Told(e, i))
  BY OthersTold
<1>6. \A e \in Car, i, j \in Stops : e # c /\ i < j => (Among(e, i, j)' <=> Among(e, i, j))
  BY <1>5 DEF Among
<1> QED BY <1>1, <1>4, <1>6 DEF StagesPass

(***************************************************************************)
(* The number of cars between two sensors, when none passes them.          *)
(***************************************************************************)
LEMMA BetweenSame ==
  ASSUME StagesSame, NEW X \in SUBSET Car, NEW i \in Stops, NEW j \in Stops, i < j
  PROVE  Between(X, i, j)' = Between(X, i, j)
<1>1. \A e \in X : Among(e, i, j)' <=> Among(e, i, j)
  BY DEF StagesSame
<1>2. {e \in X : Told(e, i) /\ ~ Told(e, j)}' = {e \in X : Told(e, i) /\ ~ Told(e, j)}
  BY <1>1 DEF Among
<1> QED BY <1>2 DEF Between

(***************************************************************************)
(* The number of cars between two sensors, when one passes a sensor.       *)
(***************************************************************************)
LEMMA BetweenPass ==
  ASSUME NEW c \in Car, Pos(c) \in Int, StagesPass(c),
         NEW X \in SUBSET Car, NEW i \in Stops, NEW j \in Stops, i < j
  PROVE  /\ Between(X, i, j) \in Nat /\ Between(X, i, j)' \in Nat
         /\ c \in X /\ Pos(c) = i => Between(X, i, j)' = Between(X, i, j) + 1
         /\ c \in X /\ Pos(c) = j => Between(X, i, j)' = Between(X, i, j) - 1
         /\ c \notin X \/ (Pos(c) # i /\ Pos(c) # j) => Between(X, i, j)' = Between(X, i, j)
<1> DEFINE S == {e \in X : Told(e, i) /\ ~ Told(e, j)}
           T == {e \in X : Told(e, i)' /\ ~ Told(e, j)'}
           p == Pos(c)
<1>1. IsFiniteSet(S) /\ IsFiniteSet(T)
  BY BridgeAssumption, FS_Subset
<1>2. Between(X, i, j) = Cardinality(S) /\ Between(X, i, j)' = Cardinality(T)
  BY DEF Between
<1>3. \A e \in X : e # c => (e \in S <=> e \in T)
  BY DEF StagesPass, Among
<1>4. (c \in S <=> c \in X /\ i < p /\ p <= j) /\ (c \in T <=> c \in X /\ i <= p /\ p < j)
  BY DEF StagesPass, Among
<1>5. S \subseteq X /\ T \subseteq X /\ i \in Int /\ j \in Int /\ p \in Int
  BY StopsAre
<1> HIDE DEF S, T, p
<1>6. CASE c \in X /\ p = i
  <2>1. T = S \cup {c} /\ c \notin S
    BY <1>3, <1>4, <1>5, <1>6
  <2> QED BY <1>1, <1>2, <1>5, <1>6, <2>1, FS_AddElement, FS_CardinalityType DEF p
<1>7. CASE c \in X /\ p = j
  <2>1. T = S \ {c} /\ c \in S
    BY <1>3, <1>4, <1>5, <1>7
  <2> QED BY <1>1, <1>2, <1>5, <1>7, <2>1, FS_RemoveElement, FS_CardinalityType DEF p
<1>8. CASE c \notin X \/ (p # i /\ p # j)
  <2>1. T = S
    BY <1>3, <1>4, <1>5, <1>8
  <2> QED BY <1>1, <1>2, <1>8, <2>1, FS_CardinalityType DEF p
<1> QED BY <1>6, <1>7, <1>8 DEF p

-----------------------------------------------------------------------------
(* A signal of s makes e of v: it is counted, or a task that waits is      *)
(* woken.                                                                  *)
Gives(v, e, s) ==
  /\ Linked(e)
  /\ \/ /\ e.value = [v.value EXCEPT ![s] = @ + 1] /\ where(e) = where(v)
        /\ \A t \in Task : where(v)[t] # {s}
     \/ /\ e.value = v.value
        /\ \E u \in Task : where(v)[u] = {s} /\ where(e) = [where(v) EXCEPT ![u] = {}]

(***************************************************************************)
(* SignalSem, after a wait whose status is read.                           *)
(***************************************************************************)
LEMMA SignalGives ==
  ASSUME NEW v, Linked(v), NEW s \in Sem, NEW c \in Task
  PROVE  Gives(v, Returned(SignalSem(v, s), c), s)
<1> DEFINE x == SignalSem(v, s)
           e == Returned(x, c)
<1>1. Raises(v, x, s) \/ \E u \in Task : Wakes(v, x, u, s, TRUE)
  BY SignalSemEffect
<1>2. Linked(x)
  BY <1>1 DEF Raises, Wakes, Stays
<1> HIDE DEF x
<1>3. Linked(e) /\ where(e) = where(x) /\ e.value = x.value
  BY <1>2, ReturnedEffect DEF Stays
<1> HIDE DEF e
<1>4. ASSUME Raises(v, x, s) PROVE Gives(v, e, s)
  BY <1>3, <1>4 DEF Gives, Raises, Stays
<1>5. ASSUME NEW u \in Task, Wakes(v, x, u, s, TRUE) PROVE Gives(v, e, s)
  BY <1>3, <1>5 DEF Gives, Wakes
<1> QED BY <1>1, <1>4, <1>5 DEF x, e

(***************************************************************************)
(* The two semaphores of the mailbox.                                      *)
(***************************************************************************)
LEMMA Mailboxes ==
  /\ mail_empty \in Sem /\ mail_full \in Sem /\ mail_empty # mail_full /\ {mail_empty} # {mail_full}
  /\ mail_empty \in Queue /\ mail_full \in Queue /\ send_queue \in Queue
  /\ \A s \in Sem : s = mail_empty \/ s = mail_full
  /\ control \in Task /\ control \notin Car /\ \A t \in Task : t \in Car \/ t = control
  /\ {mail_empty} # {} /\ {mail_full} # {} /\ {send_queue} # {}
  /\ FOREVER \in Waits /\ FOREVER # 0
BY BridgeAssumption, SyncStateAssumption DEF Queue, Waits

(***************************************************************************)
(* The counts of the semaphores are numbers.                               *)
(***************************************************************************)
LEMMA MailCounts ==
  ASSUME NEW v, Linked(v)
  PROVE  /\ v.value[mail_empty] \in Nat /\ v.value[mail_full] \in Nat /\ v.value \in [Sem -> Nat]
         /\ where(v) \in [Task -> SUBSET Queue]
BY Mailboxes, RecordsFields DEF Linked, where

(***************************************************************************)
(* Nobody in a queue moves, nor does the mailbox.                          *)
(***************************************************************************)
LEMMA MailStays ==
  ASSUME MailboxAgrees, w' = w, mail' = mail,
         \A e \in Car : Pc(e)' = "tell" <=> Pc(e) = "tell",
         ctl'.pc # "receive", ctl'.pc = "got" <=> ctl.pc = "got"
  PROVE  MailboxAgrees'
<1>1. \A t : Free(t)' <=> Free(t)
  BY DEF Free
<1>2. Woken' = Woken
  BY <1>1 DEF Woken
<1> QED BY <1>1, <1>2 DEF MailboxAgrees

(***************************************************************************)
(* A message is put in the mailbox.                                        *)
(***************************************************************************)
LEMMA MailPut ==
  ASSUME MailboxAgrees, Linked(w), mail = NoMsg, mail' # NoMsg, ctl' = ctl,
         NEW v, Linked(v), where(v) = where(w), v.value[mail_full] = w.value[mail_full],
         v.value[mail_empty] = 0, Gives(v, w', mail_full),
         NEW c \in Car, Free(c), NEW p, Moved(c, p, "delay"),
         \A e \in Car : e # c => e \notin Woken
  PROVE  MailboxAgrees' /\ Linked(w') /\ \A e \in Car : Free(e)' <=> Free(e)
<1>1. /\ w.value[mail_full] = 0 /\ ~ (ctl.pc = "got" /\ Free(control))
      /\ v.value[mail_full] = 0 /\ Linked(w')
  BY MailCounts, Mailboxes DEF MailboxAgrees, Gives
<1>2. \A e \in Car : Free(e)' <=> Free(e)
  <2>1. \A e \in Car : where(w)[e] # {mail_full}
    BY Mailboxes DEF MailboxAgrees, Free
  <2>2. \A e \in Car : where(w')[e] = where(w)[e]
    BY <2>1, Sides, MailCounts DEF Gives
  <2> QED BY <2>2 DEF Free
<1>3. /\ \A e \in Car : e # c => Pc(e)' = Pc(e)
      /\ Pc(c)' = "delay"
  BY DEF Moved, Pc
<1>4. Woken' = {}
  BY <1>2, <1>3 DEF Woken
<1>5. \A e \in Car : ~ Free(e)' => where(w')[e] = {mail_empty} /\ Pc(e)' = "tell"
  <2>1. \A e \in Car : where(w)[e] # {mail_full}
    BY Mailboxes DEF MailboxAgrees, Free
  <2>2. \A e \in Car : where(w')[e] = where(w)[e]
    BY <2>1, Sides, MailCounts DEF Gives
  <2> QED BY <1>2, <1>3, <2>2 DEF MailboxAgrees, Free
<1>6. CASE w'.value = [v.value EXCEPT ![mail_full] = @ + 1] /\ where(w') = where(w)
           /\ \A t \in Task : where(w)[t] # {mail_full}
  <2>1. Free(control) /\ Free(control)'
    BY <1>6, Mailboxes DEF MailboxAgrees, Free
  <2>2. w'.value[mail_full] = 1 /\ w'.value[mail_empty] = 0
    BY <1>1, <1>6, Mailboxes, MailCounts
  <2>3. \A s \in Sem : w'.value[s] <= 1
    BY <2>2, Mailboxes
  <2> QED BY <1>1, <1>2, <1>4, <1>5, <2>1, <2>2, <2>3 DEF MailboxAgrees
<1>7. CASE w'.value = v.value
           /\ \E u \in Task : where(w)[u] = {mail_full} /\ where(w') = [where(w) EXCEPT ![u] = {}]
  <2>1. where(w)[control] = {mail_full} /\ where(w')[control] = {}
    BY <1>7, Mailboxes, MailCounts DEF MailboxAgrees, Free
  <2>2. ctl.pc = "got" /\ Free(control)'
    BY <2>1, Mailboxes DEF MailboxAgrees, Free
  <2>3. w'.value[mail_full] = 0 /\ w'.value[mail_empty] = 0
    BY <1>1, <1>7
  <2>4. \A s \in Sem : w'.value[s] <= 1
    BY <2>3, Mailboxes
  <2> QED BY <1>1, <1>2, <1>4, <1>5, <2>2, <2>3, <2>4 DEF MailboxAgrees
<1> QED BY <1>1, <1>2, <1>6, <1>7 DEF Gives

(***************************************************************************)
(* A car waits until the mailbox is empty.                                 *)
(***************************************************************************)
LEMMA MailAsked ==
  ASSUME MailboxAgrees, Linked(w), mail' = mail, ctl' = ctl, w.value[mail_empty] = 0,
         NEW c \in Car, Free(c), Pc(c) # "tell", NEW p, Moved(c, p, "tell"), Joins(w, w', c, mail_empty)
  PROVE  MailboxAgrees' /\ Linked(w')
<1>1. /\ Linked(w') /\ w'.value = w.value
      /\ where(w')[c] = {mail_empty} /\ \A t \in Task : t # c => where(w')[t] = where(w)[t]
  BY Sides, MailCounts DEF Joins
<1>2. ~ Free(c)' /\ \A t \in Task : t # c => (Free(t)' <=> Free(t))
  BY <1>1, Mailboxes DEF Free
<1>3. Pc(c)' = "tell" /\ \A e \in Car : e # c => Pc(e)' = Pc(e)
  BY DEF Moved, Pc
<1>4. Woken' = Woken
  BY <1>2, <1>3, Sides DEF Woken
<1>5. \A e \in Car : ~ Free(e)' => where(w')[e] = {mail_empty} /\ Pc(e)' = "tell"
  BY <1>1, <1>2, <1>3, Sides DEF MailboxAgrees
<1>6. (Free(control)' <=> Free(control)) /\ where(w')[control] = where(w)[control]
  BY <1>1, <1>2, Mailboxes
<1> QED BY <1>1, <1>4, <1>5, <1>6 DEF MailboxAgrees

(***************************************************************************)
(* Control asks for a message.                                             *)
(***************************************************************************)
LEMMA MailWaited ==
  ASSUME MailboxAgrees, Linked(w), WaitMsg
  PROVE  MailboxAgrees' /\ Linked(w') /\ \A e \in Car : Free(e)' <=> Free(e)
<1>1. Free(control) /\ ctl.pc = "get" /\ mail' = mail /\ ctl'.pc = "got" /\ car' = car
  <2>1. ctl'.pc = "got"
    BY DEF WaitMsg
  <2> QED BY <2>1, Mailboxes, RunsNowhere DEF WaitMsg, Controls, Free
<1>2. Passes(w, w', control, mail_full)
      \/ (w.value[mail_full] = 0 /\ Joins(w, w', control, mail_full))
  BY <1>1, Mailboxes, WaitSemEffect DEF WaitMsg, Free
<1>3. Linked(w') /\ \A e \in Car : where(w')[e] = where(w)[e]
  BY <1>2, Sides, Mailboxes, MailCounts DEF Passes, Stays, Joins
<1>4. (\A e \in Car : Free(e)' <=> Free(e)) /\ \A e \in Car : Pc(e)' = Pc(e)
  BY <1>1, <1>3 DEF Free, Pc
<1>5. Woken' = Woken
  BY <1>4 DEF Woken
<1>6. CASE Passes(w, w', control, mail_full)
  <2>1. /\ where(w') = where(w) /\ w.value[mail_full] = 1 /\ w'.value[mail_full] = 0
        /\ w'.value[mail_empty] = w.value[mail_empty]
    BY <1>6, Mailboxes, MailCounts DEF Passes, Stays, MailboxAgrees
  <2>2. Free(control)' /\ mail # NoMsg
    BY <1>1, <2>1 DEF Free, MailboxAgrees
  <2>3. \A s \in Sem : w'.value[s] <= 1
    BY <2>1, Mailboxes DEF MailboxAgrees
  <2> QED BY <1>1, <1>3, <1>4, <1>5, <2>1, <2>2, <2>3 DEF MailboxAgrees
<1>7. CASE w.value[mail_full] = 0 /\ Joins(w, w', control, mail_full)
  <2>1. w'.value = w.value /\ where(w')[control] = {mail_full}
    BY <1>7, Mailboxes, MailCounts DEF Joins
  <2>2. ~ Free(control)' /\ mail = NoMsg
    BY <1>1, <1>7, <2>1, Mailboxes DEF Free, MailboxAgrees
  <2> QED BY <1>1, <1>3, <1>4, <1>5, <1>7, <2>1, <2>2 DEF MailboxAgrees
<1> QED BY <1>2, <1>3, <1>4, <1>6, <1>7

(***************************************************************************)
(* Control reads the message.                                              *)
(***************************************************************************)
LEMMA MailRead ==
  ASSUME MailboxAgrees, Linked(w), GetMsg, ctl'.pc \notin {"got", "receive"}
  PROVE  MailboxAgrees' /\ Linked(w') /\ mail # NoMsg
<1>1. Free(control) /\ ctl.pc = "got" /\ mail' = NoMsg /\ car' = car
  BY Mailboxes, RunsNowhere DEF GetMsg, Controls, Free
<1>2. Gives(w, w', mail_empty)
  BY Mailboxes, SignalGives DEF GetMsg
<1>3. mail # NoMsg /\ w.value[mail_full] = 0 /\ w.value[mail_empty] = 0 /\ Woken = {}
  BY <1>1, MailCounts, Mailboxes DEF MailboxAgrees
<1>4. \A e \in Car : Pc(e)' = Pc(e)
  BY <1>1 DEF Pc
<1>5. Linked(w')
  BY <1>2 DEF Gives
<1>6. CASE w'.value = [w.value EXCEPT ![mail_empty] = @ + 1] /\ where(w') = where(w)
           /\ \A t \in Task : where(w)[t] # {mail_empty}
  <2>1. \A t \in Task : Free(t)' <=> Free(t)
    BY <1>6 DEF Free
  <2>2. \A e \in Car : Free(e) /\ Pc(e) # "tell"
    BY <1>3, <1>6, Sides DEF MailboxAgrees, Woken
  <2>3. Woken' = {}
    BY <1>4, <2>2 DEF Woken
  <2>4. w'.value[mail_empty] = 1 /\ w'.value[mail_full] = 0
    BY <1>3, <1>6, Mailboxes, MailCounts
  <2>5. \A s \in Sem : w'.value[s] <= 1
    BY <2>4, Mailboxes
  <2> QED BY <1>1, <1>3, <1>4, <1>5, <2>1, <2>2, <2>3, <2>4, <2>5, Sides, Mailboxes DEF MailboxAgrees
<1>7. CASE w'.value = w.value
           /\ \E u \in Task : where(w)[u] = {mail_empty} /\ where(w') = [where(w) EXCEPT ![u] = {}]
  <2>1. PICK u \in Task : where(w)[u] = {mail_empty} /\ where(w') = [where(w) EXCEPT ![u] = {}]
    BY <1>7
  <2>2. where(w')[u] = {} /\ \A t \in Task : t # u => where(w')[t] = where(w)[t]
    BY <2>1, MailCounts
  <2>3. u # control
    BY <1>1, <2>1, Mailboxes DEF Free
  <2>4. Free(control)'
    BY <1>1, <2>2, <2>3, Mailboxes DEF Free
  <2>5. Woken' \subseteq {u}
    BY <1>3, <1>4, <2>2, Sides DEF Woken, Free
  <2>6. \A e \in Car : ~ Free(e)' => where(w')[e] = {mail_empty} /\ Pc(e)' = "tell"
    BY <1>4, <2>2, Sides DEF MailboxAgrees, Free
  <2>9. u \in Woken'
    <3>1. u \in Car /\ ~ Free(u)
      BY <2>1, <2>3, Mailboxes DEF Free
    <3> QED BY <1>4, <2>2, <3>1 DEF MailboxAgrees, Woken, Free
  <2>7. w'.value[mail_empty] = 0 /\ w'.value[mail_full] = 0
    BY <1>3, <1>7
  <2>8. \A s \in Sem : w'.value[s] <= 1
    BY <2>7, Mailboxes
  <2> QED BY <1>1, <1>3, <1>5, <2>4, <2>5, <2>6, <2>7, <2>8, <2>9 DEF MailboxAgrees
<1> QED BY <1>2, <1>3, <1>5, <1>6, <1>7 DEF Gives

-----------------------------------------------------------------------------
(***************************************************************************)
(* What a car tells is a message.                                          *)
(***************************************************************************)
LEMMA MessageFields ==
  ASSUME CarsSound, NEW c \in Car, Tells(Pos(c)) # NoMsg
  PROVE  /\ Message(c) \in Posts /\ Message(c) # NoMsg
         /\ Message(c).dir = Dir(c) /\ Message(c).kind = Tells(Pos(c))
<1>1. Tells(Pos(c)) \in Kinds /\ Dir(c) \in Directions /\ (Tells(Pos(c)) = "BARRIER" => program = "camino_ns")
  BY CarFields, TellsAtSensor DEF Sensors
<1>2. Message(c) \in Messages /\ Message(c).dir = Dir(c) /\ Message(c).kind = Tells(Pos(c))
  BY <1>1 DEF Message, Messages
<1> QED BY <1>1, <1>2, NoMsgAssumption DEF Posts, Messages

(***************************************************************************)
(* The counts after a message.                                             *)
(***************************************************************************)
LEMMA CountedFields ==
  ASSUME NEW k \in Controls_, NEW m \in Messages, program \in {"camino", "camino_ns"}
  PROVE  /\ Counted(k, m) \in Controls_
         /\ Counted(k, m).state = k.state /\ Counted(k, m).dir = k.dir
         /\ \A d \in Directions :
              Counted(k, m).cars[d] =
                IF d # m.dir THEN k.cars[d]
                ELSE IF m.kind = "IN" THEN k.cars[d] + 1
                ELSE IF m.kind = "BARRIER" \/ program = "camino" THEN k.cars[d] - 1
                ELSE k.cars[d]
         /\ Counted(k, m).in_road =
              IF m.kind = "BARRIER" THEN k.in_road + 1
              ELSE IF m.kind = "OUT" /\ program = "camino_ns" THEN k.in_road - 1
              ELSE k.in_road
<1> DEFINE n == Counted(k, m)
           d == m.dir
<1>1. /\ d \in Directions /\ m.kind \in {"IN", "BARRIER", "OUT"}
      /\ k.cars \in [Directions -> Int] /\ k.in_road \in Int /\ k.passed \in 0 .. PASS_MAX /\ PASS_MAX \in Nat
  BY Places DEF Messages, Kinds, Controls_
<1>2. CASE m.kind = "IN"
  <2> DEFINE f == [k.cars EXCEPT ![d] = @ + 1]
  <2>1. n = [k EXCEPT !.cars = f]
    BY <1>1, <1>2 DEF Counted, Controls_
  <2>2. f \in [Directions -> Int] /\ \A e \in Directions : f[e] = IF e # d THEN k.cars[e] ELSE k.cars[e] + 1
    BY <1>1
  <2> HIDE DEF f
  <2>3. n \in Controls_ /\ n.cars = f /\ n.in_road = k.in_road /\ n.state = k.state /\ n.dir = k.dir
    BY <2>1, <2>2 DEF Controls_
  <2> QED BY <1>2, <2>2, <2>3
<1>3. CASE m.kind = "BARRIER"
  <2> DEFINE f == [k.cars EXCEPT ![d] = @ - 1]
             r == k.in_road + 1
             x == IF k.passed < PASS_MAX THEN k.passed + 1 ELSE k.passed
  <2>1. n = [k EXCEPT !.cars = f, !.in_road = r, !.passed = x]
    BY <1>1, <1>3 DEF Counted, Controls_
  <2>2. /\ f \in [Directions -> Int] /\ \A e \in Directions : f[e] = IF e # d THEN k.cars[e] ELSE k.cars[e] - 1
        /\ r \in Int /\ x \in 0 .. PASS_MAX
    BY <1>1
  <2> HIDE DEF f, x
  <2>3. n \in Controls_ /\ n.cars = f /\ n.in_road = r /\ n.state = k.state /\ n.dir = k.dir
    BY <2>1, <2>2 DEF Controls_
  <2> QED BY <1>3, <2>2, <2>3
<1>4. CASE m.kind = "OUT" /\ program = "camino"
  <2> DEFINE f == [k.cars EXCEPT ![d] = @ - 1]
  <2>1. n = [k EXCEPT !.cars = f]
    BY <1>1, <1>4 DEF Counted, Controls_
  <2>2. f \in [Directions -> Int] /\ \A e \in Directions : f[e] = IF e # d THEN k.cars[e] ELSE k.cars[e] - 1
    BY <1>1
  <2> HIDE DEF f
  <2>3. n \in Controls_ /\ n.cars = f /\ n.in_road = k.in_road /\ n.state = k.state /\ n.dir = k.dir
    BY <2>1, <2>2 DEF Controls_
  <2> QED BY <1>4, <2>2, <2>3
<1>5. CASE m.kind = "OUT" /\ program = "camino_ns"
  <2> DEFINE r == k.in_road - 1
  <2>1. n = [k EXCEPT !.in_road = r]
    BY <1>1, <1>5 DEF Counted, Controls_
  <2>2. r \in Int
    BY <1>1
  <2>3. n \in Controls_ /\ n.cars = k.cars /\ n.in_road = r /\ n.state = k.state /\ n.dir = k.dir
    BY <2>1, <2>2 DEF Controls_
  <2> QED BY <1>5, <2>3
<1> QED BY <1>1, <1>2, <1>3, <1>4, <1>5

(***************************************************************************)
(* The sensors of each program.                                            *)
(***************************************************************************)
LEMMA SensorsInStops ==
  /\ program = "camino" => SENSOR1_POS \in Stops /\ SENSOR2_POS \in Stops
  /\ program = "camino_ns" => SENSOR1_POS \in Stops /\ BARRIER_POS \in Stops /\ SENSOR2_POS \in Stops
  /\ SENSOR1_POS < SENSOR2_POS /\ SENSOR1_POS < BARRIER_POS /\ BARRIER_POS < SENSOR2_POS
BY StopsAre, Places DEF Sensors

(***************************************************************************)
(* When nobody passes a sensor, the counts stay right.                     *)
(***************************************************************************)
LEMMA CountsSame ==
  ASSUME CarsSound, CountsAgree, StagesSame, program' = program, mail' = mail,
         ctl'.cars = ctl.cars, ctl'.in_road = ctl.in_road
  PROVE  CountsAgree'
<1>1. \A d \in Directions : CarsOf(d) \in SUBSET Car /\ Car \in SUBSET Car
  BY DEF CarsOf
<1>2. \A d, kind : Unread(d, kind)' = Unread(d, kind)
  BY DEF Unread
<1>3. CASE program = "camino"
  <2>1. \A d \in Directions : Between(CarsOf(d), SENSOR1_POS, SENSOR2_POS)' = Between(CarsOf(d), SENSOR1_POS, SENSOR2_POS)
    BY <1>1, <1>3, SensorsInStops, BetweenSame
  <2> QED BY <1>2, <1>3, <2>1 DEF CountsAgree
<1>4. CASE program = "camino_ns"
  <2>1. /\ \A d \in Directions : Between(CarsOf(d), SENSOR1_POS, BARRIER_POS)' = Between(CarsOf(d), SENSOR1_POS, BARRIER_POS)
        /\ Between(Car, BARRIER_POS, SENSOR2_POS)' = Between(Car, BARRIER_POS, SENSOR2_POS)
    BY <1>1, <1>4, SensorsInStops, BetweenSame
  <2> QED BY <1>2, <1>4, <2>1 DEF CountsAgree
<1> QED BY <1>3, <1>4 DEF CarsSound

(***************************************************************************)
(* What is unread is the message in the mailbox.                           *)
(***************************************************************************)
LEMMA UnreadIs ==
  ASSUME NEW d \in Directions, NEW kind \in Kinds
  PROVE  /\ mail = NoMsg => Unread(d, kind) = 0
         /\ mail \in Messages => Unread(d, kind) = IF d = mail.dir /\ kind = mail.kind THEN 1 ELSE 0
         /\ mail' = NoMsg => Unread(d, kind)' = 0
         /\ mail' \in Messages => Unread(d, kind)' = IF d = mail'.dir /\ kind = mail'.kind THEN 1 ELSE 0
<1>1. [dir |-> d, kind |-> kind] \in Messages
  BY DEF Messages
<1>2. [dir |-> d, kind |-> kind] # NoMsg
  BY <1>1, NoMsgAssumption DEF Messages
<1>3. \A m \in Messages : m = [dir |-> d, kind |-> kind] <=> d = m.dir /\ kind = m.kind
  BY DEF Messages
<1> QED BY <1>2, <1>3 DEF Unread

(***************************************************************************)
(* A message that is read moves from the mailbox to the counts.            *)
(***************************************************************************)
LEMMA CountsRead ==
  ASSUME Typed, CountsAgree, StagesSame, program' = program, mail # NoMsg, mail' = NoMsg,
         ctl'.cars = Counted(ctl, mail).cars, ctl'.in_road = Counted(ctl, mail).in_road
  PROVE  CountsAgree'
<1> DEFINE n == Counted(ctl, mail)
<1>1. /\ mail \in Messages /\ mail.dir \in Directions /\ mail.kind \in {"IN", "BARRIER", "OUT"}
      /\ program = "camino" => mail.kind # "BARRIER"
      /\ ctl \in Controls_ /\ program \in {"camino", "camino_ns"}
  BY DEF Typed, Posts, Messages, Kinds, CarsSound
<1>2. \A d \in Directions, kind \in Kinds :
        /\ Unread(d, kind) = IF d = mail.dir /\ kind = mail.kind THEN 1 ELSE 0
        /\ Unread(d, kind)' = 0
  BY <1>1, UnreadIs
<1>3. /\ \A d \in Directions :
           n.cars[d] = IF d # mail.dir THEN ctl.cars[d]
                       ELSE IF mail.kind = "IN" THEN ctl.cars[d] + 1
                       ELSE IF mail.kind = "BARRIER" \/ program = "camino" THEN ctl.cars[d] - 1
                       ELSE ctl.cars[d]
      /\ n.in_road = IF mail.kind = "BARRIER" THEN ctl.in_road + 1
                     ELSE IF mail.kind = "OUT" /\ program = "camino_ns" THEN ctl.in_road - 1
                     ELSE ctl.in_road
  BY <1>1, CountedFields
<1>4. \A d \in Directions : CarsOf(d) \in SUBSET Car /\ Car \in SUBSET Car
  BY DEF CarsOf
<1>5. /\ \A d \in Directions : ctl.cars[d] \in Int
      /\ ctl.in_road \in Int /\ "LEFTBOUND" \in Directions /\ "RIGHTBOUND" \in Directions
      /\ "IN" \in Kinds /\ "BARRIER" \in Kinds /\ "OUT" \in Kinds
      /\ \A d \in Directions : d = "LEFTBOUND" \/ d = "RIGHTBOUND"
  BY <1>1 DEF Controls_, Directions, Kinds
<1> HIDE DEF n
<1>6. ctl'.cars = n.cars /\ ctl'.in_road = n.in_road
  BY DEF n
<1>7. CASE program = "camino"
  <2>1. \A d \in Directions : Between(CarsOf(d), SENSOR1_POS, SENSOR2_POS)' = Between(CarsOf(d), SENSOR1_POS, SENSOR2_POS)
    BY <1>4, <1>7, SensorsInStops, BetweenSame
  <2>2. ASSUME NEW d \in Directions
        PROVE  ctl'.cars[d] + Unread(d, "IN")' - Unread(d, "OUT")' = Between(CarsOf(d), SENSOR1_POS, SENSOR2_POS)
    <3>1. ctl.cars[d] + Unread(d, "IN") - Unread(d, "OUT") = Between(CarsOf(d), SENSOR1_POS, SENSOR2_POS)
      BY <1>7 DEF CountsAgree
    <3>2. n.cars[d] = ctl.cars[d] + Unread(d, "IN") - Unread(d, "OUT")
      BY <1>1, <1>2, <1>3, <1>5, <1>7
    <3>3. Unread(d, "IN")' = 0 /\ Unread(d, "OUT")' = 0 /\ n.cars[d] \in Int
      BY <1>1, <1>2, <1>3, <1>5
    <3> QED BY <1>6, <3>1, <3>2, <3>3
  <2> QED BY <1>7, <2>1, <2>2 DEF CountsAgree
<1>8. CASE program = "camino_ns"
  <2>1. /\ \A d \in Directions : Between(CarsOf(d), SENSOR1_POS, BARRIER_POS)' = Between(CarsOf(d), SENSOR1_POS, BARRIER_POS)
        /\ Between(Car, BARRIER_POS, SENSOR2_POS)' = Between(Car, BARRIER_POS, SENSOR2_POS)
    BY <1>4, <1>8, SensorsInStops, BetweenSame
  <2>2. ASSUME NEW d \in Directions
        PROVE  ctl'.cars[d] + Unread(d, "IN")' - Unread(d, "BARRIER")' = Between(CarsOf(d), SENSOR1_POS, BARRIER_POS)
    <3>1. ctl.cars[d] + Unread(d, "IN") - Unread(d, "BARRIER") = Between(CarsOf(d), SENSOR1_POS, BARRIER_POS)
      BY <1>8 DEF CountsAgree
    <3>2. n.cars[d] = ctl.cars[d] + Unread(d, "IN") - Unread(d, "BARRIER")
      BY <1>1, <1>2, <1>3, <1>5, <1>8
    <3>3. Unread(d, "IN")' = 0 /\ Unread(d, "BARRIER")' = 0 /\ n.cars[d] \in Int
      BY <1>1, <1>2, <1>3, <1>5
    <3> QED BY <1>6, <3>1, <3>2, <3>3
  <2> DEFINE Road == ctl.in_road + Unread("LEFTBOUND", "BARRIER") + Unread("RIGHTBOUND", "BARRIER")
                       - Unread("LEFTBOUND", "OUT") - Unread("RIGHTBOUND", "OUT")
  <2>3. n.in_road = Road /\ n.in_road \in Int
    BY <1>1, <1>2, <1>3, <1>5, <1>8
  <2>4. /\ Unread("LEFTBOUND", "BARRIER")' = 0 /\ Unread("RIGHTBOUND", "BARRIER")' = 0
        /\ Unread("LEFTBOUND", "OUT")' = 0 /\ Unread("RIGHTBOUND", "OUT")' = 0
    BY <1>2, <1>5
  <2>5. Road = Between(Car, BARRIER_POS, SENSOR2_POS)
    BY <1>8 DEF CountsAgree
  <2>6. Road' = Between(Car, BARRIER_POS, SENSOR2_POS)
    BY <1>6, <2>3, <2>4, <2>5
  <2> QED BY <1>8, <2>1, <2>2, <2>6 DEF CountsAgree
<1> QED BY <1>1, <1>7, <1>8

(***************************************************************************)
(* A car that passes a sensor is in the message it puts in the mailbox.    *)
(***************************************************************************)
LEMMA CountsPosted ==
  ASSUME Typed, CountsAgree, NEW c \in Car, Tells(Pos(c)) # NoMsg, StagesPass(c), program' = program,
         mail = NoMsg, mail' = Message(c), ctl'.cars = ctl.cars, ctl'.in_road = ctl.in_road
  PROVE  CountsAgree'
<1> DEFINE p == Pos(c)
           x == Dir(c)
           k == Tells(Pos(c))
<1>1. /\ mail' \in Messages /\ mail'.dir = x /\ mail'.kind = k /\ program \in {"camino", "camino_ns"}
      /\ p \in Int /\ x \in Directions /\ p \in Sensors
      /\ p = SENSOR1_POS => k = "IN"
      /\ p = BARRIER_POS => k = "BARRIER" /\ program = "camino_ns"
      /\ p = SENSOR2_POS => k = "OUT"
  BY MessageFields, CarFields, TellsAtSensor DEF Typed, Posts, CarsSound
<1>2. \A d \in Directions, kind \in Kinds :
        /\ Unread(d, kind) = 0
        /\ Unread(d, kind)' = IF d = x /\ kind = k THEN 1 ELSE 0
  BY <1>1, UnreadIs
<1>3. /\ \A d \in Directions : ctl.cars[d] \in Int
      /\ ctl.in_road \in Int /\ "LEFTBOUND" \in Directions /\ "RIGHTBOUND" \in Directions
      /\ "IN" \in Kinds /\ "BARRIER" \in Kinds /\ "OUT" \in Kinds
      /\ \A d \in Directions : d = "LEFTBOUND" \/ d = "RIGHTBOUND"
  BY DEF Typed, Controls_, Directions, Kinds
<1>4. \A d \in Directions : CarsOf(d) \in SUBSET Car /\ Car \in SUBSET Car /\ (c \in CarsOf(d) <=> d = x)
  BY DEF CarsOf
<1>5. p = SENSOR1_POS \/ p = BARRIER_POS \/ p = SENSOR2_POS
  BY <1>1 DEF Sensors
<1>6. CASE program = "camino"
  <2>1. ASSUME NEW d \in Directions
        PROVE  LET a == Between(CarsOf(d), SENSOR1_POS, SENSOR2_POS)
                   b == Between(CarsOf(d), SENSOR1_POS, SENSOR2_POS)'
               IN  /\ a \in Nat /\ b \in Nat
                   /\ d = x /\ p = SENSOR1_POS => b = a + 1
                   /\ d = x /\ p = SENSOR2_POS => b = a - 1
                   /\ d # x => b = a
    BY <1>1, <1>4, <1>6, SensorsInStops, BetweenPass
  <2>2. ASSUME NEW d \in Directions
        PROVE  ctl'.cars[d] + Unread(d, "IN")' - Unread(d, "OUT")' = Between(CarsOf(d), SENSOR1_POS, SENSOR2_POS)'
    <3>1. ctl.cars[d] = Between(CarsOf(d), SENSOR1_POS, SENSOR2_POS)
      BY <1>2, <1>3, <1>6 DEF CountsAgree
    <3> QED BY <1>1, <1>2, <1>3, <1>5, <1>6, <2>1, <3>1, SensorsInStops
  <2> QED BY <1>6, <2>2 DEF CountsAgree
<1>7. CASE program = "camino_ns"
  <2>1. ASSUME NEW d \in Directions
        PROVE  LET a == Between(CarsOf(d), SENSOR1_POS, BARRIER_POS)
                   b == Between(CarsOf(d), SENSOR1_POS, BARRIER_POS)'
               IN  /\ a \in Nat /\ b \in Nat
                   /\ d = x /\ p = SENSOR1_POS => b = a + 1
                   /\ d = x /\ p = BARRIER_POS => b = a - 1
                   /\ d # x \/ p = SENSOR2_POS => b = a
    BY <1>1, <1>4, <1>7, SensorsInStops, BetweenPass
  <2>2. ASSUME NEW d \in Directions
        PROVE  ctl'.cars[d] + Unread(d, "IN")' - Unread(d, "BARRIER")' = Between(CarsOf(d), SENSOR1_POS, BARRIER_POS)'
    <3>1. ctl.cars[d] = Between(CarsOf(d), SENSOR1_POS, BARRIER_POS)
      BY <1>2, <1>3, <1>7 DEF CountsAgree
    <3> QED BY <1>1, <1>2, <1>3, <1>5, <2>1, <3>1, SensorsInStops
  <2> DEFINE a == Between(Car, BARRIER_POS, SENSOR2_POS)
             Road == ctl.in_road + Unread("LEFTBOUND", "BARRIER") + Unread("RIGHTBOUND", "BARRIER")
                       - Unread("LEFTBOUND", "OUT") - Unread("RIGHTBOUND", "OUT")
  <2>3. /\ a \in Nat /\ a' \in Nat
        /\ p = SENSOR1_POS => a' = a
        /\ p = BARRIER_POS => a' = a + 1
        /\ p = SENSOR2_POS => a' = a - 1
    BY <1>1, <1>4, <1>7, SensorsInStops, BetweenPass
  <2>4. Road = a
    BY <1>7 DEF CountsAgree
  <2>5. Road = ctl.in_road
    BY <1>2, <1>3
  <2> HIDE DEF a
  <2>6. Road' = a'
    BY <1>1, <1>2, <1>3, <1>5, <2>3, <2>4, <2>5
  <2> QED BY <1>7, <2>2, <2>6 DEF CountsAgree, a
<1> QED BY <1>1, <1>6, <1>7

(***************************************************************************)
(* A car that passes a sensor is counted when control takes its message    *)
(* from the queue.                                                         *)
(***************************************************************************)
LEMMA CountsTaken ==
  ASSUME Typed, CountsAgree, NEW c \in Car, Tells(Pos(c)) # NoMsg, StagesPass(c), program' = program,
         program = "camino_ns", mail = NoMsg, mail' = NoMsg,
         ctl'.cars = Counted(ctl, Message(c)).cars, ctl'.in_road = Counted(ctl, Message(c)).in_road
  PROVE  CountsAgree'
<1> DEFINE p == Pos(c)
           x == Dir(c)
           k == Tells(Pos(c))
           m == Message(c)
           n == Counted(ctl, m)
<1>1. /\ m \in Messages /\ m.dir = x /\ m.kind = k /\ program \in {"camino", "camino_ns"}
      /\ p \in Int /\ x \in Directions /\ p \in Sensors /\ ctl \in Controls_
      /\ p = SENSOR1_POS => k = "IN"
      /\ p = BARRIER_POS => k = "BARRIER"
      /\ p = SENSOR2_POS => k = "OUT"
  BY MessageFields, CarFields, TellsAtSensor DEF Typed, Posts, CarsSound
<1>2. \A d \in Directions, kind \in Kinds : Unread(d, kind) = 0 /\ Unread(d, kind)' = 0
  BY <1>1, UnreadIs
<1>3. /\ \A d \in Directions : ctl.cars[d] \in Int
      /\ ctl.in_road \in Int /\ "LEFTBOUND" \in Directions /\ "RIGHTBOUND" \in Directions
      /\ "IN" \in Kinds /\ "BARRIER" \in Kinds /\ "OUT" \in Kinds
      /\ \A d \in Directions : d = "LEFTBOUND" \/ d = "RIGHTBOUND"
  BY DEF Typed, Controls_, Directions, Kinds
<1>4. \A d \in Directions : CarsOf(d) \in SUBSET Car /\ Car \in SUBSET Car /\ (c \in CarsOf(d) <=> d = x)
  BY DEF CarsOf
<1>5. p = SENSOR1_POS \/ p = BARRIER_POS \/ p = SENSOR2_POS
  BY <1>1 DEF Sensors
<1>6. /\ \A d \in Directions :
           n.cars[d] = IF d # m.dir THEN ctl.cars[d]
                       ELSE IF m.kind = "IN" THEN ctl.cars[d] + 1
                       ELSE IF m.kind = "BARRIER" \/ program = "camino" THEN ctl.cars[d] - 1
                       ELSE ctl.cars[d]
      /\ n.in_road = IF m.kind = "BARRIER" THEN ctl.in_road + 1
                     ELSE IF m.kind = "OUT" /\ program = "camino_ns" THEN ctl.in_road - 1
                     ELSE ctl.in_road
  BY <1>1, CountedFields
<1>7. ctl'.cars = n.cars /\ ctl'.in_road = n.in_road
  OBVIOUS
<1> HIDE DEF n
<1>8. /\ \A d \in Directions :
           n.cars[d] = IF d # x THEN ctl.cars[d]
                       ELSE IF k = "IN" THEN ctl.cars[d] + 1
                       ELSE IF k = "BARRIER" THEN ctl.cars[d] - 1
                       ELSE ctl.cars[d]
      /\ n.in_road = IF k = "BARRIER" THEN ctl.in_road + 1
                     ELSE IF k = "OUT" THEN ctl.in_road - 1
                     ELSE ctl.in_road
  BY <1>1, <1>6
<1>9. ASSUME NEW d \in Directions
      PROVE  LET a == Between(CarsOf(d), SENSOR1_POS, BARRIER_POS)
                 b == Between(CarsOf(d), SENSOR1_POS, BARRIER_POS)'
             IN  /\ a \in Nat /\ b \in Nat
                 /\ d = x /\ p = SENSOR1_POS => b = a + 1
                 /\ d = x /\ p = BARRIER_POS => b = a - 1
                 /\ d # x \/ p = SENSOR2_POS => b = a
  BY <1>1, <1>4, SensorsInStops, BetweenPass
<1>10. ASSUME NEW d \in Directions
       PROVE  ctl'.cars[d] + Unread(d, "IN")' - Unread(d, "BARRIER")' = Between(CarsOf(d), SENSOR1_POS, BARRIER_POS)'
  <2>1. ctl.cars[d] = Between(CarsOf(d), SENSOR1_POS, BARRIER_POS)
    BY <1>2, <1>3 DEF CountsAgree
  <2>2. n.cars[d] = Between(CarsOf(d), SENSOR1_POS, BARRIER_POS)'
    BY <1>1, <1>3, <1>5, <1>8, <1>9, <2>1, SensorsInStops
  <2>3. Unread(d, "IN")' = 0 /\ Unread(d, "BARRIER")' = 0
    BY <1>2, <1>3
  <2> QED BY <1>7, <1>9, <2>2, <2>3
<1> DEFINE a == Between(Car, BARRIER_POS, SENSOR2_POS)
           Road == ctl.in_road + Unread("LEFTBOUND", "BARRIER") + Unread("RIGHTBOUND", "BARRIER")
                     - Unread("LEFTBOUND", "OUT") - Unread("RIGHTBOUND", "OUT")
<1>11. /\ a \in Nat /\ a' \in Nat
       /\ p = SENSOR1_POS => a' = a
       /\ p = BARRIER_POS => a' = a + 1
       /\ p = SENSOR2_POS => a' = a - 1
  BY <1>1, <1>4, SensorsInStops, BetweenPass
<1>12. Road = a
  BY DEF CountsAgree
<1>13. Road = ctl.in_road
  BY <1>2, <1>3
<1>14. Road' = ctl'.in_road /\ n.in_road \in Int
  BY <1>1, <1>2, <1>3, <1>7, <1>8
<1> HIDE DEF a
<1>15. Road' = a'
  <2>1. n.in_road = a'
    BY <1>1, <1>3, <1>5, <1>8, <1>11, <1>12, <1>13
  <2> QED BY <1>7, <1>14, <2>1
<1> QED BY <1>10, <1>15 DEF CountsAgree, a

-----------------------------------------------------------------------------
(* What control makes of k when it has handled a message: it leaves the    *)
(* barriers as they are, opens one, or closes one.                         *)
Keeps(k, e) ==
  e.pc = "get" /\ e.close = Nobody /\ e.open = Nobody /\ e.state = k.state /\ e.dir = k.dir

Opens(k, e) ==
  /\ e.pc = "open" /\ e.close = Nobody /\ e.dir \in Directions /\ e.open = e.dir /\ e.state = "BUSY"
  /\ \/ k.state = "IDLE"
     \/ k.state = "DRAINING" /\ program = "camino_ns" /\ e.in_road = 0

Closes(k, e) ==
  /\ k.state = "BUSY" /\ e.pc = "close" /\ e.close = k.dir /\ k.dir \in Directions
  /\ \/ e.state = "IDLE" /\ e.dir = Nobody /\ e.open = Nobody
     \/ e.state = "BUSY" /\ e.dir = Other(k.dir) /\ e.open = Other(k.dir)
     \/ program = "camino_ns" /\ e.state = "DRAINING" /\ e.dir = k.dir /\ e.open = Nobody
  /\ program = "camino" => e.cars[k.dir] = 0
  /\ program = "camino_ns" /\ e.state # "DRAINING" => e.in_road = 0

\* The same of what is decided.
PlanIs(n, plan) ==
  \/ plan = Stay(n.state, n.dir)
  \/ \E x \in Directions :
       /\ plan = OpenFor(x)
       /\ n.state = "IDLE" \/ (n.state = "DRAINING" /\ program = "camino_ns" /\ n.in_road = 0)
  \/ /\ n.state = "BUSY" /\ plan \in {CloseFor(n.dir, OpenFor(Other(n.dir))), CloseFor(n.dir, Stay("IDLE", Nobody))}
     /\ program = "camino" => n.cars[n.dir] = 0
     /\ program = "camino_ns" => n.in_road = 0
  \/ n.state = "BUSY" /\ program = "camino_ns" /\ plan = CloseFor(n.dir, Stay("DRAINING", n.dir))

(***************************************************************************)
(* The decisions of the two programs.                                      *)
(***************************************************************************)
LEMMA Decided ==
  ASSUME NEW n \in Controls_, n.state = "IDLE" <=> n.dir = Nobody, program \in {"camino", "camino_ns"},
         program = "camino" => n.state # "DRAINING" /\ (n.state = "BUSY" => n.cars[n.dir] >= 0),
         program = "camino_ns" => n.in_road >= 0
  PROVE  PlanIs(n, IF program = "camino" THEN Decide(n) ELSE DecideNs(n))
<1> DEFINE d == n.dir
           o == Other(n.dir)
<1>1. /\ n.state \in {"IDLE", "BUSY", "DRAINING"} /\ n.in_road \in Int /\ n.cars \in [Directions -> Int]
      /\ d \in Directions \cup {Nobody} /\ (n.state # "IDLE" => d \in Directions /\ o \in Directions)
      /\ "LEFTBOUND" \in Directions /\ "RIGHTBOUND" \in Directions
  BY Sides DEF Controls_, Directions
<1>2. CASE n.state = "IDLE"
  <2>1. (IF program = "camino" THEN Decide(n) ELSE DecideNs(n)) = FromIdle(n.cars)
    BY <1>2 DEF Decide, DecideNs
  <2>2. FromIdle(n.cars) = Stay(n.state, n.dir) \/ \E x \in Directions : FromIdle(n.cars) = OpenFor(x)
    BY <1>1, <1>2 DEF FromIdle
  <2> QED BY <1>2, <2>1, <2>2 DEF PlanIs
<1>3. CASE program = "camino" /\ n.state = "BUSY"
  <2>1. CASE n.cars[d] > 0
    <3>1. Decide(n) = Stay(n.state, n.dir)
      BY <1>3, <2>1 DEF Decide
    <3> QED BY <1>3, <3>1 DEF PlanIs
  <2>2. CASE n.cars[d] = 0
    <3>1. Decide(n) = CloseFor(d, IF n.cars[o] > 0 THEN OpenFor(o) ELSE Stay("IDLE", Nobody))
      BY <1>3, <2>2 DEF Decide
    <3> QED BY <1>3, <2>2, <3>1 DEF PlanIs
  <2> QED BY <1>1, <1>3, <2>1, <2>2
<1>4. CASE program = "camino_ns" /\ n.state = "BUSY"
  <2>1. CASE n.cars[d] = 0 /\ n.cars[o] = 0 /\ n.in_road = 0
    <3>1. DecideNs(n) = CloseFor(d, Stay("IDLE", Nobody))
      BY <1>1, <1>4, <2>1 DEF DecideNs
    <3> QED BY <1>4, <2>1, <3>1 DEF PlanIs
  <2>2. CASE n.cars[o] > 0 /\ (n.cars[d] = 0 \/ n.passed = PASS_MAX)
    <3>1. DecideNs(n) = CloseFor(d, IF n.in_road > 0 THEN Stay("DRAINING", d) ELSE OpenFor(o))
      BY <1>1, <1>4, <2>2 DEF DecideNs
    <3>2. CASE n.in_road > 0
      BY <1>4, <3>1, <3>2 DEF PlanIs
    <3>3. CASE n.in_road = 0
      BY <1>4, <3>1, <3>3 DEF PlanIs
    <3> QED BY <1>1, <1>4, <3>2, <3>3
  <2>3. CASE ~ (n.cars[d] = 0 /\ n.cars[o] = 0 /\ n.in_road = 0)
             /\ ~ (n.cars[o] > 0 /\ (n.cars[d] = 0 \/ n.passed = PASS_MAX))
    <3>1. DecideNs(n) = Stay(n.state, n.dir)
      BY <1>1, <1>4, <2>3 DEF DecideNs
    <3> QED BY <1>4, <3>1 DEF PlanIs
  <2> QED BY <2>1, <2>2, <2>3
<1>5. CASE program = "camino_ns" /\ n.state = "DRAINING"
  <2>1. CASE n.in_road = 0
    <3>1. DecideNs(n) = OpenFor(o)
      BY <1>5, <2>1 DEF DecideNs
    <3> QED BY <1>1, <1>5, <2>1, <3>1 DEF PlanIs
  <2>2. CASE n.in_road # 0
    <3>1. DecideNs(n) = Stay(n.state, n.dir)
      BY <1>5, <2>2 DEF DecideNs
    <3> QED BY <1>5, <3>1 DEF PlanIs
  <2> QED BY <2>1, <2>2
<1> QED BY <1>1, <1>2, <1>3, <1>4, <1>5

(***************************************************************************)
(* What control does with a message.                                       *)
(***************************************************************************)
LEMMA HandledPlans ==
  ASSUME NEW k \in Controls_, NEW m \in Messages, program \in {"camino", "camino_ns"},
         k.state = "IDLE" <=> k.dir = Nobody,
         program = "camino" => k.state # "DRAINING" /\ (k.state = "BUSY" => Counted(k, m).cars[k.dir] >= 0),
         program = "camino_ns" => Counted(k, m).in_road >= 0
  PROVE  LET e == Handled(k, m)
         IN  /\ e \in Controls_ /\ e.cars = Counted(k, m).cars /\ e.in_road = Counted(k, m).in_road
             /\ Keeps(k, e) \/ Opens(k, e) \/ Closes(k, e)
<1> DEFINE n == Counted(k, m)
           plan == IF program = "camino" THEN Decide(n) ELSE DecideNs(n)
           pc == IF plan.close # Nobody THEN "close" ELSE IF plan.open # Nobody THEN "open" ELSE "get"
           e == [n EXCEPT !.pc = pc, !.close = plan.close, !.open = plan.open, !.state = plan.state, !.dir = plan.dir]
<1>1. Handled(k, m) = e
  BY DEF Handled
<1>2. n \in Controls_ /\ n.state = k.state /\ n.dir = k.dir
  BY CountedFields
<1>3. n.cars = Counted(k, m).cars /\ n.in_road = Counted(k, m).in_road
  OBVIOUS
<1>4. PlanIs(n, plan)
  <2>1. program = "camino" => n.state # "DRAINING" /\ (n.state = "BUSY" => n.cars[n.dir] >= 0)
    BY <1>2
  <2>2. program = "camino_ns" => n.in_road >= 0
    OBVIOUS
  <2>3. n.state = "IDLE" <=> n.dir = Nobody
    BY <1>2
  <2> HIDE DEF n
  <2> QED BY <1>2, <2>1, <2>2, <2>3, Decided
<1>5. n.state # "IDLE" => n.dir \in Directions
  BY <1>2 DEF Controls_
<1> HIDE DEF n, plan
<1>6. plan = Stay(n.state, n.dir) =>
        /\ plan.close = Nobody /\ plan.open = Nobody /\ plan.state = n.state /\ plan.dir = n.dir
  BY DEF Stay
<1>7. \A x \in Directions : plan = OpenFor(x) =>
        /\ plan.close = Nobody /\ plan.open = x /\ plan.state = "BUSY" /\ plan.dir = x
  BY DEF OpenFor
<1>8. plan = CloseFor(n.dir, OpenFor(Other(n.dir))) =>
        /\ plan.close = n.dir /\ plan.open = Other(n.dir) /\ plan.state = "BUSY" /\ plan.dir = Other(n.dir)
  BY DEF CloseFor, OpenFor
<1>9. \A s, x : plan = CloseFor(n.dir, Stay(s, x)) =>
        /\ plan.close = n.dir /\ plan.open = Nobody /\ plan.state = s /\ plan.dir = x
  BY DEF CloseFor, Stay
<1>10. /\ plan.close \in Directions \cup {Nobody} /\ plan.open \in Directions \cup {Nobody}
       /\ plan.state \in {"IDLE", "BUSY", "DRAINING"} /\ plan.dir \in Directions \cup {Nobody}
  <2>1. n.dir \in Directions \cup {Nobody} /\ n.state \in {"IDLE", "BUSY", "DRAINING"}
    BY <1>2 DEF Controls_
  <2> QED BY <1>4, <1>5, <1>6, <1>7, <1>8, <1>9, <2>1, Sides DEF PlanIs
<1>11. pc \in {"get", "close", "open"}
  OBVIOUS
<1>20. pc = IF plan.close # Nobody THEN "close" ELSE IF plan.open # Nobody THEN "open" ELSE "get"
  OBVIOUS
<1> HIDE DEF pc
<1>12. /\ e \in Controls_ /\ e.cars = n.cars /\ e.in_road = n.in_road /\ e.pc = pc
       /\ e.close = plan.close /\ e.open = plan.open /\ e.state = plan.state /\ e.dir = plan.dir
  BY <1>2, <1>10, <1>11 DEF Controls_
<1> HIDE DEF e
<1>13. CASE plan = Stay(n.state, n.dir)
  <2>1. Keeps(k, e)
    BY <1>2, <1>6, <1>12, <1>13, <1>20 DEF Keeps
  <2> QED BY <1>1, <1>3, <1>12, <2>1
<1>14. ASSUME NEW x \in Directions, plan = OpenFor(x),
              n.state = "IDLE" \/ (n.state = "DRAINING" /\ program = "camino_ns" /\ n.in_road = 0)
       PROVE  Opens(k, e)
  BY <1>2, <1>7, <1>12, <1>14, <1>20, Sides DEF Opens
<1>15. CASE /\ n.state = "BUSY" /\ plan \in {CloseFor(n.dir, OpenFor(Other(n.dir))), CloseFor(n.dir, Stay("IDLE", Nobody))}
            /\ program = "camino" => n.cars[n.dir] = 0
            /\ program = "camino_ns" => n.in_road = 0
  <2>1. n.dir \in Directions /\ n.dir # Nobody
    BY <1>5, <1>15, Sides
  <2>2. Closes(k, e)
    BY <1>2, <1>8, <1>9, <1>12, <1>15, <1>20, <2>1 DEF Closes
  <2> QED BY <1>1, <1>3, <1>12, <2>2
<1>16. CASE n.state = "BUSY" /\ program = "camino_ns" /\ plan = CloseFor(n.dir, Stay("DRAINING", n.dir))
  <2>1. n.dir \in Directions /\ n.dir # Nobody
    BY <1>5, <1>16, Sides
  <2>2. Closes(k, e)
    BY <1>2, <1>9, <1>12, <1>16, <1>20, <2>1 DEF Closes
  <2> QED BY <1>1, <1>3, <1>12, <2>2
<1> QED BY <1>1, <1>3, <1>4, <1>12, <1>13, <1>14, <1>15, <1>16 DEF PlanIs

(***************************************************************************)
(* What it decides leaves no direction forgotten.                          *)
(***************************************************************************)
LEMMA DecidedSettles ==
  ASSUME NEW n \in Controls_, program \in {"camino", "camino_ns"},
         n.state = "IDLE" <=> n.dir = Nobody, \A d \in Directions : n.cars[d] >= 0,
         program = "camino" => n.state # "DRAINING" /\ n.in_road = 0, n.in_road >= 0,
         n.state = "DRAINING" => n.cars[Other(n.dir)] > 0
  PROVE  LET plan == IF program = "camino" THEN Decide(n) ELSE DecideNs(n)
         IN  Settles(plan.state, plan.dir, n.cars, n.in_road)
<1> DEFINE d == n.dir
           o == Other(n.dir)
           S(plan) == Settles(plan.state, plan.dir, n.cars, n.in_road)
<1>1. /\ n.state \in {"IDLE", "BUSY", "DRAINING"} /\ n.in_road \in Int /\ n.cars \in [Directions -> Int]
      /\ n.state # "IDLE" => d \in Directions /\ o \in Directions /\ \A x \in Directions : x = d \/ x = o
      /\ Directions = {"LEFTBOUND", "RIGHTBOUND"}
  BY Sides DEF Controls_, Directions, Other
<1>2. \A x \in Directions : n.cars[x] > 0 => S(OpenFor(x))
  BY <1>1 DEF OpenFor, Settles
<1>3. (\A x \in Directions : n.cars[x] <= 0) => S(Stay("IDLE", Nobody)) /\ S(CloseFor(d, Stay("IDLE", Nobody)))
  BY <1>1 DEF Stay, CloseFor, Settles
<1>4. o \in Directions /\ n.cars[o] > 0 => S(CloseFor(d, OpenFor(o)))
  BY <1>1 DEF OpenFor, CloseFor, Settles
<1>5. CASE n.state = "IDLE"
  <2>1. (IF program = "camino" THEN Decide(n) ELSE DecideNs(n)) = FromIdle(n.cars)
    BY <1>5 DEF Decide, DecideNs
  <2>2. S(FromIdle(n.cars))
    <3>1. CASE n.cars["LEFTBOUND"] > 0
      BY <1>1, <1>2, <3>1 DEF FromIdle
    <3>2. CASE ~ n.cars["LEFTBOUND"] > 0 /\ n.cars["RIGHTBOUND"] > 0
      BY <1>1, <1>2, <3>2 DEF FromIdle
    <3>3. CASE ~ n.cars["LEFTBOUND"] > 0 /\ ~ n.cars["RIGHTBOUND"] > 0
      BY <1>1, <1>3, <3>3 DEF FromIdle
    <3> QED BY <3>1, <3>2, <3>3
  <2> QED BY <2>1, <2>2
<1>6. CASE program = "camino" /\ n.state = "BUSY"
  <2>1. CASE n.cars[d] > 0
    <3>1. Decide(n) = Stay("BUSY", d)
      BY <1>6, <2>1 DEF Decide
    <3> QED BY <1>6, <2>1, <3>1 DEF Stay, Settles
  <2>2. CASE n.cars[d] = 0
    <3>1. Decide(n) = CloseFor(d, IF n.cars[o] > 0 THEN OpenFor(o) ELSE Stay("IDLE", Nobody))
      BY <1>6, <2>2 DEF Decide
    <3>2. CASE n.cars[o] > 0
      BY <1>1, <1>4, <1>6, <3>1, <3>2
    <3>3. CASE ~ n.cars[o] > 0
      BY <1>1, <1>3, <1>6, <2>2, <3>1, <3>3
    <3> QED BY <3>2, <3>3
  <2> QED BY <1>1, <1>6, <2>1, <2>2
<1>7. CASE program = "camino_ns" /\ n.state = "BUSY"
  <2>1. CASE n.cars[d] = 0 /\ n.cars[o] = 0 /\ n.in_road = 0
    <3>1. DecideNs(n) = CloseFor(d, Stay("IDLE", Nobody))
      BY <1>1, <1>7, <2>1 DEF DecideNs
    <3> QED BY <1>1, <1>3, <1>7, <2>1, <3>1
  <2>2. CASE n.cars[o] > 0 /\ (n.cars[d] = 0 \/ n.passed = PASS_MAX)
    <3>1. DecideNs(n) = CloseFor(d, IF n.in_road > 0 THEN Stay("DRAINING", d) ELSE OpenFor(o))
      BY <1>1, <1>7, <2>2 DEF DecideNs
    <3>2. CASE n.in_road > 0
      BY <1>1, <1>7, <2>2, <3>1, <3>2 DEF CloseFor, Stay, Settles
    <3>3. CASE ~ n.in_road > 0
      BY <1>1, <1>4, <1>7, <2>2, <3>1, <3>3
    <3> QED BY <3>2, <3>3
  <2>3. CASE ~ (n.cars[d] = 0 /\ n.cars[o] = 0 /\ n.in_road = 0)
             /\ ~ (n.cars[o] > 0 /\ (n.cars[d] = 0 \/ n.passed = PASS_MAX))
    <3>1. DecideNs(n) = Stay("BUSY", d)
      BY <1>1, <1>7, <2>3 DEF DecideNs
    <3>2. n.cars[d] > 0 \/ n.cars[o] <= 0
      BY <1>1, <1>7, <2>3
    <3> QED BY <1>1, <1>7, <3>1, <3>2 DEF Stay, Settles
  <2> QED BY <2>1, <2>2, <2>3
<1>8. CASE program = "camino_ns" /\ n.state = "DRAINING"
  <2>1. CASE n.in_road = 0
    <3>1. DecideNs(n) = OpenFor(o)
      BY <1>8, <2>1 DEF DecideNs
    <3> QED BY <1>1, <1>2, <1>8, <3>1
  <2>2. CASE n.in_road # 0
    <3>1. DecideNs(n) = Stay("DRAINING", d)
      BY <1>8, <2>2 DEF DecideNs
    <3> QED BY <1>1, <1>8, <2>2, <3>1 DEF Stay, Settles
  <2> QED BY <2>1, <2>2
<1> QED BY <1>1, <1>5, <1>6, <1>7, <1>8

(***************************************************************************)
(* Nor is one forgotten once a message is handled.  While control waits    *)
(* for the stretch to be empty, nobody goes by a barrier.                  *)
(***************************************************************************)
LEMMA HandledSettles ==
  ASSUME NEW k \in Controls_, NEW m \in Messages, program \in {"camino", "camino_ns"},
         k.state = "IDLE" <=> k.dir = Nobody, Settles(k.state, k.dir, k.cars, k.in_road),
         program = "camino" => k.state # "DRAINING" /\ m.kind # "BARRIER",
         \A d \in Directions : Counted(k, m).cars[d] >= 0, Counted(k, m).in_road >= 0,
         k.state = "DRAINING" => m.kind # "BARRIER"
  PROVE  LET e == Handled(k, m) IN Settles(e.state, e.dir, e.cars, e.in_road)
<1> DEFINE n == Counted(k, m)
           plan == IF program = "camino" THEN Decide(n) ELSE DecideNs(n)
           pc == IF plan.close # Nobody THEN "close" ELSE IF plan.open # Nobody THEN "open" ELSE "get"
           e == [n EXCEPT !.pc = pc, !.close = plan.close, !.open = plan.open, !.state = plan.state, !.dir = plan.dir]
<1>1. Handled(k, m) = e
  BY DEF Handled
<1>2. n \in Controls_ /\ n.state = k.state /\ n.dir = k.dir
  BY CountedFields
<1>3. program = "camino" => n.in_road = 0
  BY CountedFields DEF Settles
<1>4. n.state = "DRAINING" => n.cars[Other(n.dir)] > 0
  <2> SUFFICES ASSUME k.state = "DRAINING" PROVE n.cars[Other(k.dir)] > 0
    BY <1>2
  <2>1. Other(k.dir) \in Directions /\ k.cars[Other(k.dir)] > 0 /\ k.cars[Other(k.dir)] \in Int
    BY Sides DEF Controls_, Settles
  <2>2. m.kind # "BARRIER" /\ program = "camino_ns"
    OBVIOUS
  <2> QED BY <2>1, <2>2, CountedFields
<1> HIDE DEF n
<1>5. Settles(plan.state, plan.dir, n.cars, n.in_road)
  <2>1. /\ n.state = "IDLE" <=> n.dir = Nobody
        /\ \A d \in Directions : n.cars[d] >= 0
        /\ n.in_road >= 0
        /\ program = "camino" => n.state # "DRAINING" /\ n.in_road = 0
    BY <1>2, <1>3 DEF n
  <2> QED BY <1>2, <1>4, <2>1, DecidedSettles
<1> HIDE DEF plan, pc
<1>6. e.cars = n.cars /\ e.in_road = n.in_road /\ e.state = plan.state /\ e.dir = plan.dir
  BY <1>2 DEF Controls_
<1> HIDE DEF e
<1> QED BY <1>1, <1>5, <1>6

-----------------------------------------------------------------------------
(***************************************************************************)
(* A car in the stretch has gone by the first sensor, and occupies the     *)
(* barrier cell or has left it.                                            *)
(***************************************************************************)
LEMMA ZonePlace ==
  ASSUME CarsSound, NEW c \in Car, InZone(c)
  PROVE  /\ BARRIER_POS <= Pos(c) /\ Pos(c) <= SENSOR2_POS /\ Told(c, SENSOR1_POS)
         /\ Told(c, SENSOR2_POS) => Leaving(c)
         /\ Told(c, SENSOR2_POS) => program = "camino_ns" /\ Pos(c) = SENSOR2_POS
         /\ Pos(c) # BARRIER_POS => Told(c, BARRIER_POS)
         /\ Pos(c) = BARRIER_POS => BARRIER_POS \in Occupies(c)
<1>1. Pc(c) # "gone" /\ Pos(c) \in Int /\ BARRIER_POS <= Pos(c) /\ Pos(c) <= SENSOR2_POS
  <2>1. Pos(c) \in Int
    BY CarFields
  <2> QED BY <2>1, Places DEF InZone
<1>2. Told(c, SENSOR1_POS) /\ (Pos(c) # BARRIER_POS => Told(c, BARRIER_POS))
  BY <1>1, Places, ToldMeans
<1>3. ~ (Pos(c) > SENSOR2_POS) /\ (Pos(c) = SENSOR2_POS => Pc(c) # "delay")
  BY <1>1, Places DEF InZone
<1>4. Told(c, SENSOR2_POS) => Leaving(c)
  BY <1>3, ToldMeans DEF Leaving
<1>5. Pos(c) = BARRIER_POS => Pc(c) \in {"tell", "delay"}
  BY Places DEF InZone
<1>6. Pos(c) = BARRIER_POS => BARRIER_POS \in Occupies(c)
  BY <1>5 DEF Occupies, Pc
<1> QED BY <1>1, <1>2, <1>4, <1>6 DEF Leaving

(***************************************************************************)
(* What the counts say once the message is read.                           *)
(***************************************************************************)
LEMMA CountsMean ==
  ASSUME CountsAgree', mail' = NoMsg, program' = program, program \in {"camino", "camino_ns"},
         ctl'.cars \in [Directions -> Int], ctl'.in_road \in Int
  PROVE  /\ program = "camino" => \A d \in Directions :
              /\ ctl'.cars[d] >= 0
              /\ ctl'.cars[d] = 0 => \A c \in Car : Dir(c) = d => ~ Among(c, SENSOR1_POS, SENSOR2_POS)'
         /\ program = "camino_ns" =>
              /\ ctl'.in_road >= 0
              /\ ctl'.in_road = 0 => \A c \in Car : ~ Among(c, BARRIER_POS, SENSOR2_POS)'
              /\ \A d \in Directions : ctl'.cars[d] >= 0
<1>1. \A d \in Directions, kind \in Kinds : Unread(d, kind)' = 0
  BY UnreadIs
<1>2. /\ "LEFTBOUND" \in Directions /\ "RIGHTBOUND" \in Directions
      /\ "IN" \in Kinds /\ "BARRIER" \in Kinds /\ "OUT" \in Kinds
  BY DEF Directions, Kinds
<1>3. ASSUME NEW X \in SUBSET Car, NEW i, NEW j
      PROVE  /\ Between(X, i, j)' \in Nat
             /\ Between(X, i, j)' = 0 => \A c \in X : ~ Among(c, i, j)'
  <2> DEFINE S == {c \in X : Told(c, i)' /\ ~ Told(c, j)'}
  <2>1. IsFiniteSet(S) /\ Between(X, i, j)' = Cardinality(S)
    BY BridgeAssumption, FS_Subset DEF Between
  <2>2. \A c \in X : Among(c, i, j)' => c \in S
    BY DEF Among
  <2> HIDE DEF S
  <2> QED BY <2>1, <2>2, FS_EmptySet, FS_CardinalityType
<1>4. CASE program = "camino"
  <2>1. ASSUME NEW d \in Directions
        PROVE  /\ ctl'.cars[d] >= 0
               /\ ctl'.cars[d] = 0 => \A c \in Car : Dir(c) = d => ~ Among(c, SENSOR1_POS, SENSOR2_POS)'
    <3>1. ctl'.cars[d] = Between(CarsOf(d), SENSOR1_POS, SENSOR2_POS)'
      BY <1>1, <1>2, <1>4 DEF CountsAgree
    <3>2. CarsOf(d) \in SUBSET Car /\ \A c \in Car : Dir(c) = d => c \in CarsOf(d)
      BY DEF CarsOf
    <3> QED BY <1>3, <3>1, <3>2
  <2> QED BY <1>4, <2>1
<1>5. CASE program = "camino_ns"
  <2>1. ctl'.in_road = Between(Car, BARRIER_POS, SENSOR2_POS)'
    BY <1>1, <1>2, <1>5 DEF CountsAgree
  <2>2. ASSUME NEW d \in Directions PROVE ctl'.cars[d] >= 0
    <3>1. ctl'.cars[d] = Between(CarsOf(d), SENSOR1_POS, BARRIER_POS)'
      BY <1>1, <1>2, <1>5 DEF CountsAgree
    <3>2. CarsOf(d) \in SUBSET Car
      BY DEF CarsOf
    <3> QED BY <1>3, <3>1, <3>2
  <2> QED BY <1>3, <1>5, <2>1, <2>2
<1> QED BY <1>4, <1>5

(* What handling a message does besides ctl: in camino_ns it may wake cars *)
(* that wait to be told.                                                   *)
HandlesFor(u) ==
  /\ Typed /\ Planned /\ BarriersAgree /\ CellsAgree /\ Zone
  /\ ctl.pc \in {"get", "got"} /\ ctl' \in Controls_
  /\ Keeps(ctl, ctl') \/ Opens(ctl, ctl') \/ Closes(ctl, ctl')
  /\ program' = program /\ road' = road /\ car' = car
  /\ program = "camino_ns" => \A e \in Car : Free(e)' <=> Free(e) \/ e = u
  /\ program = "camino" => \A d \in Directions :
        ctl'.cars[d] = 0 => \A c \in Car : Dir(c) = d => ~ Among(c, SENSOR1_POS, SENSOR2_POS)'
  /\ program = "camino_ns" =>
        (ctl'.in_road = 0 => \A c \in Car : ~ Among(c, BARRIER_POS, SENSOR2_POS)')

(***************************************************************************)
(* Before a message control has no barrier to move.                        *)
(***************************************************************************)
LEMMA NothingPlanned ==
  ASSUME Planned, ctl.pc \in {"get", "got", "receive"}
  PROVE  ctl.close = Nobody /\ ctl.open = Nobody
BY DEF Planned

(***************************************************************************)
(* What control plans is consistent.                                       *)
(***************************************************************************)
LEMMA HandledPlanned ==
  ASSUME NEW u, HandlesFor(u)
  PROVE  Planned' /\ BarriersAgree'
<1>1. ctl.close = Nobody /\ ctl.open = Nobody
  BY NothingPlanned DEF HandlesFor
<1>2. /\ ctl.state = "IDLE" <=> ctl.dir = Nobody
      /\ program = "camino" => ctl.state # "DRAINING"
      /\ program' = program
  BY DEF HandlesFor, Planned
<1>3. ASSUME NEW d \in Directions PROVE LetIn(d) <=> ctl.state = "BUSY" /\ ctl.dir = d
  BY <1>1, <1>3, Sides DEF LetIn
<1>4. ASSUME \A d \in Directions : LetIn(d)' <=> LetIn(d) PROVE BarriersAgree'
  BY <1>4 DEF BarriersAgree, HandlesFor
<1>5. CASE Keeps(ctl, ctl')
  <2>1. Planned'
    BY <1>2, <1>5 DEF Keeps, Planned
  <2>2. \A d \in Directions : LetIn(d)' <=> LetIn(d)
    BY <1>3, <1>5, Sides DEF Keeps, LetIn
  <2> QED BY <1>4, <2>1, <2>2
<1>6. CASE Opens(ctl, ctl')
  <2>1. Planned'
    BY <1>2, <1>6, Sides DEF Opens, Planned
  <2>2. \A d \in Directions : LetIn(d)' <=> LetIn(d)
    BY <1>3, <1>6, Sides DEF Opens, LetIn
  <2> QED BY <1>4, <2>1, <2>2
<1>7. CASE Closes(ctl, ctl')
  <2>1. Planned'
    BY <1>2, <1>7, Sides DEF Closes, Planned
  <2>2. \A d \in Directions : LetIn(d)' <=> LetIn(d)
    BY <1>3, <1>7, Sides DEF Closes, LetIn
  <2> QED BY <1>4, <2>1, <2>2
<1> QED BY <1>5, <1>6, <1>7 DEF HandlesFor

(***************************************************************************)
(* The stretch still belongs to one direction after a message.             *)
(***************************************************************************)
LEMMA HandledZone ==
  ASSUME NEW u, HandlesFor(u), CarsSound'
  PROVE  Zone'
<1>1. ctl.close = Nobody /\ ctl.open = Nobody
  BY NothingPlanned DEF HandlesFor
<1>2. /\ CarsSound /\ BarriersAgree /\ CellsAgree /\ ZoneHeld /\ LeavesAlone
      /\ program' = program /\ road' = road /\ car' = car /\ program \in {"camino", "camino_ns"}
  BY DEF HandlesFor, Typed, Zone, CarsSound
<1>3. \A e \in Car : /\ Pos(e)' = Pos(e) /\ Pc(e)' = Pc(e) /\ (InZone(e)' <=> InZone(e))
                     /\ Leaving(e) => Leaving(e)'
  BY <1>2 DEF HandlesFor, Pos, Pc, InZone, Leaving
<1>4. ASSUME NEW c \in Car, InZone(c) PROVE Leaving(c) \/ Holds(Dir(c))
  BY <1>1, <1>2, <1>4, Sides DEF ZoneHeld
<1>5. ASSUME NEW c \in Car, InZone(c)
      PROVE  /\ InZone(c)' /\ Told(c, SENSOR1_POS)' /\ (Told(c, SENSOR2_POS)' => Leaving(c)')
             /\ Pos(c) # BARRIER_POS => Told(c, BARRIER_POS)'
             /\ Pos(c) = BARRIER_POS => road[Dir(c)][BARRIER_POS] = CAR
             /\ program = "camino" => ~ Told(c, SENSOR2_POS)'
  <2>1. Pc(c) # "gone" /\ Pos(c) \in Int /\ BARRIER_POS <= Pos(c)
    BY <1>2, <1>5, ZonePlace, CarFields DEF InZone
  <2>2. Told(c, SENSOR1_POS)' /\ (Pos(c) # BARRIER_POS => Told(c, BARRIER_POS)')
    BY <1>3, <2>1, Places, ToldMeans
  <2>3. ~ (Pos(c)' > SENSOR2_POS) /\ (Pos(c)' = SENSOR2_POS => Pc(c)' # "delay")
    BY <1>3, <1>5, <2>1, Places DEF InZone
  <2>4. Told(c, SENSOR2_POS)' => Leaving(c)'
    BY <2>3, ToldMeans DEF Leaving
  <2>5. Pos(c) = BARRIER_POS => road[Dir(c)][BARRIER_POS] = CAR
    BY <1>2, <1>5, ZonePlace, Sides, Places DEF CellsAgree, Cells
  <2> QED BY <1>2, <1>3, <1>5, <2>2, <2>4, <2>5 DEF Leaving
<1>6. ZoneHeld'
  <2> SUFFICES ASSUME NEW c \in Car, InZone(c)', ~ Leaving(c)'
               PROVE  Holds(Dir(c))' \/ (program = "camino_ns" /\ ctl'.close = Dir(c))
    BY <1>2 DEF ZoneHeld
  <2>1. InZone(c) /\ Holds(Dir(c)) /\ Dir(c) \in Directions
    BY <1>3, <1>4, Sides
  <2>2. CASE Keeps(ctl, ctl')
    BY <1>1, <2>1, <2>2 DEF Keeps, Holds
  <2>3. CASE Opens(ctl, ctl')
    <3>1. ctl.state = "DRAINING" /\ ctl'.in_road = 0 /\ program = "camino_ns"
      BY <2>1, <2>3 DEF Opens, Holds
    <3>2. ~ Among(c, BARRIER_POS, SENSOR2_POS)'
      BY <3>1 DEF HandlesFor
    <3>3. ~ Told(c, BARRIER_POS)'
      BY <1>5, <2>1, <3>2 DEF Among
    <3>4. road[Dir(c)][BARRIER_POS] = CAR
      BY <1>5, <2>1, <3>3
    <3>5. ~ LetIn(Dir(c))
      BY <1>1, <2>1, <3>1, Sides DEF LetIn
    <3> QED BY <1>2, <2>1, <3>4, <3>5, Sides DEF BarriersAgree
  <2>4. CASE Closes(ctl, ctl')
    <3>1. ctl'.close = Dir(c)
      BY <2>1, <2>4 DEF Closes, Holds
    <3>2. CASE program = "camino"
      <4>1. ctl'.cars[Dir(c)] = 0
        BY <2>4, <3>1, <3>2 DEF Closes
      <4>2. ~ Among(c, SENSOR1_POS, SENSOR2_POS)'
        BY <2>1, <3>2, <4>1 DEF HandlesFor
      <4> QED BY <1>5, <2>1, <3>2, <4>2 DEF Among
    <3> QED BY <1>2, <3>1, <3>2
  <2> QED BY <2>2, <2>3, <2>4 DEF HandlesFor
<1>7. ClosesEmpty'
  <2>1. ASSUME NEW c \in Car, program = "camino", Dir(c) = ctl'.close PROVE ~ Among(c, SENSOR1_POS, SENSOR2_POS)'
    <3>1. Closes(ctl, ctl') /\ ctl'.cars[Dir(c)] = 0 /\ Dir(c) \in Directions
      BY <2>1, Sides DEF HandlesFor, Keeps, Opens, Closes
    <3> QED BY <2>1, <3>1 DEF HandlesFor
  <2>2. ASSUME NEW c \in Car, program = "camino_ns", Dir(c) = ctl'.close, ctl'.state # "DRAINING"
        PROVE  ~ Among(c, BARRIER_POS, SENSOR2_POS)'
    <3>1. Closes(ctl, ctl') /\ ctl'.in_road = 0
      BY <2>2, Sides DEF HandlesFor, Keeps, Opens, Closes
    <3> QED BY <2>2, <3>1 DEF HandlesFor
  <2> QED BY <1>2, <2>1, <2>2 DEF ClosesEmpty, Among
<1>8. LeavesAlone'
  <2> SUFFICES ASSUME NEW c \in Car, NEW e \in Car, Leaving(c)', InZone(e)', Dir(c) # Dir(e)
               PROVE  Pos(e)' = BARRIER_POS
    BY DEF LeavesAlone
  <2>1. CASE Leaving(c)
    BY <1>2, <1>3, <2>1 DEF LeavesAlone
  <2>2. CASE ~ Leaving(c)
    <3>1. InZone(c) /\ InZone(e) /\ Pos(c) = SENSOR2_POS
      BY <1>2, <1>3, Places DEF Leaving, InZone
    <3>2. Holds(Dir(c))
      BY <1>4, <2>2, <3>1
    <3>3. Leaving(e)
      BY <1>4, <3>1, <3>2 DEF Holds
    <3>4. Pos(c) = BARRIER_POS
      BY <1>2, <3>1, <3>3 DEF LeavesAlone
    <3> QED BY <3>1, <3>4, Places
  <2> QED BY <2>1, <2>2
<1> QED BY <1>6, <1>7, <1>8 DEF Zone

-----------------------------------------------------------------------------
\* Control's plan is not changed.
PlanSame ==
  ctl'.close = ctl.close /\ ctl'.open = ctl.open /\ ctl'.state = ctl.state /\ ctl'.dir = ctl.dir

(***************************************************************************)
(* What control has settled stays so as long as nothing is counted.        *)
(***************************************************************************)
LEMMA SettledSame ==
  ASSUME Settled, PlanSame, program' = program, ctl'.cars = ctl.cars, ctl'.in_road = ctl.in_road
  PROVE  Settled'
BY DEF Settled, Settles, PlanSame

(***************************************************************************)
(* The message in the mailbox is of the same car when nobody passes a      *)
(* sensor.                                                                 *)
(***************************************************************************)
LEMMA MailMeansSame ==
  ASSUME MailMeans, StagesSame, program' = program, mail' = mail,
         mail # NoMsg /\ mail.kind = "BARRIER" => PlanSame
  PROVE  MailMeans'
<1> SUFFICES ASSUME mail # NoMsg
             PROVE  /\ \E c \in Car, p \in Stops' : Dir(c) = mail.dir /\ Tells(p)' = mail.kind /\ Passed(c, p)'
                    /\ mail.kind = "BARRIER" => LetIn(mail.dir)'
  BY DEF MailMeans, Tells
<1>1. Stops' = Stops
  BY StopsAre
<1>2. PICK c \in Car, p \in Stops : Dir(c) = mail.dir /\ Tells(p) = mail.kind /\ Passed(c, p)
  BY DEF MailMeans
<1>3. Tells(p)' = Tells(p)
  BY DEF Tells
<1>4. Passed(c, p)'
  BY <1>1, <1>2 DEF Passed, StagesSame
<1>5. mail.kind = "BARRIER" => LetIn(mail.dir)'
  BY DEF MailMeans, PlanSame, LetIn
<1> QED BY <1>1, <1>2, <1>3, <1>4, <1>5

(***************************************************************************)
(* A message that is put there is of the car that passes the sensor.       *)
(***************************************************************************)
LEMMA MailMeansPosted ==
  ASSUME CarsSound, NEW c \in Car, Tells(Pos(c)) # NoMsg, StagesPass(c), program' = program,
         mail' = Message(c), PlanSame, Message(c).kind = "BARRIER" => LetIn(Dir(c))
  PROVE  MailMeans'
<1>1. PICK p \in Stops : p = Pos(c)
  BY DEF StagesPass
<1>2. mail'.dir = Dir(c) /\ mail'.kind = Tells(p)
  BY <1>1, MessageFields
<1>3. Stops' = Stops /\ p \in Int /\ Stops \subseteq Int
  BY StopsAre
<1>4. Passed(c, p)'
  <2>1. \A i, j \in Stops : i < j => (Among(c, i, j)' <=> i <= p /\ p < j)
    BY <1>1 DEF StagesPass
  <2> QED BY <1>3, <2>1 DEF Passed
<1>5. Tells(p)' = Tells(p)
  BY DEF Tells
<1>6. mail'.kind = "BARRIER" => LetIn(mail.dir)'
  <2>1. \A d : LetIn(d) => LetIn(d)'
    BY DEF PlanSame, LetIn
  <2>2. mail'.kind = "BARRIER" => LetIn(Dir(c))'
    BY <2>1
  <2> QED BY <1>2, <2>2 DEF LetIn
<1>7. \E e \in Car, i \in Stops' : Dir(e) = mail'.dir /\ Tells(i)' = mail'.kind /\ Passed(e, i)'
  BY <1>2, <1>3, <1>4, <1>5
<1> QED BY <1>6, <1>7 DEF MailMeans, Tells

\* A step of a car on the road: it slows down, or takes its cell, or goes on.
OnRoad(c, q) ==
  /\ CarStep(c, Pos(c), q) /\ OthersStay(c) /\ program' = program /\ PlanSame
  /\ \/ Pc(c) = "look" /\ q = "slow"
     \/ Pc(c) \in {"look", "again"} /\ q \in {"delay", "tell"} /\ road[Dir(c)][Pos(c)] = EMPTY
     \/ Pc(c) = "tell" /\ q = "delay"
  /\ q = "tell" /\ program = "camino_ns" => ~ Free(c)'
  /\ \/ StagesSame
     \/ StagesPass(c) /\ q = "delay" /\ (program = "camino_ns" => ctl.close = Nobody)

(***************************************************************************)
(* Barriers stay when cars move and control plans nothing new.             *)
(***************************************************************************)
LEMMA BarriersStay ==
  ASSUME BarriersAgree, BarriersSame, PlanSame
  PROVE  BarriersAgree'
BY DEF BarriersAgree, BarriersSame, PlanSame, LetIn

(***************************************************************************)
(* Cars on the road do not come into the stretch against a barrier.        *)
(***************************************************************************)
LEMMA OnRoadZone ==
  ASSUME Typed, Planned, BarriersAgree, Zone, NEW c \in Car, NEW q, OnRoad(c, q)
  PROVE  BarriersAgree' /\ Zone'
<1>1. /\ CarsSound /\ CarsSound' /\ program \in {"camino", "camino_ns"} /\ program' = program
      /\ ctl'.close = ctl.close /\ ctl'.open = ctl.open /\ ctl'.state = ctl.state /\ ctl'.dir = ctl.dir
      /\ ZoneHeld /\ ClosesEmpty /\ LeavesAlone
  BY DEF Typed, OnRoad, CarStep, CarsSound, PlanSame, Zone
<1>2. BarriersAgree'
  BY BarriersStay DEF OnRoad, CarStep
<1>3. /\ \A e \in Car : e # c => car'[e] = car[e]
      /\ car'[c] = [pos |-> Pos(c), pc |-> q]
      /\ program = "camino_ns" => \A e \in Car : e # c => (Free(e)' <=> Free(e))
  BY DEF OnRoad, OthersStay, CarStep, Moved
<1>4. \A e \in Car : e # c => /\ InZone(e)' <=> InZone(e)
                              /\ Leaving(e)' <=> Leaving(e)
                              /\ Pos(e)' = Pos(e) /\ Pc(e)' = Pc(e)
  BY <1>1, <1>3 DEF InZone, Leaving, Pos, Pc
<1>5. Pos(c)' = Pos(c) /\ Pc(c)' = q /\ Pos(c) \in Int /\ Dir(c) \in Directions
  <2>1. Pos(c) \in Int /\ Dir(c) \in Directions
    BY <1>1, CarFields
  <2>2. car'[c].pos = Pos(c) /\ car'[c].pc = q
    BY <1>3
  <2> QED BY <2>1, <2>2 DEF Pos, Pc
<1>6. \A d : Holds(d)' <=> Holds(d)
  BY <1>1 DEF Holds
<1>7. ~ Leaving(c)'
  BY <1>1, <1>5 DEF Leaving, OnRoad
<1>8. ASSUME InZone(c)'
      PROVE  \/ InZone(c) /\ ~ Leaving(c)
             \/ Pos(c) = BARRIER_POS /\ Pc(c) \in {"look", "again"} /\ road[Dir(c)][BARRIER_POS] = EMPTY
  <2>1. CASE Pos(c) = BARRIER_POS
    <3>1. q \in {"tell", "delay"}
      BY <1>5, <1>8, <2>1, Places DEF InZone
    <3>2. CASE Pc(c) = "tell"
      BY <2>1, <3>2, Places DEF InZone, Leaving
    <3>3. CASE Pc(c) # "tell"
      BY <2>1, <3>1, <3>3 DEF OnRoad
    <3> QED BY <3>2, <3>3
  <2>2. CASE BARRIER_POS < Pos(c) /\ Pos(c) < SENSOR2_POS
    BY <2>2, Places DEF InZone, Leaving, OnRoad
  <2>3. CASE Pos(c) = SENSOR2_POS
    <3>1. q # "delay"
      BY <1>5, <1>8, <2>3, Places DEF InZone
    <3>2. Pc(c) \in {"look", "again"}
      BY <3>1 DEF OnRoad
    <3> QED BY <2>3, <3>2 DEF InZone, Leaving
  <2> QED BY <1>5, <1>8, <2>1, <2>2, <2>3 DEF InZone
<1>9. program = "camino" => (Among(c, SENSOR1_POS, SENSOR2_POS)' =>
        \/ Among(c, SENSOR1_POS, SENSOR2_POS) /\ Pc(c) # "delay"
        \/ Pos(c)' = SENSOR1_POS /\ Pc(c)' = "delay")
  <2>1. CASE StagesSame
    BY <2>1, SensorsInStops DEF StagesSame, OnRoad
  <2>2. CASE StagesPass(c) /\ q = "delay"
    <3>1. program = "camino" => Pos(c) \in {SENSOR1_POS, SENSOR2_POS}
      BY <2>2, StopsAre DEF StagesPass
    <3>2. program = "camino" /\ Among(c, SENSOR1_POS, SENSOR2_POS)' => Pos(c) < SENSOR2_POS
      BY <2>2, SensorsInStops DEF StagesPass
    <3> QED BY <1>5, <2>2, <3>1, <3>2, Places
  <2> QED BY <2>1, <2>2 DEF OnRoad
<1>10. \A e \in Car, i, j \in Stops : e # c /\ i < j => (Among(e, i, j)' <=> Among(e, i, j))
  BY DEF OnRoad, StagesSame, StagesPass
<1>11. ClosesEmpty'
  <2>1. ASSUME NEW e \in Car, program = "camino", Dir(e) = ctl.close, Among(e, SENSOR1_POS, SENSOR2_POS)'
        PROVE  Pos(e)' = SENSOR1_POS /\ Pc(e)' = "delay"
    <3>1. CASE e # c
      <4>1. Among(e, SENSOR1_POS, SENSOR2_POS)
        BY <1>10, <2>1, <3>1, SensorsInStops
      <4> QED BY <1>1, <1>4, <2>1, <3>1, <4>1 DEF ClosesEmpty, Among
    <3>2. CASE e = c
      <4>1. ~ (Among(c, SENSOR1_POS, SENSOR2_POS) /\ Pc(c) # "delay")
        BY <1>1, <2>1, <3>2 DEF ClosesEmpty, Among
      <4> QED BY <1>9, <2>1, <3>2, <4>1
    <3> QED BY <3>1, <3>2
  <2>2. ASSUME NEW e \in Car, program = "camino_ns", ctl.state # "DRAINING", Dir(e) = ctl.close
        PROVE  ~ Among(e, BARRIER_POS, SENSOR2_POS)'
    <3>1. StagesSame
      BY <2>2, Sides DEF OnRoad
    <3>2. Among(e, BARRIER_POS, SENSOR2_POS)' <=> Among(e, BARRIER_POS, SENSOR2_POS)
      BY <2>2, <3>1, SensorsInStops DEF StagesSame
    <3> QED BY <1>1, <2>2, <3>2 DEF ClosesEmpty, Among
  <2> QED BY <1>1, <2>1, <2>2 DEF ClosesEmpty, Among
<1>12. ZoneHeld'
  <2> SUFFICES ASSUME NEW e \in Car, InZone(e)', ~ Leaving(e)'
               PROVE  Holds(Dir(e)) \/ (program = "camino_ns" /\ ctl.close = Dir(e))
    BY <1>1, <1>6 DEF ZoneHeld
  <2>1. CASE e # c
    BY <1>1, <1>4, <2>1 DEF ZoneHeld
  <2>2. CASE e = c /\ InZone(c) /\ ~ Leaving(c)
    BY <1>1, <2>2 DEF ZoneHeld
  <2>3. CASE e = c /\ Pos(c) = BARRIER_POS /\ Pc(c) \in {"look", "again"} /\ road[Dir(c)][BARRIER_POS] = EMPTY
    <3>1. LetIn(Dir(c))
      BY <1>5, <2>3, Sides DEF BarriersAgree
    <3>2. CASE ctl.close # Dir(c)
      BY <2>3, <3>1, <3>2 DEF LetIn, Holds
    <3>3. CASE ctl.close = Dir(c) /\ program = "camino"
      <4>1. Told(c, SENSOR1_POS) /\ ~ Told(c, SENSOR2_POS)
        BY <1>5, <2>3, Places, ToldMeans
      <4> QED BY <1>1, <2>3, <3>3, <4>1, Places DEF ClosesEmpty
    <3> QED BY <1>1, <2>3, <3>2, <3>3
  <2> QED BY <1>8, <2>1, <2>2, <2>3
<1>13. LeavesAlone'
  <2> SUFFICES ASSUME NEW f \in Car, NEW e \in Car, Leaving(f)', InZone(e)', Dir(f) # Dir(e)
               PROVE  Pos(e)' = BARRIER_POS
    BY DEF LeavesAlone
  <2>1. f # c /\ Leaving(f)
    BY <1>4, <1>7
  <2>2. CASE e # c
    BY <1>1, <1>4, <2>1, <2>2 DEF LeavesAlone
  <2>3. CASE e = c
    BY <1>1, <1>5, <1>8, <2>1, <2>3 DEF LeavesAlone
  <2> QED BY <2>2, <2>3
<1> QED BY <1>2, <1>11, <1>12, <1>13 DEF Zone

-----------------------------------------------------------------------------
(***************************************************************************)
(* Nothing is sent or read.                                                *)
(***************************************************************************)
LEMMA LettersStay ==
  ASSUME Letters, program' = program, w' = w, mail' = mail,
         \A e \in Car : Pc(e)' = "tell" <=> Pc(e) = "tell",
         ctl'.pc = "receive" => program = "camino_ns" /\ ctl.pc = "receive", ctl'.pc = "got" <=> ctl.pc = "got"
  PROVE  Letters' /\ \A t : Free(t)' <=> Free(t)
<1>1. \A t : (Free(t)' <=> Free(t)) /\ where(w')[t] = where(w)[t]
  BY DEF Free
<1>2. CASE program = "camino"
  <2>1. MailboxAgrees'
    BY <1>2, MailStays DEF Letters
  <2> QED BY <1>1, <1>2, <2>1 DEF Letters
<1>3. CASE program = "camino_ns"
  <2>1. MessagesAgree'
    BY <1>1, <1>3 DEF Letters, MessagesAgree
  <2> QED BY <1>1, <1>3, <2>1 DEF Letters
<1>4. CASE program \notin {"camino", "camino_ns"}
  BY <1>1, <1>4 DEF Letters
<1> QED BY <1>2, <1>3, <1>4

(***************************************************************************)
(* A car that runs is in no queue.                                         *)
(***************************************************************************)
LEMMA AtFree ==
  ASSUME NEW c \in Car, NEW place, At(c, place)
  PROVE  Pc(c) = place /\ Free(c)
BY Sides, RunsNowhere DEF At, Pc, Free

(***************************************************************************)
(* The step of a car, when neither the semaphores nor control take part.   *)
(***************************************************************************)
LEMMA QuietCarKeeps ==
  ASSUME IInv, NEW c \in Car, NEW p, NEW q, CarStep(c, p, q), StagesSame,
         UNCHANGED <<program, w, mail, ctl>>, Pc(c) # "tell", q # "tell", Zone' /\ BarriersAgree'
  PROVE  IInv'
<1>1. /\ CarsSound' /\ CellsAgree' /\ program' = program /\ w' = w /\ mail' = mail /\ ctl' = ctl
      /\ Typed /\ Letters /\ Planned /\ CountsAgree /\ CarsSound
  BY DEF IInv, CarStep, Typed
<1>2. \A e \in Car : Pc(e)' = "tell" <=> Pc(e) = "tell"
  BY DEF CarStep, Moved, Pc
<1>3. Letters'
  <2>1. ctl'.pc = "receive" => program = "camino_ns" /\ ctl.pc = "receive"
    BY <1>1 DEF Letters, MailboxAgrees, CarsSound
  <2> QED BY <1>1, <1>2, <2>1, LettersStay
<1>4. Typed'
  BY <1>1 DEF Typed, Posts
<1>5. Planned'
  BY <1>1 DEF Planned
<1>6. CountsAgree'
  BY <1>1, CountsSame
<1>7. Settled' /\ MailMeans'
  <2>1. PlanSame
    BY <1>1 DEF PlanSame
  <2> QED BY <1>1, <2>1, SettledSame, MailMeansSame DEF IInv
<1> QED BY <1>1, <1>3, <1>4, <1>5, <1>6, <1>7 DEF IInv

(***************************************************************************)
(* A car slows down.                                                       *)
(***************************************************************************)
LEMMA SlowKeeps ==
  ASSUME IInv, NEW c \in Car, Slow(c)
  PROVE  IInv'
<1>1. Pc(c) = "look" /\ CarStep(c, Pos(c), "slow") /\ UNCHANGED <<program, w, mail, ctl, road>>
  BY SlowsStep DEF IInv, Typed, Slow
<1>2. OthersStay(c)
  BY <1>1 DEF CarStep, Moved, OthersStay, Free
<1>3. Pc(c)' = "slow" /\ Pos(c)' = Pos(c) /\ Pos(c) \in Int
  <2>1. Pos(c) \in Int
    BY CarFields DEF IInv, Typed
  <2>2. car'[c].pc = "slow" /\ car'[c].pos = Pos(c)
    BY <1>1 DEF CarStep, Moved
  <2> QED BY <2>1, <2>2 DEF Pc, Pos
<1>4. \A i : Told(c, i)' <=> Told(c, i)
  BY <1>1, <1>3, ToldMeans
<1>5. StagesSame
  BY <1>1, <1>2, <1>3, <1>4, CarPasses DEF Among, CarStep, IInv, Typed
<1>6. BarriersAgree' /\ Zone'
  <2>1. OnRoad(c, "slow")
    BY <1>1, <1>2, <1>5 DEF OnRoad, PlanSame
  <2> QED BY <2>1, OnRoadZone DEF IInv
<1> QED BY <1>1, <1>5, <1>6, QuietCarKeeps

(***************************************************************************)
(* A car takes a cell where there is nothing to tell.                      *)
(***************************************************************************)
LEMMA TakeCellKeeps ==
  ASSUME IInv, NEW c \in Car, TakeCell(c)
  PROVE  IInv'
<1>1. /\ CarStep(c, Pos(c), "delay") /\ UNCHANGED <<program, w, mail, ctl>>
      /\ Pc(c) \in {"look", "again"} /\ road[Dir(c)][Pos(c)] = EMPTY
  BY TakesStep, MayTakeCell DEF IInv, Typed, TakeCell
<1>2. OthersStay(c)
  BY <1>1 DEF CarStep, Moved, OthersStay, Free
<1>3. Pc(c)' = "delay" /\ Pos(c)' = Pos(c) /\ Pos(c) \in Int
  <2>1. Pos(c) \in Int
    BY CarFields DEF IInv, Typed
  <2>2. car'[c].pc = "delay" /\ car'[c].pos = Pos(c)
    BY <1>1 DEF CarStep, Moved
  <2> QED BY <2>1, <2>2 DEF Pc, Pos
<1>4. \A i \in Stops : Told(c, i)' <=> Told(c, i)
  <2>1. \A i \in Stops : i # Pos(c)
    BY DEF TakeCell, Stops
  <2> QED BY <1>1, <1>3, <2>1, ToldMeans
<1>5. StagesSame
  BY <1>1, <1>2, <1>3, <1>4, CarPasses DEF Among, CarStep, IInv, Typed
<1>6. BarriersAgree' /\ Zone'
  <2>1. OnRoad(c, "delay")
    BY <1>1, <1>2, <1>5 DEF OnRoad, PlanSame
  <2> QED BY <2>1, OnRoadZone DEF IInv
<1>7. Pc(c) # "tell"
  BY <1>1
<1> QED BY <1>1, <1>5, <1>6, <1>7, QuietCarKeeps

(***************************************************************************)
(* A car that is not in the stretch, nor was there, comes or goes.         *)
(***************************************************************************)
LEMMA OffRoadZone ==
  ASSUME Typed, BarriersAgree, Zone, NEW c \in Car, NEW p, NEW q, CarStep(c, p, q), StagesSame,
         ~ InZone(c)', \A i, j \in Stops : ~ Among(c, i, j)', UNCHANGED <<program, w, ctl>>
  PROVE  BarriersAgree' /\ Zone'
<1>1. /\ CarsSound' /\ program' = program /\ ctl' = ctl /\ w' = w /\ program \in {"camino", "camino_ns"}
      /\ ZoneHeld /\ ClosesEmpty /\ LeavesAlone
  BY DEF Typed, CarStep, CarsSound, Zone
<1>2. BarriersAgree'
  BY <1>1, BarriersStay DEF CarStep, PlanSame
<1>3. \A e \in Car : e # c => /\ InZone(e)' <=> InZone(e)
                              /\ Leaving(e)' <=> Leaving(e)
                              /\ Pos(e)' = Pos(e) /\ Pc(e)' = Pc(e)
  BY <1>1 DEF CarStep, Moved, InZone, Leaving, Free, Pos, Pc
<1>4. ~ Leaving(c)'
  BY Places DEF Leaving, InZone
<1>5. ZoneHeld' /\ LeavesAlone'
  BY <1>1, <1>3, <1>4 DEF ZoneHeld, LeavesAlone, Holds
<1>6. \A e \in Car, i, j \in Stops : i < j => (Among(e, i, j)' <=> Among(e, i, j))
  BY DEF StagesSame
<1>7. ClosesEmpty'
  <2>1. ASSUME NEW e \in Car, program = "camino", Dir(e) = ctl.close, Among(e, SENSOR1_POS, SENSOR2_POS)'
        PROVE  Pos(e)' = SENSOR1_POS /\ Pc(e)' = "delay"
    <3>1. e # c /\ Among(e, SENSOR1_POS, SENSOR2_POS)
      BY <1>6, <2>1, SensorsInStops
    <3> QED BY <1>1, <1>3, <2>1, <3>1 DEF ClosesEmpty, Among
  <2>2. ASSUME NEW e \in Car, program = "camino_ns", ctl.state # "DRAINING", Dir(e) = ctl.close
        PROVE  ~ Among(e, BARRIER_POS, SENSOR2_POS)'
    <3>1. Among(e, BARRIER_POS, SENSOR2_POS)' <=> Among(e, BARRIER_POS, SENSOR2_POS)
      BY <1>6, <2>2, SensorsInStops
    <3> QED BY <1>1, <2>2, <3>1 DEF ClosesEmpty, Among
  <2> QED BY <1>1, <2>1, <2>2 DEF ClosesEmpty, Among
<1> QED BY <1>2, <1>5, <1>7 DEF Zone

(***************************************************************************)
(* The sensors are on the road.                                            *)
(***************************************************************************)
LEMMA StopsOnRoad ==
  ASSUME NEW i \in Stops
  PROVE  i \in Int /\ 0 < i /\ i < ROAD_END
<1>1. i \in {SENSOR1_POS, BARRIER_POS, SENSOR2_POS}
  BY StopsAre DEF Sensors
<1> QED BY <1>1, Places

(***************************************************************************)
(* A car goes off the road.                                                *)
(***************************************************************************)
LEMMA FinishKeeps ==
  ASSUME IInv, NEW c \in Car, Finish(c)
  PROVE  IInv'
<1>1. /\ Pc(c) = "look" /\ Pos(c) = ROAD_END + 1 /\ CarStep(c, 0, "gone")
      /\ UNCHANGED <<program, w, mail, ctl>>
  BY FinishStep DEF IInv, Typed, Finish
<1>2. OthersStay(c)
  BY <1>1 DEF CarStep, Moved, OthersStay, Free
<1>3. Pc(c)' = "gone"
  <2>1. car'[c].pc = "gone"
    BY <1>1 DEF CarStep, Moved
  <2> QED BY <2>1 DEF Pc
<1>4. \A i, j \in Stops : ~ Among(c, i, j) /\ ~ Among(c, i, j)'
  <2>1. \A j \in Stops : Told(c, j)
    BY <1>1, StopsOnRoad, Places, ToldMeans
  <2>2. \A i : ~ Told(c, i)'
    BY <1>3, ToldMeans
  <2> QED BY <2>1, <2>2 DEF Among
<1>5. StagesSame
  BY <1>1, <1>2, <1>4, CarPasses DEF CarStep, IInv, Typed
<1>6. ~ InZone(c)'
  BY <1>3 DEF InZone
<1>7. BarriersAgree' /\ Zone'
  BY <1>1, <1>4, <1>5, <1>6, OffRoadZone DEF IInv
<1>8. Pc(c) # "tell"
  BY <1>1
<1> QED BY <1>1, <1>5, <1>7, <1>8, QuietCarKeeps

(***************************************************************************)
(* A car comes to the road.                                                *)
(***************************************************************************)
LEMMA EntersKeeps ==
  ASSUME IInv, NEW d \in Directions, send_car(d)
  PROVE  IInv'
<1>1. PICK c \in Car : Pc(c) = "gone" /\ CarStep(c, 0, "look")
  BY EntersStep DEF IInv, Typed
<1>2. UNCHANGED <<program, w, mail, ctl>>
  BY DEF send_car
<1>3. OthersStay(c)
  BY <1>1, <1>2 DEF CarStep, Moved, OthersStay, Free
<1>4. Pc(c)' = "look" /\ Pos(c)' = 0
  <2>1. car'[c].pc = "look" /\ car'[c].pos = 0
    BY <1>1 DEF CarStep, Moved
  <2> QED BY <2>1 DEF Pc, Pos
<1>5. \A i, j \in Stops : ~ Among(c, i, j) /\ ~ Among(c, i, j)'
  <2>1. \A i : ~ Told(c, i)
    BY <1>1, ToldMeans
  <2>2. \A i \in Stops : ~ Told(c, i)'
    <3> SUFFICES ASSUME NEW i \in Stops PROVE ~ Told(c, i)'
      OBVIOUS
    <3>1. i \in Int /\ 0 < i
      BY StopsOnRoad
    <3> QED BY <1>4, <3>1, ToldMeans
  <2> QED BY <2>1, <2>2 DEF Among
<1>6. StagesSame
  BY <1>1, <1>2, <1>3, <1>5, CarPasses DEF CarStep, IInv, Typed
<1>7. ~ InZone(c)'
  BY <1>4, Places DEF InZone
<1>8. BarriersAgree' /\ Zone'
  BY <1>1, <1>2, <1>5, <1>6, <1>7, OffRoadZone DEF IInv
<1>9. Pc(c) # "tell"
  BY <1>1
<1> QED BY <1>1, <1>2, <1>6, <1>8, <1>9, QuietCarKeeps

(***************************************************************************)
(* The step of a car that tells control, or asks to: the rest follows from *)
(* what it does to the messages and to the counts.                         *)
(***************************************************************************)
LEMMA OnRoadKeeps ==
  ASSUME IInv, NEW c \in Car, NEW q, OnRoad(c, q), Letters', Linked(w'), mail' \in Posts \cup {NoMsg},
         ctl' \in Controls_, Planned', CountsAgree', ctl'.cars = ctl.cars, ctl'.in_road = ctl.in_road,
         MailMeans'
  PROVE  IInv'
<1>1. CarsSound' /\ CellsAgree' /\ program' = program /\ PlanSame
  BY DEF OnRoad, CarStep
<1>2. BarriersAgree' /\ Zone'
  BY OnRoadZone DEF IInv
<1>3. Typed'
  BY <1>1 DEF Typed, Posts
<1>4. Settled'
  BY <1>1, SettledSame DEF IInv
<1> QED BY <1>1, <1>2, <1>3, <1>4 DEF IInv

(***************************************************************************)
(* A car that tells control and goes on passes the sensor.                 *)
(***************************************************************************)
LEMMA TellsAndGoes ==
  ASSUME CarsSound, NEW c \in Car, CarStep(c, Pos(c), "delay"), OthersStay(c), program' = program,
         Tells(Pos(c)) # NoMsg, Pc(c) # "gone", ~ Told(c, Pos(c))
  PROVE  StagesPass(c)
<1>0. PICK p : p = Pos(c)
  OBVIOUS
<1>1. Moved(c, Pos(c), "delay") /\ Tells(p) # NoMsg /\ ~ Told(c, p)
  BY <1>0 DEF CarStep
<1>2. Pc(c)' = "delay" /\ Pos(c)' = p
  <2>1. car'[c].pc = "delay" /\ car'[c].pos = p
    BY <1>0, <1>1 DEF Moved
  <2> QED BY <2>1 DEF Pc, Pos
<1>3. Told(c, p)'
  BY <1>2, ToldMeans
<1> QED BY <1>0, <1>1, <1>3, CarTells

(***************************************************************************)
(* A car that may take a cell runs, and has not told of that cell yet.     *)
(***************************************************************************)
LEMMA MayTakeFree ==
  ASSUME CarsSound, NEW c \in Car, MayTake(c)
  PROVE  /\ Free(c) /\ Pc(c) \in {"look", "again"} /\ ~ Told(c, Pos(c)) /\ Pos(c) \in Int
         /\ road[Dir(c)][Pos(c)] = EMPTY
<1>1. Pc(c) \in {"look", "again"} /\ road[Dir(c)][Pos(c)] = EMPTY
  BY MayTakeCell
<1>2. Pos(c) \in Int
  BY CarFields
<1>3. Free(c)
  BY AtFree DEF MayTake
<1> DEFINE p == Pos(c)
<1>4. p = Pos(c)
  OBVIOUS
<1> HIDE DEF p
<1>5. ~ Told(c, p)
  BY <1>1, <1>2, <1>4, ToldMeans
<1> QED BY <1>1, <1>2, <1>3, <1>4, <1>5

(***************************************************************************)
(* put_msg, when the mailbox is empty.                                     *)
(***************************************************************************)
LEMMA PutMsgNowKeeps ==
  ASSUME IInv, program = "camino", NEW c \in Car, PutMsg(c), w.value[mail_empty] > 0
  PROVE  IInv'
<1>1. /\ MayTake(c) /\ Tells(Pos(c)) # NoMsg /\ mail' = Message(c)
      /\ w' = Returned(SignalSem(WaitSem(w, c, mail_empty, FOREVER), mail_full), c)
      /\ Drives(c, Taken(c)) /\ program' = program /\ ctl' = ctl
  BY DEF PutMsg
<1>2. Typed /\ CarsSound /\ Linked(w) /\ MailboxAgrees /\ Planned /\ CountsAgree /\ CellsAgree /\ ctl \in Controls_
  BY DEF IInv, Typed, Letters
<1>3. CarStep(c, Pos(c), "delay") /\ Free(c) /\ Pc(c) \in {"look", "again"} /\ ~ Told(c, Pos(c)) /\ Pos(c) \in Int
      /\ road[Dir(c)][Pos(c)] = EMPTY
  BY <1>1, <1>2, TakesStep, MayTakeFree
<1>4. OthersStay(c)
  BY <1>3 DEF CarStep, Moved, OthersStay
<1>5. StagesPass(c)
  BY <1>1, <1>2, <1>3, <1>4, TellsAndGoes
<1>6. Message(c) \in Posts /\ Message(c) # NoMsg
  BY <1>1, <1>2, MessageFields
<1>7. MailboxAgrees' /\ Linked(w') /\ mail = NoMsg
  <2> DEFINE v == WaitSem(w, c, mail_empty, FOREVER)
  <2>1. w.value[mail_empty] = 1 /\ mail = NoMsg /\ \A e \in Car : e \notin Woken
    <3>1. w.value[mail_empty] = 1
      BY <1>2, Mailboxes, MailCounts DEF MailboxAgrees
    <3>2. mail = NoMsg /\ \A e \in Car : Pc(e) # "tell"
      BY <1>2, <3>1 DEF MailboxAgrees
    <3> QED BY <3>1, <3>2 DEF Woken
  <2>2. Passes(w, v, c, mail_empty)
    <3>1. where(w)[c] = {} /\ c \in Task
      BY <1>3, Sides DEF Free
    <3> QED BY <1>2, <2>1, <3>1, Mailboxes, WaitSemEffect
  <2>3. Gives(v, w', mail_full)
    BY <1>1, <2>2, Sides, Mailboxes, SignalGives DEF Passes, Stays
  <2> HIDE DEF v
  <2>4. /\ Linked(v) /\ where(v) = where(w) /\ v.value[mail_full] = w.value[mail_full]
        /\ v.value[mail_empty] = 0
    BY <1>2, <2>1, <2>2, Mailboxes, MailCounts DEF Passes, Stays
  <2>5. mail' # NoMsg /\ Moved(c, Pos(c), "delay")
    BY <1>1, <1>3, <1>6 DEF CarStep
  <2>6. MailboxAgrees' /\ Linked(w')
    BY <1>1, <1>2, <1>3, <2>1, <2>3, <2>4, <2>5, MailPut
  <2> QED BY <2>1, <2>6
<1>8. CountsAgree'
  BY <1>1, <1>2, <1>5, <1>7, CountsPosted
<1>9. OnRoad(c, "delay")
  BY <1>1, <1>3, <1>4, <1>5 DEF OnRoad, PlanSame
<1>10. Letters' /\ Planned'
  BY <1>1, <1>2, <1>7 DEF Letters, Planned
<1>11. mail' \in Posts \cup {NoMsg} /\ ctl' \in Controls_
  BY <1>1, <1>2, <1>6
<1>12. MailMeans'
  BY <1>1, <1>2, <1>5, <1>6, <1>9, MailMeansPosted DEF OnRoad, Posts
<1> QED BY <1>1, <1>7, <1>8, <1>9, <1>10, <1>11, <1>12, OnRoadKeeps

(***************************************************************************)
(* put_msg, when the mailbox is not empty.                                 *)
(***************************************************************************)
LEMMA PutMsgLaterKeeps ==
  ASSUME IInv, program = "camino", NEW c \in Car, PutMsg(c), ~ w.value[mail_empty] > 0
  PROVE  IInv'
<1>1. /\ MayTake(c) /\ Tells(Pos(c)) # NoMsg /\ mail' = mail
      /\ w' = WaitSem(w, c, mail_empty, FOREVER)
      /\ WaitsToTell(c) /\ program' = program /\ ctl' = ctl
  BY DEF PutMsg
<1>2. Typed /\ CarsSound /\ Linked(w) /\ MailboxAgrees /\ Planned /\ CountsAgree /\ CellsAgree /\ ctl \in Controls_
      /\ mail \in Posts \cup {NoMsg}
  BY DEF IInv, Typed, Letters
<1>3. CarStep(c, Pos(c), "tell") /\ Free(c) /\ Pc(c) \in {"look", "again"} /\ Pos(c) \in Int
      /\ road[Dir(c)][Pos(c)] = EMPTY
  BY <1>1, <1>2, WaitsStep, MayTakeFree
<1>4. OthersStay(c)
  BY <1>3 DEF CarStep, Moved, OthersStay
<1>5. StagesSame
  <2>1. Pc(c)' = "tell" /\ Pos(c)' = Pos(c)
    <3>1. car'[c].pc = "tell" /\ car'[c].pos = Pos(c)
      BY <1>3 DEF CarStep, Moved
    <3> QED BY <3>1 DEF Pc, Pos
  <2>2. \A i : Told(c, i)' <=> Told(c, i)
    BY <1>1, <1>3, <2>1, ToldMeans
  <2> QED BY <1>1, <1>2, <1>3, <1>4, <2>2, CarPasses DEF Among, CarStep
<1>6. MailboxAgrees' /\ Linked(w')
  <2>1. w.value[mail_empty] = 0
    BY <1>2, MailCounts
  <2>2. Joins(w, w', c, mail_empty)
    <3>1. where(w)[c] = {} /\ c \in Task
      BY <1>3, Sides DEF Free
    <3> QED BY <1>1, <1>2, <2>1, <3>1, Mailboxes, WaitSemEffect DEF Passes
  <2>3. Moved(c, Pos(c), "tell") /\ Pc(c) # "tell"
    BY <1>3 DEF CarStep
  <2> QED BY <1>1, <1>2, <1>3, <2>1, <2>2, <2>3, MailAsked
<1>7. CountsAgree'
  BY <1>1, <1>2, <1>5, CountsSame
<1>8. OnRoad(c, "tell")
  BY <1>1, <1>3, <1>4, <1>5 DEF OnRoad, PlanSame
<1>9. Letters' /\ Planned'
  BY <1>1, <1>2, <1>6 DEF Letters, Planned
<1>10. mail' \in Posts \cup {NoMsg} /\ ctl' \in Controls_
  BY <1>1, <1>2
<1>11. MailMeans'
  BY <1>1, <1>5, <1>8, MailMeansSame DEF OnRoad, IInv
<1> QED BY <1>1, <1>6, <1>7, <1>8, <1>9, <1>10, <1>11, OnRoadKeeps

(***************************************************************************)
(* put_msg, when the mailbox has been emptied.                             *)
(***************************************************************************)
LEMMA PutMsgWokenKeeps ==
  ASSUME IInv, program = "camino", NEW c \in Car, PutMsgWoken(c)
  PROVE  IInv'
<1>1. /\ At(c, "tell") /\ mail' = Message(c) /\ w' = Returned(SignalSem(w, mail_full), c)
      /\ Drives(c, road) /\ program' = program /\ ctl' = ctl
  BY DEF PutMsgWoken
<1>2. Typed /\ CarsSound /\ Linked(w) /\ MailboxAgrees /\ Planned /\ CountsAgree /\ CellsAgree /\ ctl \in Controls_
  BY DEF IInv, Typed, Letters
<1>3. Pc(c) = "tell" /\ Free(c) /\ Tells(Pos(c)) # NoMsg /\ Pos(c) \in Int
  BY <1>1, <1>2, AtFree, CarFields DEF CarsSound
<1>4. CarStep(c, Pos(c), "delay")
  BY <1>1, <1>2, <1>3, LeavesStep
<1>5. OthersStay(c)
  BY <1>4 DEF CarStep, Moved, OthersStay
<1>6. ~ Told(c, Pos(c))
  <2> DEFINE p == Pos(c)
  <2>1. p = Pos(c) /\ p \in Int
    BY <1>3
  <2> HIDE DEF p
  <2>2. ~ Told(c, p)
    BY <1>3, <2>1, ToldMeans
  <2> QED BY <2>1, <2>2
<1>7. StagesPass(c)
  BY <1>1, <1>2, <1>3, <1>4, <1>5, <1>6, TellsAndGoes
<1>8. Message(c) \in Posts /\ Message(c) # NoMsg
  BY <1>2, <1>3, MessageFields
<1>9. MailboxAgrees' /\ Linked(w') /\ mail = NoMsg
  <2>1. mail = NoMsg /\ w.value[mail_empty] = 0 /\ \A e \in Car : e # c => e \notin Woken
    <3>1. c \in Woken
      BY <1>3 DEF Woken
    <3> QED BY <1>2, <3>1 DEF MailboxAgrees
  <2>2. Gives(w, w', mail_full)
    BY <1>1, <1>2, Sides, Mailboxes, SignalGives
  <2>3. mail' # NoMsg /\ Moved(c, Pos(c), "delay")
    BY <1>1, <1>4, <1>8 DEF CarStep
  <2>4. MailboxAgrees' /\ Linked(w')
    BY <1>1, <1>2, <1>3, <2>1, <2>2, <2>3, MailPut
  <2> QED BY <2>1, <2>4
<1>10. CountsAgree'
  BY <1>1, <1>2, <1>3, <1>7, <1>9, CountsPosted
<1>11. OnRoad(c, "delay")
  BY <1>1, <1>3, <1>4, <1>5, <1>7 DEF OnRoad, PlanSame
<1>12. Letters' /\ Planned'
  BY <1>1, <1>2, <1>9 DEF Letters, Planned
<1>13. mail' \in Posts \cup {NoMsg} /\ ctl' \in Controls_
  BY <1>1, <1>2, <1>8
<1>14. MailMeans'
  BY <1>1, <1>2, <1>3, <1>7, <1>8, <1>11, MailMeansPosted DEF OnRoad, Posts
<1> QED BY <1>1, <1>9, <1>10, <1>11, <1>12, <1>13, <1>14, OnRoadKeeps

(***************************************************************************)
(* Send, when control waits in Receive.                                    *)
(***************************************************************************)
LEMMA SendNowKeeps ==
  ASSUME IInv, program = "camino_ns", NEW c \in Car, Send(c), ctl.pc = "receive"
  PROVE  IInv'
<1>1. /\ MayTake(c) /\ Tells(Pos(c)) # NoMsg /\ mail' = Message(c) /\ w' = w
      /\ Drives(c, Taken(c)) /\ program' = program /\ ctl' = [ctl EXCEPT !.pc = "got"]
  BY DEF Send
<1>2. Typed /\ CarsSound /\ Linked(w) /\ MessagesAgree /\ Planned /\ CountsAgree /\ CellsAgree /\ ctl \in Controls_
  BY DEF IInv, Typed, Letters
<1>3. CarStep(c, Pos(c), "delay") /\ Free(c) /\ Pc(c) \in {"look", "again"} /\ ~ Told(c, Pos(c)) /\ Pos(c) \in Int
      /\ road[Dir(c)][Pos(c)] = EMPTY
  BY <1>1, <1>2, TakesStep, MayTakeFree
<1>4. OthersStay(c) /\ \A t : (Free(t)' <=> Free(t)) /\ where(w')[t] = where(w)[t]
  BY <1>1, <1>3 DEF CarStep, Moved, OthersStay, Free
<1>5. StagesPass(c)
  BY <1>1, <1>2, <1>3, <1>4, TellsAndGoes
<1>6. Message(c) \in Posts /\ Message(c) # NoMsg
  BY <1>1, <1>2, MessageFields
<1>7. /\ ctl'.pc = "got" /\ ctl'.close = ctl.close /\ ctl'.open = ctl.open /\ ctl'.state = ctl.state
      /\ ctl'.dir = ctl.dir /\ ctl'.cars = ctl.cars /\ ctl'.in_road = ctl.in_road /\ ctl' \in Controls_
  BY <1>1, <1>2 DEF Controls_
<1>8. mail = NoMsg /\ ctl.close = Nobody /\ ctl.open = Nobody
  BY <1>2, NothingPlanned DEF MessagesAgree
<1>9. MessagesAgree'
  <2>1. \A e \in Car : e # c => Pc(e)' = Pc(e)
    BY <1>3 DEF CarStep, Moved, Pc
  <2> QED BY <1>1, <1>2, <1>3, <1>4, <1>6, <1>7, <2>1 DEF MessagesAgree
<1>10. CountsAgree'
  BY <1>1, <1>2, <1>5, <1>7, <1>8, CountsPosted
<1>11. OnRoad(c, "delay")
  BY <1>1, <1>3, <1>4, <1>5, <1>7, <1>8 DEF OnRoad, PlanSame
<1>12. Planned'
  BY <1>1, <1>2, <1>7, <1>8 DEF Planned
<1>13. Letters' /\ Linked(w') /\ mail' \in Posts \cup {NoMsg}
  BY <1>1, <1>2, <1>6, <1>9 DEF Letters
<1>14. MailMeans'
  <2>1. Message(c).kind = "BARRIER" => LetIn(Dir(c))
    <3>1. Message(c).kind = "BARRIER" => Pos(c) = BARRIER_POS
      BY <1>1, <1>2, <1>3, MessageFields, TellsAtSensor, Places DEF Sensors
    <3> QED BY <1>3, <3>1, Sides DEF BarriersAgree, IInv
  <2> QED BY <1>1, <1>2, <1>5, <1>11, <2>1, MailMeansPosted DEF OnRoad
<1> QED BY <1>7, <1>10, <1>11, <1>12, <1>13, <1>14, OnRoadKeeps

(***************************************************************************)
(* Send, when control does not wait.                                       *)
(***************************************************************************)
LEMMA SendLaterKeeps ==
  ASSUME IInv, program = "camino_ns", NEW c \in Car, Send(c), ctl.pc # "receive"
  PROVE  IInv'
<1>1. /\ MayTake(c) /\ Tells(Pos(c)) # NoMsg /\ mail' = mail /\ w' = WaitQueue(w, c, send_queue, FOREVER)
      /\ WaitsToTell(c) /\ program' = program /\ ctl' = ctl
  BY DEF Send
<1>2. Typed /\ CarsSound /\ Linked(w) /\ MessagesAgree /\ Planned /\ CountsAgree /\ CellsAgree /\ ctl \in Controls_
      /\ mail \in Posts \cup {NoMsg}
  BY DEF IInv, Typed, Letters
<1>3. CarStep(c, Pos(c), "tell") /\ Free(c) /\ Pc(c) \in {"look", "again"} /\ Pos(c) \in Int
      /\ road[Dir(c)][Pos(c)] = EMPTY
  BY <1>1, <1>2, WaitsStep, MayTakeFree
<1>4. /\ Linked(w') /\ where(w')[c] = {send_queue} /\ \A t \in Task : t # c => where(w')[t] = where(w)[t]
      /\ w'.value = w.value
  <2>1. where(w)[c] = {} /\ c \in Task
    BY <1>3, Sides DEF Free
  <2>2. Joins(w, w', c, send_queue)
    BY <1>1, <1>2, <2>1, Mailboxes, WaitQueueEffect
  <2> QED BY <1>2, <2>1, <2>2, MailCounts DEF Joins
<1>5. ~ Free(c)' /\ \A t \in Task : t # c => (Free(t)' <=> Free(t))
  BY <1>4, Mailboxes DEF Free
<1>6. OthersStay(c)
  BY <1>3, <1>5, Sides DEF CarStep, Moved, OthersStay
<1>7. Pc(c)' = "tell" /\ Pos(c)' = Pos(c)
  <2>1. car'[c].pc = "tell" /\ car'[c].pos = Pos(c)
    BY <1>3 DEF CarStep, Moved
  <2> QED BY <2>1 DEF Pc, Pos
<1>8. StagesSame
  <2>1. \A i : Told(c, i)' <=> Told(c, i)
    BY <1>1, <1>3, <1>5, <1>7, ToldMeans
  <2> QED BY <1>1, <1>2, <1>3, <1>6, <2>1, CarPasses DEF Among, CarStep
<1>9. MessagesAgree'
  <2>1. \A e \in Car : e # c => Pc(e)' = Pc(e)
    BY <1>3 DEF CarStep, Moved, Pc
  <2>2. \A e \in Car : ~ Free(e)' => where(w')[e] = {send_queue} /\ Pc(e)' = "tell"
    BY <1>2, <1>4, <1>5, <1>7, <2>1, Sides DEF MessagesAgree
  <2> QED BY <1>1, <1>2, <1>4, <1>5, <2>2, Mailboxes DEF MessagesAgree
<1>10. CountsAgree'
  BY <1>1, <1>2, <1>8, CountsSame
<1>11. OnRoad(c, "tell")
  BY <1>1, <1>3, <1>5, <1>6, <1>8 DEF OnRoad, PlanSame
<1>12. Planned' /\ Letters'
  BY <1>1, <1>2, <1>9 DEF Planned, Letters
<1>13. mail' \in Posts \cup {NoMsg} /\ ctl' \in Controls_
  BY <1>1, <1>2
<1>14. MailMeans'
  BY <1>1, <1>8, <1>11, MailMeansSame DEF OnRoad, IInv
<1> QED BY <1>1, <1>4, <1>10, <1>11, <1>12, <1>13, <1>14, OnRoadKeeps

(***************************************************************************)
(* Send, when control has taken the message.                               *)
(***************************************************************************)
LEMMA SentKeeps ==
  ASSUME IInv, program = "camino_ns", NEW c \in Car, Sent(c)
  PROVE  IInv'
<1>1. /\ At(c, "tell") /\ mail' = mail /\ w' = Returned(w, c)
      /\ Drives(c, road) /\ program' = program /\ ctl' = ctl
  BY DEF Sent
<1>2. Typed /\ CarsSound /\ Linked(w) /\ MessagesAgree /\ Planned /\ CountsAgree /\ CellsAgree /\ ctl \in Controls_
      /\ mail \in Posts \cup {NoMsg}
  BY DEF IInv, Typed, Letters
<1>3. Pc(c) = "tell" /\ Free(c) /\ Pos(c) \in Int
  BY <1>1, <1>2, AtFree, CarFields
<1>4. CarStep(c, Pos(c), "delay")
  BY <1>1, <1>2, <1>3, LeavesStep
<1>5. Linked(w') /\ where(w') = where(w) /\ w'.value = w.value
  BY <1>1, <1>2, Sides, ReturnedEffect DEF Stays
<1>6. (\A t : Free(t)' <=> Free(t)) /\ OthersStay(c)
  BY <1>4, <1>5 DEF Free, CarStep, Moved, OthersStay
<1>7. Pc(c)' = "delay" /\ Pos(c)' = Pos(c)
  <2>1. car'[c].pc = "delay" /\ car'[c].pos = Pos(c)
    BY <1>4 DEF CarStep, Moved
  <2> QED BY <2>1 DEF Pc, Pos
<1>8. StagesSame
  <2>1. \A i : Told(c, i)' <=> Told(c, i)
    BY <1>1, <1>3, <1>7, ToldMeans
  <2> QED BY <1>1, <1>2, <1>3, <1>4, <1>6, <2>1, CarPasses DEF Among, CarStep
<1>9. MessagesAgree'
  <2>1. \A e \in Car : e # c => Pc(e)' = Pc(e)
    BY <1>4 DEF CarStep, Moved, Pc
  <2> QED BY <1>1, <1>2, <1>3, <1>5, <1>6, <2>1 DEF MessagesAgree
<1>10. CountsAgree'
  BY <1>1, <1>2, <1>8, CountsSame
<1>11. OnRoad(c, "delay")
  BY <1>1, <1>3, <1>4, <1>6, <1>8 DEF OnRoad, PlanSame
<1>12. Planned' /\ Letters'
  BY <1>1, <1>2, <1>9 DEF Planned, Letters
<1>13. mail' \in Posts \cup {NoMsg} /\ ctl' \in Controls_
  BY <1>1, <1>2
<1>14. MailMeans'
  BY <1>1, <1>8, <1>11, MailMeansSame DEF OnRoad, IInv
<1> QED BY <1>1, <1>5, <1>10, <1>11, <1>12, <1>13, <1>14, OnRoadKeeps

-----------------------------------------------------------------------------
(***************************************************************************)
(* The cars and the road when no car takes part in a step.                 *)
(***************************************************************************)
LEMMA CarsRest ==
  ASSUME CarsSound, CellsAgree, UNCHANGED <<program, road, car, delayed>>
  PROVE  CarsSound' /\ CellsAgree'
<1>1. CarsSound'
  <2>1. \A i : Tells(i)' = Tells(i)
    BY DEF Tells
  <2>2. Asleep' /\ BarriersPlaced'
    BY DEF CarsSound, Asleep, BarriersPlaced, Pc
  <2> QED BY <2>1, <2>2 DEF CarsSound, Pc, Pos, Tells
<1>2. \A c \in Car : Occupies(c)' = Occupies(c)
  BY DEF Occupies, Behind, Pos
<1> QED BY <1>1, <1>2 DEF CellsAgree

(***************************************************************************)
(* Told stays told as long as neither cars nor their queues change.        *)
(***************************************************************************)
LEMMA ToldRests ==
  ASSUME UNCHANGED <<program, car>>, program = "camino_ns" => \A e \in Car : Free(e)' <=> Free(e)
  PROVE  /\ StagesSame
         /\ \A c \in Car : \A i : Told(c, i)' <=> Told(c, i)
         /\ \A c \in Car : /\ Pos(c)' = Pos(c) /\ Pc(c)' = Pc(c)
                           /\ InZone(c)' <=> InZone(c)
                           /\ Leaving(c)' <=> Leaving(c)
<1>1. \A c : Pos(c)' = Pos(c) /\ Pc(c)' = Pc(c)
  BY DEF Pos, Pc
<1>2. ASSUME NEW c \in Car, NEW i PROVE Told(c, i)' <=> Told(c, i)
  BY <1>1, ToldMeans
<1>3. \A c \in Car : (InZone(c)' <=> InZone(c)) /\ (Leaving(c)' <=> Leaving(c))
  BY <1>1 DEF InZone, Leaving
<1> QED BY <1>1, <1>2, <1>3 DEF StagesSame, Among

(***************************************************************************)
(* A step of control that plans nothing and moves no barrier.              *)
(***************************************************************************)
LEMMA ControlRests ==
  ASSUME IInv, UNCHANGED <<program, road, car, delayed, mail>>, PlanSame,
         program = "camino_ns" => \A e \in Car : Free(e)' <=> Free(e),
         ctl'.cars = ctl.cars, ctl'.in_road = ctl.in_road, ctl' \in Controls_,
         Letters', Linked(w'), Planned'
  PROVE  IInv'
<1>1. Typed /\ CarsSound /\ CellsAgree /\ CountsAgree /\ BarriersAgree /\ Zone
  BY DEF IInv, Typed
<1>2. CarsSound' /\ CellsAgree'
  BY <1>1, CarsRest
<1>3. CountsAgree'
  BY <1>1, ToldRests, CountsSame
<1>4. BarriersAgree'
  BY <1>1 DEF BarriersAgree, LetIn, PlanSame
<1>5. Zone'
  BY <1>1, ToldRests DEF Zone, ZoneHeld, ClosesEmpty, LeavesAlone, Holds, PlanSame
<1>6. Typed'
  BY <1>1, <1>2 DEF Typed, Posts
<1>7. Settled' /\ MailMeans'
  BY ToldRests, SettledSame, MailMeansSame DEF IInv
<1> QED BY <1>2, <1>3, <1>4, <1>5, <1>6, <1>7 DEF IInv

(***************************************************************************)
(* Control asks for a message (camino).                                    *)
(***************************************************************************)
LEMMA ControlAsks ==
  ASSUME IInv, program = "camino", WaitMsg
  PROVE  IInv'
<1>1. /\ ctl.pc = "get" /\ ctl' = [ctl EXCEPT !.pc = "got"] /\ UNCHANGED <<program, road, car, delayed, mail>>
  BY DEF WaitMsg, Controls
<1>2. MailboxAgrees /\ Linked(w) /\ ctl \in Controls_ /\ Planned
  BY DEF IInv, Typed, Letters
<1>3. MailboxAgrees' /\ Linked(w')
  BY <1>2, MailWaited
<1>4. /\ ctl'.pc = "got" /\ PlanSame /\ ctl'.cars = ctl.cars /\ ctl'.in_road = ctl.in_road /\ ctl' \in Controls_
  BY <1>1, <1>2 DEF Controls_, PlanSame
<1>5. Planned'
  BY <1>1, <1>2, <1>4 DEF Planned, PlanSame
<1>6. Letters'
  BY <1>1, <1>3 DEF Letters
<1> QED BY <1>1, <1>3, <1>4, <1>5, <1>6, ControlRests

(***************************************************************************)
(* Control waits for a message (camino_ns).                                *)
(***************************************************************************)
LEMMA ControlWaits ==
  ASSUME IInv, program = "camino_ns", Receive, w.list[send_queue] = <<>>
  PROVE  IInv'
<1>1. /\ ctl.pc = "get" /\ ctl' = [ctl EXCEPT !.pc = "receive"] /\ w' = w
      /\ UNCHANGED <<program, road, car, delayed, mail>>
  BY DEF Receive, Controls
<1>2. MessagesAgree /\ Linked(w) /\ ctl \in Controls_ /\ Planned
  BY DEF IInv, Typed, Letters
<1>3. /\ ctl'.pc = "receive" /\ PlanSame /\ ctl'.cars = ctl.cars /\ ctl'.in_road = ctl.in_road
      /\ ctl' \in Controls_
  BY <1>1, <1>2 DEF Controls_, PlanSame
<1>4. \A t : (Free(t)' <=> Free(t)) /\ where(w')[t] = where(w)[t] /\ Pc(t)' = Pc(t)
  BY <1>1 DEF Free, Pc
<1>5. MessagesAgree'
  <2>1. \A c \in Car : Free(c)
    <3> SUFFICES ASSUME NEW c \in Car, ~ Free(c) PROVE FALSE
      OBVIOUS
    <3>1. where(w)[c] = {send_queue} /\ c \in Task
      BY <1>2, Sides DEF MessagesAgree
    <3> QED BY <1>2, <3>1, QueueMembers, Mailboxes
  <2> QED BY <1>1, <1>2, <1>3, <1>4, <2>1 DEF MessagesAgree
<1>6. Planned'
  BY <1>1, <1>2, <1>3 DEF Planned, PlanSame
<1>7. Letters' /\ Linked(w')
  BY <1>1, <1>2, <1>5 DEF Letters
<1> QED BY <1>1, <1>3, <1>4, <1>6, <1>7, ControlRests

(***************************************************************************)
(* What of the counts is left of a message that has been handled.          *)
(***************************************************************************)
LEMMA HandledCounts ==
  ASSUME NEW k \in Controls_, NEW m \in Messages, program \in {"camino", "camino_ns"}
  PROVE  LET e == Handled(k, m)
         IN  /\ e.cars = Counted(k, m).cars /\ e.cars \in [Directions -> Int]
             /\ e.in_road = Counted(k, m).in_road /\ e.in_road \in Int
             /\ e.pc \notin {"got", "receive"}
<1> DEFINE n == Counted(k, m)
           plan == IF program = "camino" THEN Decide(n) ELSE DecideNs(n)
           pc == IF plan.close # Nobody THEN "close" ELSE IF plan.open # Nobody THEN "open" ELSE "get"
           e == [n EXCEPT !.pc = pc, !.close = plan.close, !.open = plan.open, !.state = plan.state, !.dir = plan.dir]
<1>1. Handled(k, m) = e /\ pc \notin {"got", "receive"}
  BY DEF Handled
<1>2. n \in Controls_
  BY CountedFields
<1> HIDE DEF n, plan, pc
<1>3. e.cars = n.cars /\ e.in_road = n.in_road /\ e.pc = pc
  BY <1>2 DEF Controls_
<1>4. n.cars \in [Directions -> Int] /\ n.in_road \in Int
  BY <1>2 DEF Controls_
<1> HIDE DEF e
<1> QED BY <1>1, <1>3, <1>4 DEF n

(***************************************************************************)
(* Control handles a message, which u has sent.                            *)
(***************************************************************************)
LEMMA ControlHandles ==
  ASSUME IInv, NEW m \in Messages, NEW u, ctl' = Handled(ctl, m), ctl.pc \in {"get", "got"},
         UNCHANGED <<program, road, car, delayed>>, mail' = NoMsg,
         program = "camino_ns" => \A e \in Car : Free(e)' <=> Free(e) \/ e = u,
         m.kind = "BARRIER" => program = "camino_ns" /\ LetIn(m.dir),
         Letters', Linked(w'), CountsAgree'
  PROVE  IInv'
<1>1. /\ Typed /\ CarsSound /\ CellsAgree /\ BarriersAgree /\ Zone /\ Planned
      /\ ctl \in Controls_ /\ program \in {"camino", "camino_ns"}
  BY DEF IInv, Typed, CarsSound
<1>2. CarsSound' /\ CellsAgree'
  BY <1>1, CarsRest
<1>3. /\ ctl'.cars = Counted(ctl, m).cars /\ ctl'.cars \in [Directions -> Int]
      /\ ctl'.in_road = Counted(ctl, m).in_road /\ ctl'.in_road \in Int
  BY <1>1, HandledCounts
<1>4. /\ program = "camino" => \A d \in Directions :
           /\ ctl'.cars[d] >= 0
           /\ ctl'.cars[d] = 0 => \A c \in Car : Dir(c) = d => ~ Among(c, SENSOR1_POS, SENSOR2_POS)'
      /\ program = "camino_ns" =>
           /\ ctl'.in_road >= 0
           /\ ctl'.in_road = 0 => \A c \in Car : ~ Among(c, BARRIER_POS, SENSOR2_POS)'
           /\ \A d \in Directions : ctl'.cars[d] >= 0
  BY <1>1, <1>3, CountsMean
<1>5. ctl' \in Controls_ /\ (Keeps(ctl, ctl') \/ Opens(ctl, ctl') \/ Closes(ctl, ctl'))
  <2>1. /\ ctl.state = "IDLE" <=> ctl.dir = Nobody
        /\ program = "camino" => ctl.state # "DRAINING"
        /\ ctl.state = "BUSY" => ctl.dir \in Directions
    BY <1>1 DEF Planned, Controls_
  <2>2. program = "camino" => ctl.state # "DRAINING" /\ (ctl.state = "BUSY" => Counted(ctl, m).cars[ctl.dir] >= 0)
    BY <1>3, <1>4, <2>1
  <2>3. program = "camino_ns" => Counted(ctl, m).in_road >= 0
    BY <1>3, <1>4
  <2> QED BY <1>1, <2>1, <2>2, <2>3, HandledPlans
<1>6. HandlesFor(u)
  BY <1>1, <1>4, <1>5 DEF HandlesFor
<1>7. Planned' /\ BarriersAgree' /\ Zone'
  BY <1>2, <1>6, HandledPlanned, HandledZone
<1>8. Typed'
  BY <1>2, <1>5 DEF Typed
<1>9. Settled'
  <2>1. /\ ctl.state = "IDLE" <=> ctl.dir = Nobody
        /\ program = "camino" => ctl.state # "DRAINING"
        /\ Settles(ctl.state, ctl.dir, ctl.cars, ctl.in_road)
    BY <1>1 DEF Planned, Settled, IInv
  <2>2. \A d \in Directions : Counted(ctl, m).cars[d] >= 0
    BY <1>1, <1>3, <1>4
  <2>3. Counted(ctl, m).in_road >= 0
    <3>1. CASE program = "camino"
      <4>1. Counted(ctl, m).in_road = ctl.in_road
        BY <1>1, <3>1, CountedFields
      <4> QED BY <2>1, <3>1, <4>1 DEF Settles
    <3> QED BY <1>1, <1>3, <1>4, <3>1
  <2>4. ctl.state = "DRAINING" => m.kind # "BARRIER"
    <3>1. ctl.close = Nobody /\ m.dir \in Directions
      BY <1>1, NothingPlanned DEF Messages
    <3> QED BY <3>1, Sides DEF LetIn
  <2>5. Settles(ctl'.state, ctl'.dir, ctl'.cars, ctl'.in_road)
    BY <1>1, <2>1, <2>2, <2>3, <2>4, HandledSettles
  <2>6. program' = program
    OBVIOUS
  <2> QED BY <2>5, <2>6 DEF Settled, Settles
<1>10. MailMeans'
  BY DEF MailMeans
<1> QED BY <1>2, <1>7, <1>8, <1>9, <1>10 DEF IInv

(***************************************************************************)
(* Control reads the message in the mailbox (camino).                      *)
(***************************************************************************)
LEMMA ControlReads ==
  ASSUME IInv, program = "camino", GetMsg
  PROVE  IInv'
<1>1. /\ ctl.pc = "got" /\ ctl' = Handled(ctl, mail) /\ mail' = NoMsg
      /\ UNCHANGED <<program, road, car, delayed>>
  BY DEF GetMsg, Controls
<1>2. /\ Typed /\ CountsAgree /\ MailboxAgrees /\ Linked(w) /\ ctl \in Controls_ /\ mail \in Posts \cup {NoMsg}
      /\ program \in {"camino", "camino_ns"}
  BY DEF IInv, Typed, Letters
<1>3. mail # NoMsg /\ mail \in Messages
  <2>1. mail # NoMsg
    <3>1. Free(control)
      BY Mailboxes, RunsNowhere DEF GetMsg, Controls, Free
    <3> QED BY <1>1, <1>2, <3>1 DEF MailboxAgrees
  <2> QED BY <1>2, <2>1 DEF Posts
<1>4. /\ ctl'.pc \notin {"got", "receive"}
      /\ ctl'.cars = Counted(ctl, mail).cars /\ ctl'.in_road = Counted(ctl, mail).in_road
  BY <1>1, <1>2, <1>3, HandledCounts
<1>5. MailboxAgrees' /\ Linked(w')
  BY <1>2, <1>4, MailRead
<1>6. Letters'
  BY <1>1, <1>5 DEF Letters
<1>7. CountsAgree'
  BY <1>1, <1>2, <1>3, <1>4, ToldRests, CountsRead
<1>8. mail.kind # "BARRIER"
  BY <1>2, <1>3 DEF Posts
<1> QED BY <1>1, <1>3, <1>5, <1>6, <1>7, <1>8, ControlHandles

(***************************************************************************)
(* Control has received a message (camino_ns).                             *)
(***************************************************************************)
LEMMA ControlReceived ==
  ASSUME IInv, program = "camino_ns", Received
  PROVE  IInv'
<1>1. /\ ctl.pc = "got" /\ ctl' = Handled(ctl, mail) /\ mail' = NoMsg /\ w' = w
      /\ UNCHANGED <<program, road, car, delayed>>
  BY DEF Received, Controls
<1>2. /\ Typed /\ CountsAgree /\ MessagesAgree /\ Linked(w) /\ ctl \in Controls_ /\ mail \in Posts \cup {NoMsg}
      /\ program \in {"camino", "camino_ns"}
  BY DEF IInv, Typed, Letters
<1>3. mail # NoMsg /\ mail \in Messages
  BY <1>1, <1>2 DEF MessagesAgree, Posts
<1>4. /\ ctl'.pc \notin {"got", "receive"}
      /\ ctl'.cars = Counted(ctl, mail).cars /\ ctl'.in_road = Counted(ctl, mail).in_road
  BY <1>1, <1>2, <1>3, HandledCounts
<1>5. \A t : (Free(t)' <=> Free(t)) /\ where(w')[t] = where(w)[t] /\ Pc(t)' = Pc(t)
  BY <1>1 DEF Free, Pc
<1>6. Letters' /\ Linked(w')
  <2>1. MessagesAgree'
    BY <1>1, <1>2, <1>4, <1>5 DEF MessagesAgree
  <2> QED BY <1>1, <1>2, <2>1 DEF Letters
<1>7. CountsAgree'
  BY <1>1, <1>2, <1>3, <1>4, <1>5, ToldRests, CountsRead
<1>8. \A e \in Car : Free(e)' <=> Free(e) \/ e = control
  BY <1>5, Mailboxes
<1>9. mail.kind = "BARRIER" => LetIn(mail.dir)
  BY <1>3 DEF MailMeans, IInv
<1> QED BY <1>1, <1>3, <1>6, <1>7, <1>8, <1>9, ControlHandles

(***************************************************************************)
(* Control takes the message of the first car that waits (camino_ns).      *)
(***************************************************************************)
LEMMA ControlReceives ==
  ASSUME IInv, program = "camino_ns", Receive, w.list[send_queue] # <<>>
  PROVE  IInv'
<1>1. PICK u : u = Last(w.list[send_queue])
  OBVIOUS
<1>2. /\ ctl.pc = "get" /\ ctl' = Handled(ctl, Message(u)) /\ mail' = mail
      /\ w' = Wake(w, u, send_queue, TRUE) /\ UNCHANGED <<program, road, car, delayed>>
  BY <1>1 DEF Receive, Controls, SignalQueue
<1>3. /\ Typed /\ CarsSound /\ CountsAgree /\ MessagesAgree /\ Linked(w) /\ ctl \in Controls_
      /\ program \in {"camino", "camino_ns"}
  BY DEF IInv, Typed, Letters
<1>4. u \in Task /\ where(w)[u] = {send_queue}
  BY <1>1, <1>3, QueueMembers, Mailboxes
<1>5. u \in Car /\ ~ Free(u) /\ Pc(u) = "tell" /\ Tells(Pos(u)) # NoMsg
  <2>1. ~ Free(u) /\ u \in Car
    BY <1>3, <1>4, Mailboxes DEF Free, MessagesAgree
  <2> QED BY <1>3, <2>1 DEF MessagesAgree, CarsSound
<1>6. /\ Linked(w') /\ where(w')[u] = {} /\ \A t \in Task : t # u => where(w')[t] = where(w)[t]
      /\ w'.value = w.value
  <2>1. Wakes(w, w', u, send_queue, TRUE)
    BY <1>2, <1>3, <1>4, Mailboxes, WakeEffect
  <2> QED BY <1>3, <2>1, MailCounts DEF Wakes
<1>7. Free(u)' /\ \A t \in Task : t # u => (Free(t)' <=> Free(t))
  BY <1>6 DEF Free
<1>8. \A t : Pc(t)' = Pc(t) /\ Pos(t)' = Pos(t)
  BY <1>2 DEF Pc, Pos
<1>9. PICK p \in Int : p = Pos(u)
  BY <1>3, <1>5, CarFields
<1>10. ~ Told(u, p) /\ Told(u, p)'
  <2>1. ~ Told(u, p)
    BY <1>5, <1>9, ToldMeans
  <2>2. Told(u, p)'
    BY <1>2, <1>5, <1>7, <1>8, <1>9, ToldMeans
  <2> QED BY <2>1, <2>2
<1>11. StagesPass(u)
  <2>1. car'[u] = [pos |-> Pos(u), pc |-> Pc(u)]
    BY <1>2, <1>3, <1>5, CarFields
  <2>2. Moved(u, Pos(u), Pc(u)) /\ OthersStay(u)
    BY <1>2, <1>7, <2>1, Sides DEF Moved, OthersStay
  <2> QED BY <1>2, <1>3, <1>5, <1>9, <1>10, <2>2, CarTells
<1>12. Message(u) \in Messages
  BY <1>3, <1>5, MessageFields DEF Posts
<1>13. /\ ctl'.pc \notin {"got", "receive"}
       /\ ctl'.cars = Counted(ctl, Message(u)).cars /\ ctl'.in_road = Counted(ctl, Message(u)).in_road
  BY <1>2, <1>3, <1>12, HandledCounts
<1>14. mail = NoMsg
  BY <1>2, <1>3 DEF MessagesAgree
<1>15. CountsAgree'
  BY <1>2, <1>3, <1>5, <1>11, <1>13, <1>14, CountsTaken
<1>16. Letters'
  <2>1. \A e \in Car : ~ Free(e)' => where(w')[e] = {send_queue} /\ Pc(e)' = "tell"
    BY <1>3, <1>6, <1>7, <1>8, Sides DEF MessagesAgree
  <2>2. Free(control)'
    BY <1>3, <1>5, <1>7, Mailboxes DEF MessagesAgree
  <2>3. MessagesAgree'
    BY <1>2, <1>3, <1>6, <1>13, <1>14, <2>1, <2>2 DEF MessagesAgree
  <2> QED BY <1>2, <2>3 DEF Letters
<1>17. \A e \in Car : Free(e)' <=> Free(e) \/ e = u
  BY <1>7, Sides
<1>18. Message(u).kind = "BARRIER" => LetIn(Message(u).dir)
  <2>1. Message(u).kind = Tells(p) /\ Message(u).dir = Dir(u) /\ Dir(u) \in Directions
    BY <1>3, <1>5, <1>9, MessageFields, Sides
  <2>2. Tells(p) = "BARRIER" => p = BARRIER_POS
    BY <1>5, <1>9, TellsAtSensor DEF Sensors
  <2>3. p = BARRIER_POS => road[Dir(u)][BARRIER_POS] = CAR
    <3>1. p = BARRIER_POS => BARRIER_POS \in Occupies(u) /\ BARRIER_POS \in Cells
      BY <1>5, <1>9, Places DEF Occupies, Pc, Cells
    <3>2. \A d \in Directions, i \in Cells : i \in Occupies(u) /\ Dir(u) = d => road[d][i] = CAR
      BY <1>5 DEF IInv, CellsAgree
    <3> QED BY <2>1, <3>1, <3>2
  <2> QED BY <2>1, <2>2, <2>3, Sides DEF IInv, BarriersAgree
<1> QED BY <1>2, <1>6, <1>12, <1>14, <1>15, <1>16, <1>17, <1>18, ControlHandles

(***************************************************************************)
(* Control moves a barrier: no car and no message moves.                   *)
(***************************************************************************)
LEMMA BarrierMoves ==
  ASSUME IInv, UNCHANGED <<program, w, car, delayed, mail>>, road' \in Roads,
         \A d \in Directions, i \in Cells : /\ road'[d][i] = CAR <=> road[d][i] = CAR
                                            /\ i # BARRIER_POS => road'[d][i] = road[d][i],
         ctl.pc \in {"close", "open"}, ctl'.pc \in {"get", "open"}, ctl' \in Controls_,
         ctl'.cars = ctl.cars, ctl'.in_road = ctl.in_road
  PROVE  /\ Typed' /\ Letters' /\ CellsAgree' /\ CountsAgree' /\ MailMeans'
         /\ \A c \in Car : /\ Pos(c)' = Pos(c) /\ Pc(c)' = Pc(c)
                           /\ InZone(c)' <=> InZone(c)
                           /\ Leaving(c)' <=> Leaving(c)
<1>1. Typed /\ CarsSound /\ Letters /\ CellsAgree /\ CountsAgree
  BY DEF IInv, Typed
<1>2. /\ StagesSame
      /\ \A c \in Car : /\ Pos(c)' = Pos(c) /\ Pc(c)' = Pc(c)
                        /\ InZone(c)' <=> InZone(c)
                        /\ Leaving(c)' <=> Leaving(c)
  BY ToldRests DEF Free
<1>3. CarsSound'
  <2>1. \A i : Tells(i)' = Tells(i)
    BY DEF Tells
  <2>2. Asleep' /\ BarriersPlaced'
    BY <1>1 DEF CarsSound, Asleep, BarriersPlaced, Pc
  <2> QED BY <1>1, <2>1, <2>2 DEF CarsSound, Pc, Pos, Tells
<1>4. CellsAgree'
  <2>1. \A c \in Car : Occupies(c)' = Occupies(c)
    BY DEF Occupies, Behind, Pos
  <2> QED BY <1>1, <2>1 DEF CellsAgree
<1>5. Letters'
  BY <1>1, <1>2, LettersStay
<1>6. CountsAgree'
  BY <1>1, <1>2, CountsSame
<1>7. Typed'
  BY <1>1, <1>3 DEF Typed, Posts
<1>8. MailMeans'
  <2>1. mail # NoMsg => mail.kind # "BARRIER"
    <3>1. program = "camino" => (mail # NoMsg => mail.kind # "BARRIER")
      BY <1>1 DEF Typed, Posts
    <3>2. program = "camino_ns" => mail = NoMsg
      BY <1>1 DEF Letters, MessagesAgree
    <3> QED BY <1>1, <3>1, <3>2 DEF CarsSound
  <2> QED BY <1>2, <2>1, MailMeansSame DEF IInv
<1> QED BY <1>2, <1>4, <1>5, <1>6, <1>7, <1>8

(***************************************************************************)
(* Control closes a barrier: nobody is under it, and nobody that it let in *)
(* is still in the stretch, or control knows that it is.                   *)
(***************************************************************************)
LEMMA ControlCloses ==
  ASSUME IInv, close_barrier
  PROVE  IInv'
<1>1. /\ ctl.pc = "close" /\ road[ctl.close][BARRIER_POS] = EMPTY
      /\ road' = [road EXCEPT ![ctl.close][BARRIER_POS] = BARRIER]
      /\ ctl' = [ctl EXCEPT !.close = Nobody, !.pc = IF ctl.open # Nobody THEN "open" ELSE "get"]
      /\ UNCHANGED <<program, w, car, delayed, mail>>
  BY DEF close_barrier, MayClose, Controls
<1>2. /\ CarsSound /\ CellsAgree /\ Planned /\ BarriersAgree /\ ZoneHeld /\ ClosesEmpty /\ LeavesAlone
      /\ ctl \in Controls_ /\ road \in Roads /\ program \in {"camino", "camino_ns"}
  BY DEF IInv, Typed, Zone, CarsSound
<1>3. /\ ctl'.close = Nobody /\ ctl'.open = ctl.open /\ ctl'.state = ctl.state /\ ctl'.dir = ctl.dir
      /\ ctl'.pc = IF ctl.open # Nobody THEN "open" ELSE "get"
      /\ ctl'.cars = ctl.cars /\ ctl'.in_road = ctl.in_road /\ ctl' \in Controls_
  BY <1>1, <1>2 DEF Controls_
<1>4. PICK x \in Directions : x = ctl.close
  BY <1>1, <1>2 DEF Planned, Controls_
<1>5. BARRIER_POS \in Cells
  BY Places DEF Cells
<1>6. /\ road' \in Roads
      /\ \A d \in Directions, i \in Cells :
           road'[d][i] = IF d = x /\ i = BARRIER_POS THEN BARRIER ELSE road[d][i]
  BY <1>1, <1>2, <1>4, <1>5 DEF Roads
<1>7. \A d \in Directions, i \in Cells : /\ road'[d][i] = CAR <=> road[d][i] = CAR
                                         /\ i # BARRIER_POS => road'[d][i] = road[d][i]
  BY <1>1, <1>4, <1>5, <1>6, Sides
<1>8. /\ Typed' /\ Letters' /\ CellsAgree' /\ CountsAgree' /\ MailMeans'
      /\ \A c \in Car : /\ Pos(c)' = Pos(c) /\ Pc(c)' = Pc(c)
                        /\ InZone(c)' <=> InZone(c)
                        /\ Leaving(c)' <=> Leaving(c)
  BY <1>1, <1>3, <1>6, <1>7, BarrierMoves
<1>9. /\ x # Nobody
      /\ ctl.open # Nobody => ctl.state = "BUSY" /\ ctl.dir = ctl.open
      /\ ctl.state = "IDLE" <=> ctl.dir = Nobody
      /\ \/ ctl.state = "IDLE"
         \/ ctl.state = "DRAINING" /\ ctl.dir = x
         \/ ctl.open = Other(x)
      /\ program = "camino" => ctl.state # "DRAINING"
  BY <1>2, <1>4, Sides DEF Planned
<1>10. Planned'
  BY <1>1, <1>3, <1>9, Sides DEF Planned
<1>11. BarriersAgree'
  <2>1. ASSUME NEW d \in Directions PROVE road'[d][BARRIER_POS] # BARRIER <=> LetIn(d)'
    <3>1. LetIn(d)' <=> ctl.state = "BUSY" /\ ctl.dir = d /\ ctl.open # d
      BY <1>3, <2>1, Sides DEF LetIn
    <3>2. CASE d = x
      <4>1. ~ (ctl.state = "BUSY" /\ ctl.dir = d /\ ctl.open # d)
        BY <1>9, <3>2, Sides
      <4> QED BY <1>5, <1>6, <3>1, <3>2, <4>1
    <3>3. CASE d # x
      <4>1. road[d][BARRIER_POS] # BARRIER <=> LetIn(d)
        BY <1>2 DEF BarriersAgree
      <4> QED BY <1>4, <1>5, <1>6, <3>1, <3>3, <4>1 DEF LetIn
    <3> QED BY <3>2, <3>3
  <2> QED BY <2>1 DEF BarriersAgree
<1>12. ZoneHeld'
  <2> SUFFICES ASSUME NEW c \in Car, InZone(c)', ~ Leaving(c)'
               PROVE  Holds(Dir(c))'
    BY DEF ZoneHeld
  <2>1. InZone(c) /\ ~ Leaving(c)
    BY <1>8
  <2>2. CASE Holds(Dir(c))
    BY <1>3, <2>2 DEF Holds
  <2>3. CASE program = "camino_ns" /\ x = Dir(c) /\ ctl.state # "DRAINING"
    <3>1. Pos(c) = BARRIER_POS => road[x][BARRIER_POS] = CAR
      BY <1>2, <1>5, <2>1, <2>3, ZonePlace DEF CellsAgree
    <3>2. Pos(c) # BARRIER_POS
      BY <1>1, <1>4, <3>1, Sides
    <3>3. Told(c, SENSOR2_POS)
      BY <1>2, <1>4, <2>1, <2>3, <3>2, ZonePlace DEF ClosesEmpty
    <3> QED BY <1>2, <2>1, <3>3, ZonePlace
  <2>4. CASE x = Dir(c) /\ ctl.state = "DRAINING"
    <3>1. ctl.dir = x /\ ctl.open # x
      BY <1>9, <2>4, Sides
    <3> QED BY <1>3, <2>4, <3>1 DEF Holds
  <2> QED BY <1>2, <1>4, <2>1, <2>2, <2>3, <2>4 DEF ZoneHeld
<1>13. ClosesEmpty' /\ LeavesAlone'
  <2>1. ClosesEmpty'
    BY <1>3, Sides DEF ClosesEmpty
  <2> QED BY <1>2, <1>8, <2>1 DEF LeavesAlone
<1>14. Settled'
  BY <1>1, <1>3 DEF IInv, Settled, Settles
<1> QED BY <1>8, <1>10, <1>11, <1>12, <1>13, <1>14 DEF IInv, Zone

(***************************************************************************)
(* Control opens a barrier.                                                *)
(***************************************************************************)
LEMMA ControlOpens ==
  ASSUME IInv, open_barrier
  PROVE  IInv'
<1>1. /\ ctl.pc = "open" /\ road' = [road EXCEPT ![ctl.open][BARRIER_POS] = EMPTY]
      /\ ctl' = [ctl EXCEPT !.open = Nobody, !.pc = "get", !.passed = 0]
      /\ UNCHANGED <<program, w, car, delayed, mail>>
  BY DEF open_barrier, Controls
<1>2. /\ CarsSound /\ CellsAgree /\ Planned /\ BarriersAgree /\ ZoneHeld /\ ClosesEmpty /\ LeavesAlone
      /\ ctl \in Controls_ /\ road \in Roads /\ program \in {"camino", "camino_ns"}
  BY DEF IInv, Typed, Zone, CarsSound
<1>3. /\ ctl'.open = Nobody /\ ctl'.close = ctl.close /\ ctl'.state = ctl.state /\ ctl'.dir = ctl.dir
      /\ ctl'.pc = "get" /\ ctl'.cars = ctl.cars /\ ctl'.in_road = ctl.in_road /\ ctl' \in Controls_
  <2>1. 0 \in 0 .. PASS_MAX
    BY Places
  <2> QED BY <1>1, <1>2, <2>1 DEF Controls_
<1>4. PICK x \in Directions : x = ctl.open
  BY <1>1, <1>2 DEF Planned, Controls_
<1>5. BARRIER_POS \in Cells
  BY Places DEF Cells
<1>6. /\ road' \in Roads
      /\ \A d \in Directions, i \in Cells :
           road'[d][i] = IF d = x /\ i = BARRIER_POS THEN EMPTY ELSE road[d][i]
  BY <1>1, <1>2, <1>4, <1>5 DEF Roads
<1>7. /\ x # Nobody /\ ctl.close = Nobody /\ ctl.state = "BUSY" /\ ctl.dir = x
      /\ \A d \in Directions : ~ LetIn(d)
  <2>1. x # Nobody /\ ctl.close = Nobody /\ ctl.state = "BUSY" /\ ctl.dir = x
    BY <1>1, <1>2, <1>4, Sides DEF Planned
  <2> QED BY <1>4, <2>1, Sides DEF LetIn
<1>8. road[x][BARRIER_POS] = BARRIER
  BY <1>2, <1>7 DEF BarriersAgree
<1>9. \A d \in Directions, i \in Cells : /\ road'[d][i] = CAR <=> road[d][i] = CAR
                                         /\ i # BARRIER_POS => road'[d][i] = road[d][i]
  BY <1>6, <1>8, Sides
<1>10. /\ Typed' /\ Letters' /\ CellsAgree' /\ CountsAgree' /\ MailMeans'
       /\ \A c \in Car : /\ Pos(c)' = Pos(c) /\ Pc(c)' = Pc(c)
                         /\ InZone(c)' <=> InZone(c)
                         /\ Leaving(c)' <=> Leaving(c)
  BY <1>1, <1>3, <1>6, <1>9, BarrierMoves
<1>11. Planned'
  BY <1>1, <1>2, <1>3, <1>7, Sides DEF Planned
<1>12. BarriersAgree'
  <2>1. ASSUME NEW d \in Directions PROVE road'[d][BARRIER_POS] # BARRIER <=> LetIn(d)'
    <3>1. LetIn(d)' <=> d = x
      BY <1>3, <1>7, <2>1, Sides DEF LetIn
    <3>2. road[d][BARRIER_POS] = BARRIER
      BY <1>2, <1>7 DEF BarriersAgree
    <3> QED BY <1>5, <1>6, <3>1, <3>2, Sides
  <2> QED BY <2>1 DEF BarriersAgree
<1>13. ZoneHeld'
  <2>1. \A d \in Directions : Holds(d) => Holds(d)'
    BY <1>3, Sides DEF Holds
  <2>2. \A c \in Car : Dir(c) \in Directions
    BY Sides
  <2> QED BY <1>1, <1>2, <1>3, <1>10, <2>1, <2>2 DEF ZoneHeld
<1>14. ClosesEmpty' /\ LeavesAlone'
  <2>1. ClosesEmpty'
    BY <1>3, <1>7, Sides DEF ClosesEmpty
  <2> QED BY <1>2, <1>10, <2>1 DEF LeavesAlone
<1>15. Settled'
  BY <1>1, <1>3 DEF IInv, Settled, Settles
<1> QED BY <1>10, <1>11, <1>12, <1>13, <1>14, <1>15 DEF IInv, Zone

-----------------------------------------------------------------------------
(* The cars of D wake up from their delays.                                *)
WakesUp(D) ==
  /\ D \subseteq Car /\ \A c \in D : Pc(c) \in {"slow", "delay"}
  /\ \A c \in Car :
       /\ c \notin D => car'[c] = car[c]
       /\ c \in D /\ Pc(c) = "slow" => car'[c] = [pos |-> Pos(c), pc |-> "again"]
       /\ c \in D /\ Pc(c) = "delay" => car'[c] = [pos |-> Pos(c) + 1, pc |-> "look"]

(***************************************************************************)
(* The delays that end, and those that go on.                              *)
(***************************************************************************)
LEMMA TickWakes ==
  ASSUME CarsSound, Tick
  PROVE  \E D : WakesUp(D) /\ CarsSound'
<1>1. PICK n \in 1 .. Len(delayed) :
        /\ car' = [c \in Car |->
             IF c \notin {delayed[i] : i \in 1 .. n} THEN car[c]
             ELSE IF car[c].pc = "slow" THEN [car[c] EXCEPT !.pc = "again"]
             ELSE [pos |-> Pos(c) + 1, pc |-> "look"]]
        /\ delayed' = SubSeq(delayed, n + 1, Len(delayed))
  BY DEF Tick
<1>2. PICK k \in Nat : k = Len(delayed)
  BY LenProperties DEF CarsSound
<1>3. /\ n \in Int /\ 1 <= n /\ n <= k /\ DOMAIN delayed = 1 .. k /\ NoRepetition(delayed)
      /\ \A i \in 1 .. k : delayed[i] \in Car /\ Pc(delayed[i]) \in {"slow", "delay"}
  BY <1>1, <1>2, LenProperties, ElementOfSeq DEF CarsSound
<1> DEFINE D == {delayed[i] : i \in 1 .. n}
<1>4. D \subseteq Car /\ \A c \in D : Pc(c) \in {"slow", "delay"}
  BY <1>2, <1>3
<1>5. car' = [c \in Car |-> IF c \notin D THEN car[c]
                            ELSE IF car[c].pc = "slow" THEN [car[c] EXCEPT !.pc = "again"]
                            ELSE [pos |-> Pos(c) + 1, pc |-> "look"]]
  BY <1>1
<1>6. \A i \in n + 1 .. k : delayed[i] \notin D
  <2> SUFFICES ASSUME NEW i \in n + 1 .. k, NEW j \in 1 .. n, delayed[i] = delayed[j]
               PROVE  FALSE
    OBVIOUS
  <2>1. i \in DOMAIN delayed /\ j \in DOMAIN delayed /\ i # j
    BY <1>2, <1>3
  <2> QED BY <1>3, <2>1 DEF NoRepetition
<1> HIDE DEF D
<1>7. WakesUp(D)
  <2>1. ASSUME NEW c \in Car, c \in D, Pc(c) = "slow"
        PROVE  car'[c] = [pos |-> Pos(c), pc |-> "again"]
    <3>1. car'[c] = [car[c] EXCEPT !.pc = "again"]
      BY <1>5, <2>1 DEF Pc
    <3>2. car[c] = [pos |-> Pos(c), pc |-> Pc(c)]
      BY CarFields
    <3> QED BY <3>1, <3>2
  <2>2. ASSUME NEW c \in Car, c \in D, Pc(c) = "delay"
        PROVE  car'[c] = [pos |-> Pos(c) + 1, pc |-> "look"]
    BY <1>5, <2>2 DEF Pc
  <2>3. \A c \in Car : c \notin D => car'[c] = car[c]
    BY <1>5
  <2> QED BY <1>4, <2>1, <2>2, <2>3 DEF WakesUp
<1>8. /\ delayed' \in Seq(Car) /\ DOMAIN delayed' = 1 .. k - n
      /\ \A i \in 1 .. k - n : delayed'[i] = delayed[i + n]
  <2>1. delayed' = SubSeq(delayed, n + 1, k)
    BY <1>1, <1>2
  <2>2. \A i \in n + 1 .. k : delayed[i] \in Car
    BY <1>2, <1>3
  <2>3. /\ delayed' \in Seq(Car) /\ Len(delayed') = IF n + 1 <= k THEN k - (n + 1) + 1 ELSE 0
        /\ \A i \in 1 .. k - (n + 1) + 1 : delayed'[i] = delayed[(n + 1) + i - 1]
    <3>1. n + 1 \in Int /\ k \in Int
      BY <1>2, <1>3
    <3>2. PICK m \in Int : m = n + 1
      BY <3>1
    <3>3. /\ SubSeq(delayed, m, k) \in Seq(Car)
          /\ Len(SubSeq(delayed, m, k)) = IF m <= k THEN k - m + 1 ELSE 0
          /\ \A i \in 1 .. k - m + 1 : SubSeq(delayed, m, k)[i] = delayed[m + i - 1]
      BY <2>2, <3>1, <3>2, SubSeqProperties
    <3> QED BY <2>1, <3>2, <3>3
  <2>4. DOMAIN delayed' = 1 .. Len(delayed') /\ Len(delayed') = k - n
    BY <1>2, <1>3, <2>3, LenProperties
  <2>5. \A i \in 1 .. k - n : i \in 1 .. k - (n + 1) + 1 /\ (n + 1) + i - 1 = i + n
    BY <1>2, <1>3
  <2> QED BY <2>3, <2>4, <2>5
<1>9. \A i \in 1 .. k - n : i + n \in n + 1 .. k /\ i + n \in 1 .. k
  BY <1>2, <1>3
<1>10. NoRepetition(delayed')
  <2> SUFFICES ASSUME NEW i \in 1 .. k - n, NEW j \in 1 .. k - n, delayed'[i] = delayed'[j]
               PROVE  i = j
    BY <1>8 DEF NoRepetition
  <2>1. delayed[i + n] = delayed[j + n] /\ i + n \in DOMAIN delayed /\ j + n \in DOMAIN delayed
    BY <1>3, <1>8, <1>9
  <2>2. i + n = j + n
    BY <1>3, <2>1 DEF NoRepetition
  <2> QED BY <1>2, <1>3, <2>2
<1>11. \A i \in DOMAIN delayed' : car'[delayed'[i]].pc \in {"slow", "delay"}
  <2> SUFFICES ASSUME NEW i \in 1 .. k - n
               PROVE  car'[delayed[i + n]].pc \in {"slow", "delay"}
    BY <1>8
  <2>1. delayed[i + n] \in Car /\ delayed[i + n] \notin D /\ Pc(delayed[i + n]) \in {"slow", "delay"}
    BY <1>3, <1>6, <1>9
  <2> QED BY <1>7, <2>1 DEF WakesUp, Pc
<1>12. car' \in Cars /\ \A c \in Car : /\ Pc(c)' = "tell" => Tells(Pos(c)') # NoMsg
                                       /\ Pc(c)' \in {"slow", "again", "delay"} => Pos(c)' <= ROAD_END
  <2>1. ASSUME NEW c \in Car
        PROVE  /\ car'[c] \in [pos : 0 .. ROAD_END + 1, pc : CarPcs]
               /\ Pc(c)' = "tell" => Tells(Pos(c)') # NoMsg
               /\ Pc(c)' \in {"slow", "again", "delay"} => Pos(c)' <= ROAD_END
    <3>1. /\ Pos(c) \in 0 .. ROAD_END + 1 /\ Pos(c) \in Int /\ 0 <= Pos(c) /\ ROAD_END \in Nat
          /\ car[c] \in [pos : 0 .. ROAD_END + 1, pc : CarPcs]
          /\ Pc(c) = "tell" => Tells(Pos(c)) # NoMsg
          /\ Pc(c) \in {"slow", "again", "delay"} => Pos(c) <= ROAD_END
      <4>1. Pos(c) \in 0 .. ROAD_END + 1 /\ Pos(c) \in Int /\ 0 <= Pos(c)
        BY CarFields
      <4> QED BY <4>1, Places DEF CarsSound, Cars
    <3>2. CASE c \notin D
      <4>1. car'[c] = car[c]
        BY <1>7, <3>2 DEF WakesUp
      <4>2. Pc(c)' = Pc(c) /\ Pos(c)' = Pos(c)
        BY <4>1 DEF Pc, Pos
      <4> QED BY <3>1, <4>1, <4>2
    <3>3. CASE c \in D /\ Pc(c) = "slow"
      <4>1. car'[c] = [pos |-> Pos(c), pc |-> "again"]
        BY <1>7, <3>3 DEF WakesUp
      <4>2. Pc(c)' = "again" /\ Pos(c)' = Pos(c)
        <5>1. car'[c].pc = "again" /\ car'[c].pos = Pos(c)
          BY <4>1
        <5> QED BY <5>1 DEF Pc, Pos
      <4> QED BY <3>1, <3>3, <4>1, <4>2 DEF CarPcs
    <3>4. CASE c \in D /\ Pc(c) = "delay"
      <4>1. car'[c] = [pos |-> Pos(c) + 1, pc |-> "look"]
        BY <1>7, <3>4 DEF WakesUp
      <4>2. Pc(c)' = "look"
        <5>1. car'[c].pc = "look"
          BY <4>1
        <5> QED BY <5>1 DEF Pc
      <4>3. Pos(c) + 1 \in 0 .. ROAD_END + 1
        BY <3>1, <3>4
      <4> QED BY <4>1, <4>2, <4>3 DEF CarPcs
    <3> QED BY <1>4, <3>2, <3>3, <3>4
  <2>2. car' = [c \in Car |-> car'[c]]
    BY <1>5
  <2>3. car' \in Cars
    <3>1. \A c \in Car : car'[c] \in [pos : 0 .. ROAD_END + 1, pc : CarPcs]
      BY <2>1
    <3> QED BY <2>2, <3>1 DEF Cars
  <2>4. \A c \in Car : /\ Pc(c)' = "tell" => Tells(Pos(c)') # NoMsg
                       /\ Pc(c)' \in {"slow", "again", "delay"} => Pos(c)' <= ROAD_END
    BY <2>1
  <2> QED BY <2>3, <2>4
<1>13. Asleep'
  <2> SUFFICES ASSUME NEW c \in Car, Pc(c)' \in {"slow", "delay"}
               PROVE  \E i \in 1 .. k - n : delayed[i + n] = c
    BY <1>8 DEF Asleep
  <2>1. c \notin D /\ car'[c] = car[c]
    <3>1. c \notin D
      <4>1. CASE c \in D /\ Pc(c) = "slow"
        <5>1. car'[c] = [pos |-> Pos(c), pc |-> "again"]
          BY <1>7, <4>1 DEF WakesUp
        <5> QED BY <5>1 DEF Pc
      <4>2. CASE c \in D /\ Pc(c) = "delay"
        <5>1. car'[c] = [pos |-> Pos(c) + 1, pc |-> "look"]
          BY <1>7, <4>2 DEF WakesUp
        <5> QED BY <5>1 DEF Pc
      <4> QED BY <1>4, <4>1, <4>2
    <3> QED BY <1>7, <3>1 DEF WakesUp
  <2>2. PICK i \in 1 .. k : delayed[i] = c
    BY <1>3, <2>1 DEF CarsSound, Asleep, Pc
  <2>3. i \notin 1 .. n
    BY <2>1, <2>2 DEF D
  <2>4. i - n \in 1 .. k - n /\ (i - n) + n = i
    BY <1>2, <1>3, <2>3
  <2> QED BY <2>2, <2>4
<1>14. CarsSound'
  <2>1. program' = program /\ road' = road
    BY DEF Tick
  <2>7. BarriersPlaced'
    BY <2>1 DEF CarsSound, BarriersPlaced
  <2>2. \A i : Tells(i)' = Tells(i)
    BY <2>1 DEF Tells
  <2>3. \A c \in Car : Tells(Pos(c))' = Tells(Pos(c)')
    BY <2>1 DEF Tells
  <2>4. /\ program' \in {"camino", "camino_ns"} /\ road' \in Roads
    BY <2>1 DEF CarsSound
  <2>5. \A c \in Car : (Pc(c) = "tell" => Tells(Pos(c)) # NoMsg)'
    BY <1>12, <2>3
  <2>6. \A c \in Car : (Pc(c) \in {"slow", "again", "delay"} => Pos(c) <= ROAD_END)'
    BY <1>12
  <2> QED BY <1>8, <1>10, <1>11, <1>12, <1>13, <2>4, <2>5, <2>6, <2>7 DEF CarsSound, Pc
<1> QED BY <1>7, <1>14

(***************************************************************************)
(* What a car that wakes up keeps: its cells, what it has told and its     *)
(* place in the stretch.                                                   *)
(***************************************************************************)
LEMMA WokenSame ==
  ASSUME CarsSound, NEW D, WakesUp(D), UNCHANGED <<program, w>>, NEW c \in Car
  PROVE  /\ Occupies(c)' = Occupies(c)
         /\ \A i \in Int : Told(c, i)' <=> Told(c, i)
         /\ InZone(c)' <=> InZone(c)
         /\ Leaving(c)' <=> Leaving(c)
         /\ Pc(c)' = "tell" <=> Pc(c) = "tell"
<1>1. /\ Pos(c) \in Int /\ 0 <= Pos(c) /\ ROAD_END \in Nat
      /\ Pc(c) = "delay" => Pos(c) <= ROAD_END
  <2>1. Pos(c) \in Int /\ 0 <= Pos(c)
    BY CarFields
  <2> QED BY <2>1, Places DEF CarsSound
<1>2. Free(c)' <=> Free(c)
  BY DEF Free
<1>3. CASE car'[c] = car[c]
  <2>1. Pos(c)' = Pos(c) /\ Pc(c)' = Pc(c)
    BY <1>3 DEF Pos, Pc
  <2>2. Occupies(c)' = Occupies(c)
    BY <1>3 DEF Occupies, Behind, Pos
  <2>3. \A i : Told(c, i)' <=> Told(c, i)
    BY <1>2, <2>1, ToldMeans
  <2> QED BY <1>2, <2>1, <2>2, <2>3 DEF InZone, Leaving
<1>4. CASE Pc(c) = "slow" /\ car'[c] = [pos |-> Pos(c), pc |-> "again"]
  <2>1. car'[c].pos = Pos(c) /\ car'[c].pc = "again" /\ car[c].pc = "slow"
    BY <1>4 DEF Pc
  <2>2. Pos(c)' = Pos(c) /\ Pc(c)' = "again"
    BY <2>1 DEF Pos, Pc
  <2>3. Occupies(c)' = Occupies(c)
    <3>1. Occupies(c)' = {car'[c].pos - 1} \cap Cells
      BY <2>1 DEF Occupies, Behind, Pos
    <3>2. Occupies(c) = {Pos(c) - 1} \cap Cells
      BY <2>1 DEF Occupies, Behind
    <3> QED BY <2>1, <3>1, <3>2
  <2>4. \A i : Told(c, i)' <=> Told(c, i)
    BY <1>2, <1>4, <2>2, ToldMeans
  <2> QED BY <1>2, <1>4, <2>2, <2>3, <2>4 DEF InZone, Leaving
<1>5. CASE Pc(c) = "delay" /\ car'[c] = [pos |-> Pos(c) + 1, pc |-> "look"]
  <2>1. car'[c].pos = Pos(c) + 1 /\ car'[c].pc = "look" /\ car[c].pc = "delay"
    BY <1>5 DEF Pc
  <2>2. Pos(c)' = Pos(c) + 1 /\ Pc(c)' = "look"
    BY <2>1 DEF Pos, Pc
  <2>3. Occupies(c)' = Occupies(c)
    <3>1. Occupies(c)' = {car'[c].pos - 1} \cap Cells
      BY <2>1 DEF Occupies, Behind, Pos
    <3>2. Occupies(c) = {Pos(c)}
      BY <2>1 DEF Occupies
    <3>3. Pos(c) \in Cells /\ car'[c].pos - 1 = Pos(c)
      BY <1>1, <1>5, <2>1 DEF Cells
    <3> QED BY <3>1, <3>2, <3>3
  <2>4. ASSUME NEW i \in Int PROVE Told(c, i)' <=> Told(c, i)
    <3>1. Told(c, i)' <=> Pos(c) + 1 > i
      BY <1>1, <2>2, ToldMeans
    <3>2. Told(c, i) <=> Pos(c) > i \/ Pos(c) = i
      BY <1>5, ToldMeans
    <3> QED BY <1>1, <3>1, <3>2
  <2>5. InZone(c)' <=> InZone(c)
    <3>1. InZone(c)' <=> \/ BARRIER_POS < Pos(c) + 1 /\ Pos(c) + 1 < SENSOR2_POS
                         \/ Pos(c) + 1 = SENSOR2_POS
      BY <2>2, Places DEF InZone
    <3>2. InZone(c) <=> Pos(c) = BARRIER_POS \/ (BARRIER_POS < Pos(c) /\ Pos(c) < SENSOR2_POS)
      BY <1>5 DEF InZone
    <3> QED BY <1>1, <3>1, <3>2, Places
  <2> QED BY <1>5, <2>2, <2>3, <2>4, <2>5 DEF Leaving
<1> QED BY <1>3, <1>4, <1>5 DEF WakesUp

(***************************************************************************)
(* In camino control never waits for long to close a barrier: whoever is   *)
(* under it has gone by the first sensor, and control closes the barrier   *)
(* when nobody has.                                                        *)
(***************************************************************************)
LEMMA ClosesAtOnce ==
  ASSUME IInv, program = "camino", Quiet
  PROVE  ctl.close = Nobody
<1> SUFFICES ASSUME ctl.close # Nobody PROVE FALSE
  OBVIOUS
<1>1. /\ CarsSound /\ CellsAgree /\ BarriersAgree /\ Planned /\ MailboxAgrees /\ ClosesEmpty /\ road \in Roads
  BY DEF IInv, Typed, Letters, Zone, CarsSound
<1>2. PICK x \in Directions : x = ctl.close
  BY DEF IInv, Typed, Controls_
<1>3. ctl.pc = "close" /\ Free(control)
  BY <1>1 DEF Planned, MailboxAgrees
<1>4. road[x][BARRIER_POS] # EMPTY
  BY <1>2, <1>3, Mailboxes, RunsNowhere DEF Quiet, ControlCanGoOn, MayClose, Controls, Free
<1>5. BARRIER_POS \in Cells
  BY Places DEF Cells
<1>6. road[x][BARRIER_POS] = CAR
  <2>1. road[x][BARRIER_POS] # BARRIER
    BY <1>1, <1>2 DEF BarriersAgree, LetIn
  <2>2. road[x][BARRIER_POS] \in {EMPTY, BARRIER, CAR}
    BY <1>1, <1>5 DEF Roads
  <2> QED BY <1>4, <2>1, <2>2
<1>7. PICK e \in Car : Dir(e) = x /\ BARRIER_POS \in Occupies(e)
  BY <1>1, <1>5, <1>6 DEF CellsAgree
<1>8. Pc(e) # "gone" /\ Pos(e) \in Int /\ (Pos(e) = BARRIER_POS \/ Pos(e) = BARRIER_POS + 1)
  <2>1. Pos(e) \in Int
    BY <1>1, CarFields
  <2> QED BY <1>7, <2>1, Places DEF Occupies, Behind, Pc
<1>9. Told(e, SENSOR1_POS) /\ ~ Told(e, SENSOR2_POS)
  BY <1>8, Places, ToldMeans
<1>10. Pos(e) = SENSOR1_POS
  BY <1>1, <1>2, <1>7, <1>9 DEF ClosesEmpty
<1> QED BY <1>8, <1>10, Places

(***************************************************************************)
(* The clock ends delays.                                                  *)
(***************************************************************************)
LEMMA TickKeeps ==
  ASSUME IInv, Tick
  PROVE  IInv'
<1>1. /\ Typed /\ CarsSound /\ CellsAgree /\ BarriersAgree /\ Planned /\ Letters /\ CountsAgree
      /\ ZoneHeld /\ ClosesEmpty /\ program \in {"camino", "camino_ns"}
  BY DEF IInv, Typed, Zone, CarsSound
<1>2. Quiet /\ UNCHANGED <<program, w, road, mail, ctl>>
  BY DEF Tick
<1>3. PICK D : WakesUp(D) /\ CarsSound'
  BY <1>1, TickWakes
<1>4. \A c \in Car : /\ Occupies(c)' = Occupies(c)
                     /\ \A i \in Int : Told(c, i)' <=> Told(c, i)
                     /\ InZone(c)' <=> InZone(c)
                     /\ Leaving(c)' <=> Leaving(c)
                     /\ Pc(c)' = "tell" <=> Pc(c) = "tell"
  BY <1>1, <1>2, <1>3, WokenSame
<1>5. StagesSame
  BY <1>4, StopsAre DEF StagesSame, Among
<1>6. CellsAgree'
  BY <1>1, <1>2, <1>4 DEF CellsAgree
<1>7. CountsAgree'
  BY <1>1, <1>2, <1>5, CountsSame
<1>8. Letters'
  <2>1. ctl'.pc = "receive" => program = "camino_ns" /\ ctl.pc = "receive"
    BY <1>1, <1>2 DEF Letters, MailboxAgrees
  <2> QED BY <1>1, <1>2, <1>4, <2>1, LettersStay
<1>9. Typed'
  BY <1>1, <1>2, <1>3 DEF Typed, Posts
<1>10. Planned' /\ BarriersAgree'
  BY <1>1, <1>2 DEF Planned, BarriersAgree, LetIn
<1>11. ZoneHeld'
  BY <1>1, <1>2, <1>4 DEF ZoneHeld, Holds
<1>12. LeavesAlone'
  <2>1. \A c \in Car : ~ Leaving(c)
    <3> SUFFICES ASSUME NEW c \in Car, Leaving(c) PROVE FALSE
      OBVIOUS
    <3>1. At(c, "tell")
      BY Sides, RunsNowhere DEF Leaving, At, Pc, Free
    <3> QED BY <1>2, <3>1 DEF Quiet, CanGoOn
  <2> QED BY <1>4, <2>1 DEF LeavesAlone
<1>13. ClosesEmpty'
  <2>1. SENSOR1_POS \in Int /\ BARRIER_POS \in Int /\ SENSOR2_POS \in Int
    BY Places
  <2>2. ASSUME NEW c \in Car, program = "camino", Dir(c) = ctl.close
        PROVE  FALSE
    BY <1>2, <2>2, ClosesAtOnce, Sides
  <2>3. ASSUME NEW c \in Car, program = "camino_ns", ctl.state # "DRAINING", Dir(c) = ctl.close,
               Told(c, BARRIER_POS)'
        PROVE  Told(c, SENSOR2_POS)'
    BY <1>1, <1>4, <2>1, <2>3 DEF ClosesEmpty
  <2> QED BY <1>2, <2>2, <2>3 DEF ClosesEmpty
<1>14. Settled' /\ MailMeans'
  <2>1. PlanSame
    BY <1>2 DEF PlanSame
  <2> QED BY <1>2, <1>5, <2>1, SettledSame, MailMeansSame DEF IInv
<1> QED BY <1>6, <1>7, <1>8, <1>9, <1>10, <1>11, <1>12, <1>13, <1>14 DEF IInv, Zone

(***************************************************************************)
(* The road is empty and both barriers are closed.                         *)
(***************************************************************************)
LEMMA InitKeeps ==
  ASSUME Init
  PROVE  IInv
<1> DEFINE v == [s \in Sem |-> IF s = mail_empty THEN 1 ELSE 0]
           l == [q \in Sem \cup Cond |-> <<>>]
           b == [t \in Task |-> FALSE]
<1>1. w = [value |-> v, list |-> l, timed |-> {}, success |-> b]
  BY DEF Init
<1>2. /\ v \in [Sem -> Nat] /\ l \in [Queue -> Seq(Task)] /\ b \in [Task -> BOOLEAN]
      /\ v[mail_empty] = 1 /\ v[mail_full] = 0 /\ \A s \in Sem : v[s] <= 1
      /\ \A q \in Queue : l[q] = <<>>
  BY Mailboxes DEF Queue
<1> HIDE DEF v, l, b
<1>3. w \in Records /\ w.list = l /\ w.value = v /\ w.timed = {}
  BY <1>1, <1>2 DEF Records
<1>4. \A t \in Task : where(w)[t] = {}
  BY <1>2, <1>3 DEF where, WaitingIn, ToSet
<1>5. Linked(w)
  <2>1. \A q \in Queue : NoRepetition(w.list[q])
    BY <1>2, <1>3 DEF NoRepetition
  <2> QED BY <1>3, <1>4, <2>1 DEF Linked
<1>6. \A c \in Car : Pc(c) = "gone" /\ Pos(c) = 0 /\ car[c] = [pos |-> 0, pc |-> "gone"]
  BY DEF Init, Pc, Pos
<1>7. \A t \in Task : Free(t)
  BY <1>4 DEF Free
<1>8. CarsSound
  <2>1. road \in Roads
    BY DEF Init, Roads, Closed
  <2>2. car \in Cars
    <3>1. 0 \in 0 .. ROAD_END + 1
      BY Places
    <3> QED BY <3>1 DEF Init, Cars, CarPcs
  <2>3. delayed \in Seq(Car) /\ NoRepetition(delayed) /\ DOMAIN delayed = {}
    BY DEF Init, NoRepetition
  <2>4. Asleep
    BY <1>6 DEF Asleep
  <2>5. BarriersPlaced
    BY Sides DEF Init, Closed, BarriersPlaced
  <2> QED BY <1>6, <2>1, <2>2, <2>3, <2>4, <2>5 DEF Init, CarsSound
<1>9. /\ mail = NoMsg /\ ctl.pc = "get" /\ ctl.state = "IDLE" /\ ctl.dir = Nobody /\ ctl.close = Nobody
      /\ ctl.open = Nobody /\ ctl.in_road = 0 /\ \A d \in Directions : ctl.cars[d] = 0
      /\ ctl \in Controls_ /\ program \in {"camino", "camino_ns"}
  <2>1. 0 \in 0 .. PASS_MAX
    BY Places
  <2> QED BY <2>1 DEF Init, Controls_
<1>10. Typed
  BY <1>5, <1>8, <1>9 DEF Typed
<1>11. Letters
  <2>1. MailboxAgrees
    <3>1. Woken = {} /\ \A c \in Car : Free(c) /\ Pc(c) # "tell"
      BY <1>6, <1>7, Sides DEF Woken
    <3>2. Free(control) /\ mail_full \in Sem
      BY <1>7, Mailboxes
    <3> QED BY <1>2, <1>3, <1>9, <3>1, <3>2 DEF MailboxAgrees
  <2>2. MessagesAgree
    BY <1>2, <1>3, <1>7, <1>9, Sides, Mailboxes DEF MessagesAgree
  <2> QED BY <2>1, <2>2 DEF Letters
<1>12. Planned
  BY <1>9, Sides DEF Planned
<1>13. BARRIER_POS \in Cells
  BY Places DEF Cells
<1>14. BarriersAgree
  <2>1. \A d \in Directions : road[d][BARRIER_POS] = BARRIER /\ ~ LetIn(d)
    BY <1>9, <1>13, Sides DEF Init, Closed, LetIn
  <2> QED BY <2>1 DEF BarriersAgree
<1>15. CellsAgree
  <2>1. \A d \in Directions, i \in Cells : road[d][i] # CAR
    BY Sides DEF Init, Closed
  <2>2. \A c \in Car : Occupies(c) = {}
    BY <1>6 DEF Occupies, Pc
  <2> QED BY <2>1, <2>2 DEF CellsAgree
<1>16. \A c \in Car : ~ InZone(c) /\ ~ Leaving(c) /\ \A i : ~ Told(c, i)
  BY <1>6, ToldMeans DEF InZone, Leaving
<1>17. Zone
  BY <1>16 DEF Zone, ZoneHeld, ClosesEmpty, LeavesAlone
<1>18. CountsAgree
  <2>1. ASSUME NEW X \in SUBSET Car, NEW i, NEW j PROVE Between(X, i, j) = 0
    <3>1. {c \in X : Told(c, i) /\ ~ Told(c, j)} = {}
      BY <1>16
    <3> QED BY <3>1, FS_EmptySet DEF Between
  <2>2. \A d \in Directions, kind \in Kinds : Unread(d, kind) = 0
    BY <1>9, UnreadIs
  <2>3. \A d \in Directions : CarsOf(d) \in SUBSET Car
    BY DEF CarsOf
  <2>4. /\ "LEFTBOUND" \in Directions /\ "RIGHTBOUND" \in Directions
        /\ "IN" \in Kinds /\ "BARRIER" \in Kinds /\ "OUT" \in Kinds
    BY DEF Directions, Kinds
  <2> QED BY <1>9, <2>1, <2>2, <2>3, <2>4 DEF CountsAgree
<1>19. Settled /\ MailMeans
  BY <1>9 DEF Settled, Settles, MailMeans
<1> QED BY <1>10, <1>11, <1>12, <1>14, <1>15, <1>17, <1>18, <1>19 DEF IInv

(***************************************************************************)
(* Every step keeps the invariant.                                         *)
(***************************************************************************)
LEMMA NextKeeps ==
  ASSUME IInv, [Next]_vars
  PROVE  IInv'
<1>1. CASE UNCHANGED vars
  <2>1. UNCHANGED <<program, road, car, delayed, mail>> /\ w' = w /\ ctl' = ctl
    BY <1>1 DEF vars
  <2>2. PlanSame /\ \A e : Free(e)' <=> Free(e)
    BY <2>1 DEF PlanSame, Free
  <2>3. /\ Typed /\ Letters /\ Planned /\ Linked(w) /\ ctl \in Controls_ /\ program \in {"camino", "camino_ns"}
    BY DEF IInv, Typed, CarsSound
  <2>4. Letters'
    <3>1. ctl'.pc = "receive" => program = "camino_ns" /\ ctl.pc = "receive"
      BY <2>1, <2>3 DEF Letters, MailboxAgrees
    <3>2. \A e \in Car : Pc(e)' = "tell" <=> Pc(e) = "tell"
      BY <2>1 DEF Pc
    <3> QED BY <2>1, <2>3, <3>1, <3>2, LettersStay
  <2>5. Planned'
    BY <2>1, <2>3 DEF Planned
  <2> QED BY <2>1, <2>2, <2>3, <2>4, <2>5, ControlRests
<1>2. ASSUME NEW c \in Car, camino(c) PROVE IInv'
  <2>1. CASE Slow(c)
    BY <2>1, SlowKeeps
  <2>2. CASE TakeCell(c)
    BY <2>2, TakeCellKeeps
  <2>3. CASE PutMsg(c)
    BY <1>2, <2>3, PutMsgNowKeeps, PutMsgLaterKeeps DEF camino
  <2>4. CASE PutMsgWoken(c)
    BY <1>2, <2>4, PutMsgWokenKeeps DEF camino
  <2>5. CASE Finish(c)
    BY <2>5, FinishKeeps
  <2> QED BY <1>2, <2>1, <2>2, <2>3, <2>4, <2>5 DEF camino
<1>3. ASSUME NEW c \in Car, camino_ns(c) PROVE IInv'
  <2>1. CASE Slow(c)
    BY <2>1, SlowKeeps
  <2>2. CASE TakeCell(c)
    BY <2>2, TakeCellKeeps
  <2>3. CASE Send(c)
    BY <1>3, <2>3, SendNowKeeps, SendLaterKeeps DEF camino_ns
  <2>4. CASE Sent(c)
    BY <1>3, <2>4, SentKeeps DEF camino_ns
  <2>5. CASE Finish(c)
    BY <2>5, FinishKeeps
  <2> QED BY <1>3, <2>1, <2>2, <2>3, <2>4, <2>5 DEF camino_ns
<1>4. CASE camino_control
  BY <1>4, ControlAsks, ControlReads DEF camino_control
<1>5. CASE camino_ns_control
  BY <1>5, ControlWaits, ControlReceives, ControlReceived DEF camino_ns_control
<1>6. CASE close_barrier \/ open_barrier
  BY <1>6, ControlCloses, ControlOpens
<1>7. CASE Tick
  BY <1>7, TickKeeps
<1>8. ASSUME NEW d \in Directions, send_car(d) PROVE IInv'
  BY <1>8, EntersKeeps
<1> QED BY <1>1, <1>2, <1>3, <1>4, <1>5, <1>6, <1>7, <1>8 DEF Next, Works, GoesOn, ControlGoesOn

(***************************************************************************)
(* The inductive invariant holds.                                          *)
(***************************************************************************)
LEMMA IInvHolds == Spec => []IInv
<1>1. Init => IInv
  BY InitKeeps
<1>2. IInv /\ [Next]_vars => IInv'
  BY NextKeeps
<1> QED BY <1>1, <1>2, PTL DEF Spec

(***************************************************************************)
(* Each car has the cells it took to itself, and barriers come down and go *)
(* up in empty cells.                                                      *)
(***************************************************************************)
THEOREM CellsAgreeHolds == Spec => []CellsAgree
<1>1. IInv => CellsAgree
  BY DEF IInv
<1> QED BY <1>1, IInvHolds, PTL

(***************************************************************************)
(* Control counts every car once at every sensor, whatever the order of    *)
(* the messages (camino.c, camino_ns.c: control).                          *)
(***************************************************************************)
THEOREM CountsAgreeHolds == Spec => []CountsAgree
<1>1. IInv => CountsAgree
  BY DEF IInv
<1> QED BY <1>1, IInvHolds, PTL

(***************************************************************************)
(* The two directions are never in the stretch of one lane together.       *)
(***************************************************************************)
THEOREM OneWayHolds == Spec => []OneWay
<1>1. IInv => OneWay
  <2> SUFFICES ASSUME IInv, NEW i \in Oneway, NEW j \in Oneway,
                      road["LEFTBOUND"][i] = CAR, road["RIGHTBOUND"][j] = CAR
               PROVE  FALSE
    BY DEF OneWay
  <2>1. /\ CarsSound /\ CellsAgree /\ Planned /\ ZoneHeld /\ LeavesAlone
    BY DEF IInv, Typed, Zone
  <2>2. ASSUME NEW d \in Directions, NEW k \in Oneway, road[d][k] = CAR
        PROVE  \E c \in Car : Dir(c) = d /\ InZone(c) /\ BARRIER_POS < Pos(c)
    <3>1. k \in Int /\ k \in Cells /\ BARRIER_POS < k /\ k < SENSOR2_POS
      BY <2>2, Places DEF Oneway, Cells
    <3>2. PICK c \in Car : Dir(c) = d /\ k \in Occupies(c)
      BY <2>1, <2>2, <3>1 DEF CellsAgree
    <3>3. /\ Pos(c) \in Int /\ Pc(c) # "gone" /\ (Pos(c) = k \/ Pos(c) = k + 1)
          /\ Pc(c) = "delay" => Pos(c) = k
      <4>1. Pos(c) \in Int
        BY <2>1, CarFields
      <4> QED BY <3>1, <3>2, <4>1 DEF Occupies, Behind, Pc
    <3>4. InZone(c) /\ BARRIER_POS < Pos(c)
      BY <3>1, <3>3, Places DEF InZone
    <3> QED BY <3>2, <3>4
  <2>3. "LEFTBOUND" \in Directions /\ "RIGHTBOUND" \in Directions
    BY DEF Directions
  <2>4. PICK c \in Car : Dir(c) = "LEFTBOUND" /\ InZone(c) /\ BARRIER_POS < Pos(c)
    BY <2>2, <2>3
  <2>5. PICK e \in Car : Dir(e) = "RIGHTBOUND" /\ InZone(e) /\ BARRIER_POS < Pos(e)
    BY <2>2, <2>3
  <2>6. ~ Leaving(c) /\ ~ Leaving(e)
    BY <2>1, <2>4, <2>5, Places DEF LeavesAlone
  <2>7. Holds("LEFTBOUND") \/ ctl.close = "LEFTBOUND"
    BY <2>1, <2>4, <2>6 DEF ZoneHeld
  <2>8. Holds("RIGHTBOUND") \/ ctl.close = "RIGHTBOUND"
    BY <2>1, <2>5, <2>6 DEF ZoneHeld
  <2>9. ASSUME NEW d \in Directions, Holds(d), ctl.close = Other(d) PROVE FALSE
    <3>1. Other(d) # Nobody /\ Other(Other(d)) = d /\ Other(d) # d
      BY <2>9, Sides
    <3> QED BY <2>1, <2>9, <3>1 DEF Holds, Planned
  <2> QED BY <2>3, <2>7, <2>8, <2>9 DEF Holds, Other
<1> QED BY <1>1, IInvHolds, PTL

-----------------------------------------------------------------------------
(***************************************************************************)
(* Of the cars of a direction on the road, one is the first.               *)
(***************************************************************************)
LEMMA FirstCar ==
  ASSUME CarsSound, NEW c \in Car, Pc(c) # "gone"
  PROVE  \E e \in Car : /\ Dir(e) = Dir(c) /\ Pc(e) # "gone"
                        /\ \A f \in Car : Dir(f) = Dir(c) /\ Pc(f) # "gone" => Pos(f) <= Pos(e)
<1> DEFINE P == {f \in Car : Dir(f) = Dir(c) /\ Pc(f) # "gone"}
           T == {ROAD_END + 1 - Pos(f) : f \in P}
<1>1. \A f \in Car : Pos(f) \in Int /\ Pos(f) <= ROAD_END + 1
  BY CarFields
<1>2. T \subseteq Nat /\ T # {}
  <2>1. c \in P
    OBVIOUS
  <2> QED BY <1>1, <2>1, Places
<1>3. PICK m \in T : \A n \in T : m <= n
  BY <1>2, Least
<1>4. PICK e \in P : m = ROAD_END + 1 - Pos(e)
  OBVIOUS
<1>5. ASSUME NEW f \in P PROVE Pos(f) <= Pos(e)
  <2>1. ROAD_END + 1 - Pos(f) \in T
    OBVIOUS
  <2>2. m <= ROAD_END + 1 - Pos(f)
    BY <1>3, <2>1
  <2>3. Pos(f) \in Int /\ Pos(e) \in Int /\ ROAD_END \in Int
    BY <1>1, Places
  <2> QED BY <1>4, <2>2, <2>3
<1> QED BY <1>4, <1>5

(***************************************************************************)
(* When the clock may end a delay and there is none, each car on the road  *)
(* waits to be told, or for a cell in which there is something.            *)
(***************************************************************************)
LEMMA AllWait ==
  ASSUME IInv, Quiet, delayed = <<>>, NEW c \in Car, Pc(c) # "gone"
  PROVE  /\ Pc(c) \in {"look", "again", "tell"} /\ (Pc(c) = "tell" => ~ Free(c))
         /\ Pc(c) # "tell" => /\ Pos(c) \in Cells /\ road[Dir(c)][Pos(c)] # EMPTY
                              /\ Occupies(c) = {Pos(c) - 1} \cap Cells
<1>1. CarsSound /\ Letters /\ program \in {"camino", "camino_ns"}
  BY DEF IInv, Typed, CarsSound
<1>2. Pc(c) \in {"look", "again", "tell"}
  <2>1. Pc(c) \notin {"slow", "delay"}
    BY <1>1 DEF CarsSound, Asleep
  <2> QED BY <1>1, <2>1, CarFields DEF CarPcs
<1>3. Runs(w, c) <=> Free(c)
  BY Sides, RunsNowhere DEF Free
<1>4. Pc(c) = "tell" => ~ Free(c)
  BY <1>3 DEF Quiet, CanGoOn, At, Pc
<1>5. ASSUME Pc(c) # "tell"
      PROVE  /\ Pos(c) \in Cells /\ road[Dir(c)][Pos(c)] # EMPTY
             /\ Occupies(c) = {Pos(c) - 1} \cap Cells
  <2>1. At(c, Pc(c))
    BY <1>1, <1>3, <1>5 DEF Letters, MailboxAgrees, MessagesAgree, At, Pc
  <2>2. Pos(c) \in Int /\ 0 <= Pos(c) /\ Pos(c) <= ROAD_END + 1 /\ ROAD_END \in Nat
    BY <1>1, CarFields, Places
  <2>3. Pos(c) <= ROAD_END
    <3>1. CASE Pc(c) = "again"
      BY <1>1, <3>1 DEF CarsSound
    <3>2. CASE Pc(c) = "look"
      BY <2>1, <2>2, <3>2 DEF Quiet, CanGoOn
    <3> QED BY <1>2, <1>5, <3>1, <3>2
  <2>4. road[Dir(c)][Pos(c)] # EMPTY
    BY <1>2, <1>5, <2>1, <2>3 DEF Quiet, CanGoOn, MaySlow, MayTake, Cell
  <2> QED BY <1>2, <1>5, <2>2, <2>3, <2>4 DEF Cells, Occupies, Behind, Pc
<1> QED BY <1>2, <1>4, <1>5

(***************************************************************************)
(* If nobody waits to be told, the first car of a direction is before a    *)
(* barrier that is closed, and control has counted it.                     *)
(***************************************************************************)
LEMMA FirstWaits ==
  ASSUME IInv, Quiet, delayed = <<>>, \A c \in Car : Pc(c) # "tell", mail = NoMsg,
         NEW e \in Car, Pc(e) # "gone"
  PROVE  ~ LetIn(Dir(e)) /\ ctl.cars[Dir(e)] > 0 /\ Pos(e) <= BARRIER_POS
<1>1. /\ CarsSound /\ CellsAgree /\ BarriersAgree /\ CountsAgree /\ ctl \in Controls_
      /\ program \in {"camino", "camino_ns"}
  BY DEF IInv, Typed, CarsSound
<1>2. PICK c \in Car : /\ Dir(c) = Dir(e) /\ Pc(c) # "gone"
                       /\ \A f \in Car : Dir(f) = Dir(e) /\ Pc(f) # "gone" => Pos(f) <= Pos(c)
  BY <1>1, FirstCar
<1> DEFINE d == Dir(c)
           p == Pos(c)
<1>3. /\ p \in Cells /\ p \in Int /\ d \in Directions /\ d = Dir(e) /\ road[d][p] # EMPTY
      /\ Pc(c) \in {"look", "again"} /\ Pos(e) <= p
  BY <1>1, <1>2, AllWait, CarFields
<1> HIDE DEF d, p
<1>4. road[d][p] # CAR
  <2> SUFFICES ASSUME road[d][p] = CAR PROVE FALSE
    OBVIOUS
  <2>1. PICK f \in Car : Dir(f) = d /\ p \in Occupies(f)
    BY <1>1, <1>3 DEF CellsAgree
  <2>2. Pc(f) # "gone" /\ Pos(f) \in Int
    BY <1>1, <2>1, CarFields DEF Occupies, Pc
  <2>3. p = Pos(f) - 1
    BY <2>1, <2>2, AllWait
  <2>4. Pos(f) <= p
    BY <1>2, <1>3, <2>1, <2>2 DEF p
  <2> QED BY <1>3, <2>2, <2>3, <2>4
<1>5. road[d][p] = BARRIER /\ p = BARRIER_POS
  <2>1. road[d][p] = BARRIER
    BY <1>1, <1>3, <1>4 DEF CarsSound, Roads
  <2> QED BY <1>1, <1>3, <2>1 DEF CarsSound, BarriersPlaced
<1>6. ~ LetIn(d)
  BY <1>1, <1>3, <1>5 DEF BarriersAgree
<1>7. Told(c, SENSOR1_POS) /\ ~ Told(c, BARRIER_POS) /\ ~ Told(c, SENSOR2_POS)
  BY <1>2, <1>3, <1>5, Places, ToldMeans DEF p
<1>8. ctl.cars[d] > 0
  <2> DEFINE j == IF program = "camino" THEN SENSOR2_POS ELSE BARRIER_POS
             S == {f \in CarsOf(d) : Told(f, SENSOR1_POS) /\ ~ Told(f, j)}
  <2>1. \A kind \in Kinds : Unread(d, kind) = 0
    BY <1>3, UnreadIs
  <2>2. ctl.cars[d] = Cardinality(S)
    <3>1. "IN" \in Kinds /\ "BARRIER" \in Kinds /\ "OUT" \in Kinds /\ ctl.cars[d] \in Int
      BY <1>1, <1>3 DEF Kinds, Controls_
    <3>2. Between(CarsOf(d), SENSOR1_POS, j) = Cardinality(S)
      BY DEF Between
    <3> HIDE DEF S
    <3>3. CASE program = "camino"
      <4>1. ctl.cars[d] + 0 - 0 = Between(CarsOf(d), SENSOR1_POS, j)
        BY <1>1, <1>3, <2>1, <3>1, <3>3 DEF CountsAgree
      <4> QED BY <3>1, <3>2, <4>1
    <3>4. CASE program = "camino_ns"
      <4>1. ctl.cars[d] + 0 - 0 = Between(CarsOf(d), SENSOR1_POS, j)
        BY <1>1, <1>3, <2>1, <3>1, <3>4 DEF CountsAgree
      <4> QED BY <3>1, <3>2, <4>1
    <3> QED BY <1>1, <3>3, <3>4
  <2>3. IsFiniteSet(S)
    <3>1. S \in SUBSET Car
      BY DEF CarsOf
    <3> QED BY <3>1, BridgeAssumption, FS_Subset
  <2>4. c \in S
    BY <1>7 DEF CarsOf, d
  <2> HIDE DEF S
  <2> QED BY <2>2, <2>3, <2>4, FS_EmptySet, FS_CardinalityType
<1> QED BY <1>3, <1>5, <1>6, <1>8

(***************************************************************************)
(* Where nobody waits to be told and control has nothing to do, nobody is  *)
(* on the road: a direction that control has counted would be let in.      *)
(***************************************************************************)
LEMMA NobodyWaits ==
  ASSUME IInv, Quiet, delayed = <<>>, \A c \in Car : Pc(c) # "tell", mail = NoMsg,
         ctl.pc \in {"got", "receive"}
  PROVE  \A c \in Car : Pc(c) = "gone"
<1> SUFFICES ASSUME NEW e \in Car, Pc(e) # "gone" PROVE FALSE
  OBVIOUS
<1>1. /\ Planned /\ CountsAgree /\ Settles(ctl.state, ctl.dir, ctl.cars, ctl.in_road) /\ ctl \in Controls_
      /\ program \in {"camino", "camino_ns"}
  BY DEF IInv, Typed, CarsSound, Settled
<1>2. ctl.close = Nobody /\ ctl.open = Nobody
  BY <1>1, NothingPlanned
<1>3. \A c \in Car : Pc(c) # "gone" => ~ LetIn(Dir(c)) /\ ctl.cars[Dir(c)] > 0 /\ Pos(c) <= BARRIER_POS
  BY FirstWaits
<1> DEFINE d == Dir(e)
<1>4. d \in Directions /\ ctl.cars[d] > 0 /\ ~ LetIn(d) /\ ctl.cars[d] \in Int
  <2>1. d \in Directions
    BY Sides
  <2> QED BY <1>1, <1>3, <2>1 DEF Controls_
<1>5. \A x \in Directions, kind \in Kinds : Unread(x, kind) = 0
  BY UnreadIs
<1>6. "IN" \in Kinds /\ "BARRIER" \in Kinds /\ "OUT" \in Kinds /\ "LEFTBOUND" \in Directions /\ "RIGHTBOUND" \in Directions
  BY DEF Kinds, Directions
<1> HIDE DEF d
<1>7. ASSUME NEW X \in SUBSET Car, NEW i, NEW j, Between(X, i, j) > 0
      PROVE  \E c \in X : Told(c, i)
  <2>1. {c \in X : Told(c, i) /\ ~ Told(c, j)} # {}
    BY <1>7, FS_EmptySet DEF Between
  <2> QED BY <2>1
<1>8. CASE ctl.state = "IDLE"
  BY <1>1, <1>4, <1>8 DEF Settles
<1>9. CASE ctl.state = "BUSY"
  <2>1. PICK x \in Directions : x = ctl.dir
    BY <1>1, <1>9 DEF Planned, Controls_
  <2>2. LetIn(x) /\ d = Other(x)
    BY <1>2, <1>4, <1>9, <2>1, Sides DEF LetIn
  <2>3. ctl.cars[x] > 0
    BY <1>1, <1>4, <1>9, <2>1, <2>2 DEF Settles
  <2>4. \E c \in CarsOf(x) : Told(c, SENSOR1_POS)
    <3>1. ctl.cars[x] \in Int /\ CarsOf(x) \in SUBSET Car
      BY <1>1 DEF Controls_, CarsOf
    <3>2. CASE program = "camino"
      BY <1>1, <1>5, <1>6, <1>7, <2>3, <3>1, <3>2 DEF CountsAgree
    <3>3. CASE program = "camino_ns"
      BY <1>1, <1>5, <1>6, <1>7, <2>3, <3>1, <3>3 DEF CountsAgree
    <3> QED BY <1>1, <3>2, <3>3
  <2> QED BY <1>3, <2>2, <2>4, ToldMeans DEF CarsOf
<1>10. CASE ctl.state = "DRAINING"
  <2>1. program = "camino_ns" /\ ctl.in_road > 0 /\ ctl.in_road \in Int
    BY <1>1, <1>10 DEF Settles, Planned, Controls_
  <2>2. Between(Car, BARRIER_POS, SENSOR2_POS) > 0
    BY <1>1, <1>5, <1>6, <2>1 DEF CountsAgree
  <2>3. PICK c \in Car : Told(c, BARRIER_POS)
    BY <1>7, <2>2
  <2>4. Pc(c) # "gone" /\ Pos(c) \in Int
    BY <2>3, ToldMeans, CarFields DEF IInv, Typed
  <2>5. Pos(c) <= BARRIER_POS /\ Pc(c) \notin {"delay", "tell"}
    BY <1>3, <2>4, AllWait
  <2> QED BY <2>3, <2>4, <2>5, Places, ToldMeans
<1> QED BY <1>1, <1>8, <1>9, <1>10 DEF Controls_

(***************************************************************************)
(* Control waits for the barrier cell: behind the cars from there on, one  *)
(* waits for control.                                                      *)
(***************************************************************************)
LEMMA LineOfCars ==
  ASSUME IInv, Quiet, delayed = <<>>, ctl.pc = "close", Free(control)
  PROVE  CircularWait
<1>1. CarsSound /\ CellsAgree /\ BarriersAgree /\ Planned /\ ctl \in Controls_ /\ road \in Roads
  BY DEF IInv, Typed, CarsSound
<1>2. PICK x \in Directions : x = ctl.close
  BY <1>1 DEF Planned, Controls_
<1>3. /\ BARRIER_POS \in Cells /\ BARRIER_POS \in Nat /\ ROAD_END \in Nat
      /\ \A i : i \in Cells <=> i \in Nat /\ i <= ROAD_END
  BY Places DEF Cells
<1>4. road[x][BARRIER_POS] = CAR
  <2>1. road[x][BARRIER_POS] # EMPTY
    BY <1>2, Mailboxes, RunsNowhere DEF Quiet, ControlCanGoOn, MayClose, Controls, Free
  <2>2. road[x][BARRIER_POS] # BARRIER
    BY <1>1, <1>2 DEF BarriersAgree, LetIn
  <2> QED BY <1>1, <1>3, <2>1, <2>2 DEF Roads
<1> DEFINE T == {k \in Nat : k > BARRIER_POS /\ ~ (k \in Cells /\ road[x][k] = CAR)}
<1>5. PICK k \in T : \A n \in T : k <= n
  <2>1. ROAD_END + 1 \in T
    BY <1>3, Places
  <2> QED BY <2>1, Least
<1>6. /\ k \in Nat /\ k > BARRIER_POS /\ ~ (k \in Cells /\ road[x][k] = CAR)
      /\ \A i \in Nat : BARRIER_POS <= i /\ i < k => i \in Cells /\ road[x][i] = CAR
  <2>1. \A i \in Nat : BARRIER_POS < i /\ i < k => i \notin T
    BY <1>5
  <2> QED BY <1>3, <1>4, <1>5, <2>1
<1> HIDE DEF T
<1>7. k - 1 \in Nat /\ k - 1 \in Cells /\ BARRIER_POS <= k - 1 /\ road[x][k - 1] = CAR
  BY <1>3, <1>6
<1>8. PICK c \in Car : Dir(c) = x /\ k - 1 \in Occupies(c)
  BY <1>1, <1>7 DEF CellsAgree
<1>9. Pc(c) # "gone" /\ Pos(c) \in Int
  BY <1>1, <1>8, CarFields DEF Occupies, Pc
<1>10. Pc(c) = "tell" /\ ~ Free(c)
  <2> SUFFICES ASSUME Pc(c) # "tell" PROVE FALSE
    BY <1>9, AllWait
  <2>1. Pos(c) = k /\ Pos(c) \in Cells /\ road[x][k] # EMPTY
    BY <1>6, <1>8, <1>9, AllWait
  <2>2. road[x][k] = BARRIER
    BY <1>1, <1>6, <2>1 DEF Roads
  <2> QED BY <1>1, <1>3, <1>6, <2>1, <2>2 DEF CarsSound, BarriersPlaced
<1>11. Pos(c) = k - 1
  <2>1. Occupies(c) = {Pos(c) - 1, Pos(c)}
    BY <1>10 DEF Occupies, Behind, Pc
  <2>2. Pos(c) # k
    <3>1. Pos(c) < ROAD_END /\ 0 <= Pos(c)
      BY <1>1, <1>9, <1>10, TellsAtSensor, CarFields DEF CarsSound
    <3>2. Pos(c) \in Cells
      BY <1>3, <1>9, <3>1
    <3>3. road[x][Pos(c)] = CAR
      BY <1>1, <1>8, <2>1, <3>2 DEF CellsAgree
    <3> QED BY <1>6, <3>2, <3>3
  <2> QED BY <1>6, <1>8, <1>9, <2>1, <2>2
<1>12. \A i \in BARRIER_POS .. Pos(c) : road[ctl.close][i] = CAR
  BY <1>2, <1>3, <1>6, <1>11
<1>13. ~ Runs(w, c)
  BY <1>10, Sides, RunsNowhere DEF Free
<1> QED BY <1>2, <1>7, <1>8, <1>10, <1>11, <1>12, <1>13 DEF CircularWait, CarsOf, Pc

(***************************************************************************)
(* The road moves: when no delay runs and nobody can go on, there is no    *)
(* car on it, or control and a car wait for each other (camino_ns.c).      *)
(***************************************************************************)
THEOREM FlowsHolds == Spec => []Flows
<1>1. IInv => Flows
  <2> SUFFICES ASSUME IInv, Quiet, delayed = <<>>, ~ CircularWait
               PROVE  \A c \in Car : car[c].pc = "gone"
    BY DEF Flows
  <2>1. CarsSound /\ Letters /\ Planned /\ Linked(w) /\ ctl \in Controls_ /\ program \in {"camino", "camino_ns"}
    BY DEF IInv, Typed, CarsSound
  <2>2. Runs(w, control) <=> Free(control)
    BY Mailboxes, RunsNowhere DEF Free
  <2>3. \A c \in Car : Pc(c) = "tell" => ~ Free(c)
    BY AllWait
  <2>4. ctl.pc \in {"got", "receive", "close"} \/ ~ Free(control)
    BY <2>1, <2>2 DEF Quiet, ControlCanGoOn, Controls, Controls_
  <2>5. (\A c \in Car : Pc(c) # "tell") /\ mail = NoMsg /\ ctl.pc \in {"got", "receive"}
    <3>1. CASE program = "camino"
      <4>1. MailboxAgrees
        BY <2>1, <3>1 DEF Letters
      <4>2. ctl.pc # "close"
        BY <2>1, <3>1, ClosesAtOnce DEF Planned
      <4>3. ctl.pc = "got" /\ ~ Free(control)
        BY <2>2, <2>4, <4>1, <4>2 DEF MailboxAgrees, Quiet, ControlCanGoOn, Controls
      <4>4. mail = NoMsg /\ Woken = {}
        BY <2>3, <4>1, <4>3 DEF MailboxAgrees, Woken
      <4>5. w.value[mail_empty] = 1
        <5>1. w.value[mail_empty] # 0 /\ w.value[mail_empty] <= 1 /\ w.value[mail_empty] \in Nat
          BY <2>1, <4>1, <4>4, Mailboxes, MailCounts DEF MailboxAgrees
        <5> QED BY <5>1
      <4> QED BY <4>1, <4>3, <4>4, <4>5 DEF MailboxAgrees
    <3>2. CASE program = "camino_ns"
      <4>1. MessagesAgree
        BY <2>1, <3>2 DEF Letters
      <4>2. ctl.pc # "close"
        BY <4>1, LineOfCars DEF MessagesAgree
      <4>3. ctl.pc = "receive"
        BY <2>2, <2>4, <4>1, <4>2 DEF MessagesAgree, Quiet, ControlCanGoOn, Controls
      <4> QED BY <2>3, <4>1, <4>3 DEF MessagesAgree
    <3> QED BY <2>1, <3>1, <3>2
  <2> QED BY <2>5, NobodyWaits DEF Pc
<1> QED BY <1>1, IInvHolds, PTL

(***************************************************************************)
(* The number of cars between two sensors, when one is known to be or not  *)
(* to be among them.                                                       *)
(***************************************************************************)
LEMMA BetweenBounds ==
  ASSUME NEW X \in SUBSET Car, NEW i, NEW j
  PROVE  /\ Between(X, i, j) \in Nat /\ Cardinality(Car) \in Nat /\ Between(X, i, j) <= Cardinality(Car)
         /\ \A c \in X : IF Among(c, i, j) THEN Between(X, i, j) >= 1
                         ELSE Between(X, i, j) <= Cardinality(Car) - 1
<1> DEFINE S == {e \in X : Told(e, i) /\ ~ Told(e, j)}
<1>1. S \in SUBSET Car /\ IsFiniteSet(Car) /\ Between(X, i, j) = Cardinality(S)
  BY BridgeAssumption DEF Between
<1>2. \A c \in X : Among(c, i, j) <=> c \in S
  BY DEF Among
<1> HIDE DEF S
<1>3. /\ IsFiniteSet(S) /\ Cardinality(S) \in Nat /\ Cardinality(Car) \in Nat
      /\ Cardinality(S) <= Cardinality(Car)
  BY <1>1, FS_Subset, FS_CardinalityType
<1>4. ASSUME NEW c \in X, Among(c, i, j) PROVE Cardinality(S) >= 1
  <2>1. Cardinality(S) # 0
    BY <1>2, <1>3, <1>4, FS_EmptySet
  <2> QED BY <1>3, <2>1
<1>5. ASSUME NEW c \in X, ~ Among(c, i, j) PROVE Cardinality(S) <= Cardinality(Car) - 1
  <2>1. c \notin S /\ c \in Car
    BY <1>2, <1>5
  <2>2. Cardinality(Car \ {c}) = Cardinality(Car) - 1 /\ IsFiniteSet(Car \ {c})
    BY <1>1, <2>1, FS_RemoveElement
  <2>3. S \in SUBSET (Car \ {c})
    BY <1>1, <2>1
  <2>4. Cardinality(S) <= Cardinality(Car \ {c})
    BY <2>2, <2>3, FS_Subset
  <2> QED BY <2>2, <2>4
<1> QED BY <1>1, <1>3, <1>4, <1>5

(***************************************************************************)
(* What control counts are cars: the message that is not read yet is of a  *)
(* car that is there, or has gone by.                                      *)
(***************************************************************************)
LEMMA CountsBounded ==
  ASSUME IInv
  PROVE  (\A d \in Directions : ctl.cars[d] \in Count) /\ ctl.in_road \in Count
<1>1. /\ CarsSound /\ CountsAgree /\ MailMeans /\ ctl \in Controls_ /\ mail \in Posts \cup {NoMsg}
      /\ program \in {"camino", "camino_ns"} /\ (program = "camino" => ctl.in_road = 0)
  BY DEF IInv, Typed, CarsSound, Settled, Settles
<1>2. /\ ctl.in_road \in Int /\ \A d \in Directions : ctl.cars[d] \in Int /\ CarsOf(d) \in SUBSET Car
      /\ Car \in SUBSET Car /\ Cardinality(Car) \in Nat
  BY <1>1, BetweenBounds DEF Controls_, CarsOf
<1>3. /\ "IN" \in Kinds /\ "BARRIER" \in Kinds /\ "OUT" \in Kinds
      /\ "LEFTBOUND" \in Directions /\ "RIGHTBOUND" \in Directions /\ "LEFTBOUND" # "RIGHTBOUND"
  BY DEF Kinds, Directions
<1>4. CASE mail = NoMsg
  <2>1. \A d \in Directions, kind \in Kinds : Unread(d, kind) = 0
    BY <1>4, UnreadIs
  <2>2. ASSUME NEW d \in Directions PROVE ctl.cars[d] \in Count
    <3>1. CASE program = "camino"
      <4>1. ctl.cars[d] = Between(CarsOf(d), SENSOR1_POS, SENSOR2_POS)
        BY <1>1, <1>2, <1>3, <2>1, <3>1 DEF CountsAgree
      <4> QED BY <1>2, <4>1, BetweenBounds DEF Count
    <3>2. CASE program = "camino_ns"
      <4>1. ctl.cars[d] = Between(CarsOf(d), SENSOR1_POS, BARRIER_POS)
        BY <1>1, <1>2, <1>3, <2>1, <3>2 DEF CountsAgree
      <4> QED BY <1>2, <4>1, BetweenBounds DEF Count
    <3> QED BY <1>1, <3>1, <3>2
  <2>3. ctl.in_road \in Count
    <3>1. CASE program = "camino"
      BY <1>1, <1>2, <3>1 DEF Count
    <3>2. CASE program = "camino_ns"
      <4>1. ctl.in_road = Between(Car, BARRIER_POS, SENSOR2_POS)
        BY <1>1, <1>2, <1>3, <2>1, <3>2 DEF CountsAgree
      <4> QED BY <1>2, <4>1, BetweenBounds DEF Count
    <3> QED BY <1>1, <3>1, <3>2
  <2> QED BY <2>2, <2>3
<1>5. CASE mail # NoMsg
  <2>1. /\ mail \in Messages /\ mail.dir \in Directions /\ mail.kind \in {"IN", "BARRIER", "OUT"}
        /\ program = "camino" => mail.kind # "BARRIER"
    BY <1>1, <1>5 DEF Posts, Messages, Kinds
  <2>2. PICK c \in Car, p \in Stops : Dir(c) = mail.dir /\ Tells(p) = mail.kind /\ Passed(c, p)
    BY <1>1, <1>5 DEF MailMeans
  <2>3. /\ c \in CarsOf(mail.dir)
        /\ mail.kind = "IN" => p = SENSOR1_POS
        /\ mail.kind = "BARRIER" => p = BARRIER_POS
        /\ mail.kind = "OUT" => p = SENSOR2_POS
    <3>1. p \in Sensors /\ p \in Int /\ Tells(p) # NoMsg
      BY StopsAre DEF Stops
    <3> QED BY <2>2, <3>1, TellsAtSensor DEF Sensors, CarsOf
  <2>4. \A d \in Directions, kind \in Kinds : Unread(d, kind) = IF d = mail.dir /\ kind = mail.kind THEN 1 ELSE 0
    BY <2>1, UnreadIs
  <2>5. \A i, j \in Stops : i < j => (p = i => Among(c, i, j)) /\ (p = j => ~ Among(c, i, j))
    BY <2>2 DEF Passed
  <2>6. ASSUME NEW d \in Directions PROVE ctl.cars[d] \in Count
    <3>1. CASE program = "camino"
      <4> DEFINE b == Between(CarsOf(d), SENSOR1_POS, SENSOR2_POS)
      <4>1. ctl.cars[d] + Unread(d, "IN") - Unread(d, "OUT") = b
        BY <1>1, <3>1 DEF CountsAgree
      <4>2. /\ b \in Nat /\ b <= Cardinality(Car)
            /\ d = mail.dir /\ mail.kind = "IN" => b >= 1
            /\ d = mail.dir /\ mail.kind = "OUT" => b <= Cardinality(Car) - 1
        BY <1>2, <2>3, <2>5, <3>1, SensorsInStops, BetweenBounds
      <4> HIDE DEF b
      <4> QED BY <1>2, <1>3, <2>1, <2>4, <3>1, <4>1, <4>2 DEF Count
    <3>2. CASE program = "camino_ns"
      <4> DEFINE b == Between(CarsOf(d), SENSOR1_POS, BARRIER_POS)
      <4>1. ctl.cars[d] + Unread(d, "IN") - Unread(d, "BARRIER") = b
        BY <1>1, <3>2 DEF CountsAgree
      <4>2. /\ b \in Nat /\ b <= Cardinality(Car)
            /\ d = mail.dir /\ mail.kind = "IN" => b >= 1
            /\ d = mail.dir /\ mail.kind = "BARRIER" => b <= Cardinality(Car) - 1
        BY <1>2, <2>3, <2>5, <3>2, SensorsInStops, BetweenBounds
      <4> HIDE DEF b
      <4> QED BY <1>2, <1>3, <2>1, <2>4, <4>1, <4>2 DEF Count
    <3> QED BY <1>1, <3>1, <3>2
  <2>7. ctl.in_road \in Count
    <3>1. CASE program = "camino"
      BY <1>1, <1>2, <3>1 DEF Count
    <3>2. CASE program = "camino_ns"
      <4> DEFINE b == Between(Car, BARRIER_POS, SENSOR2_POS)
      <4>1. ctl.in_road + Unread("LEFTBOUND", "BARRIER") + Unread("RIGHTBOUND", "BARRIER")
              - Unread("LEFTBOUND", "OUT") - Unread("RIGHTBOUND", "OUT") = b
        BY <1>1, <3>2 DEF CountsAgree
      <4>2. /\ b \in Nat /\ b <= Cardinality(Car)
            /\ mail.kind = "BARRIER" => b >= 1
            /\ mail.kind = "OUT" => b <= Cardinality(Car) - 1
        BY <1>2, <2>3, <2>5, <3>2, SensorsInStops, BetweenBounds
      <4>3. mail.dir = "LEFTBOUND" \/ mail.dir = "RIGHTBOUND"
        BY <2>1 DEF Directions
      <4> HIDE DEF b
      <4> QED BY <1>2, <1>3, <2>1, <2>4, <4>1, <4>2, <4>3 DEF Count
    <3> QED BY <1>1, <3>1, <3>2
  <2> QED BY <2>6, <2>7
<1> QED BY <1>4, <1>5

(***************************************************************************)
(* Type correctness: the semaphores count to 1, and control never counts   *)
(* more cars than there are, nor fewer than none: a message that a car is  *)
(* out is never handled before the one that it is in (control of camino.c  *)
(* and of camino_ns.c).                                                    *)
(***************************************************************************)
THEOREM TypeCorrect == Spec => []TypeOK
<1>1. IInv => TypeOK
  <2> SUFFICES ASSUME IInv PROVE TypeOK
    OBVIOUS
  <2>1. /\ CarsSound /\ Letters /\ Linked(w) /\ ctl \in Controls_ /\ mail \in Posts \cup {NoMsg}
        /\ program \in {"camino", "camino_ns"}
    BY DEF IInv, Typed, CarsSound
  <2>2. w \in [value : [Sem -> 0 .. 1], list : [Sem \cup Cond -> Seq(Task)],
               timed : SUBSET Task, success : [Task -> BOOLEAN]]
    <3>1. \A s \in Sem : w.value[s] <= 1
      BY <2>1 DEF Letters, MailboxAgrees, MessagesAgree
    <3>2. w.value \in [Sem -> 0 .. 1]
      BY <2>1, <3>1, MailCounts
    <3> QED BY <2>1, <3>2 DEF Linked, Records, Queue
  <2>3. ctl \in [pc : {"get", "got", "receive", "close", "open"},
                 state : {"IDLE", "BUSY", "DRAINING"}, dir : Directions \cup {Nobody},
                 close : Directions \cup {Nobody}, open : Directions \cup {Nobody},
                 cars : [Directions -> Count], in_road : Count, passed : 0 .. PASS_MAX]
    <3>1. ctl.cars \in [Directions -> Count] /\ ctl.in_road \in Count
      BY <2>1, CountsBounded DEF Controls_
    <3> QED BY <2>1, <3>1 DEF Controls_
  <2> QED BY <2>1, <2>2, <2>3 DEF TypeOK, CarsSound, Roads, Cars, CarPcs, Posts, Messages
<1> QED BY <1>1, IInvHolds, PTL
=============================================================================
