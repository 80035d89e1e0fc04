--------------------------- MODULE XLMJRoom_proofs ---------------------------
(***************************************************************************)
(* Theorems of module XLMJRoom, for every number of seats and cards: how   *)
(* many cards each seat has; that at a public table nobody plays without a *)
(* coin and the table never waits for somebody out of the game; that every *)
(* seat is asked once about a card and answers once; and that the hand of  *)
(* a winner at a XZMJRoom is not touched any more.                         *)
(***************************************************************************)
EXTENDS XLMJRoom, TLAPS, WellFoundedInduction

-----------------------------------------------------------------------------
(* The turn order *)

(* A set of naturals has a least element. *)
LEMMA LeastElement ==
  ASSUME NEW T, T \subseteq Nat, T # {}
  PROVE  \E x \in T : \A y \in T : x <= y
<1> DEFINE R == OpToRel(<, Nat)
<1>1. IsWellFoundedOn(R, Nat)
  BY NatLessThanWellFounded
<1>2. PICK x \in T : \A y \in T : <<y, x>> \notin R
  BY <1>1, WFMin
<1>3. \A y \in T : <<y, x>> \in R <=> y < x
  BY DEF OpToRel
<1> HIDE DEF R
<1>4. ASSUME NEW y \in T PROVE x <= y
  <2>1. x \in Nat /\ y \in Nat
    OBVIOUS
  <2>2. ~ (y < x)
    BY <1>2, <1>3
  <2> QED
    BY <2>1, <2>2
<1> QED
  BY <1>4

(* A set of seats that is not empty has a highest one: the winner from whom     *)
(* HuDone goes on.                                                              *)
LEMMA HighestSeat ==
  ASSUME NEW S, S \subseteq Seats, S # {}
  PROVE  \E i \in S : \A j \in S : j <= i
<1> DEFINE T == {SeatCnt - i : i \in S}
<1>1. T \subseteq Nat /\ T # {}
  <2>1. \A i \in S : SeatCnt - i \in Nat
    BY TableAssumption DEF Seats
  <2> QED
    BY <2>1
<1> HIDE DEF T
<1>2. PICK x \in T : \A y \in T : x <= y
  BY <1>1, LeastElement
<1> USE DEF T
<1>3. PICK i \in S : x = SeatCnt - i
  BY <1>2
<1>4. \A j \in S : SeatCnt - i <= SeatCnt - j
  BY <1>2, <1>3
<1> QED
  BY <1>4, TableAssumption DEF Seats

(* getNextActPlayerIdx always names a seat. *)
LEMMA NextInType ==
  ASSUME NEW i \in Seats, NEW S
  PROVE  NextIn(i, S) \in Seats
<1> DEFINE ks == {k \in i + 1 .. 2 * SeatCnt - 1 : k % SeatCnt \in S}
           least == CHOOSE k \in ks : \A m \in ks : k <= m
<1>1. CASE ks = {}
  BY <1>1, TableAssumption DEF NextIn, Seats
<1>2. CASE ks # {}
  <2>1. ks \subseteq Nat
    BY TableAssumption DEF Seats
  <2> HIDE DEF ks
  <2>2. \E k \in ks : \A m \in ks : k <= m
    BY <1>2, <2>1, LeastElement
  <2>3. least \in Nat
    BY <2>1, <2>2
  <2>4. least % SeatCnt \in Seats
    <3> HIDE DEF least
    <3> QED BY <2>3, TableAssumption DEF Seats
  <2> QED
    BY <1>2, <2>4 DEF NextIn, ks
<1> QED
  BY <1>1, <1>2

-----------------------------------------------------------------------------
(* The room states *)

(* What is known of the current state beyond its type: a pong or kong that was  *)
(* answered has its seat, and a win has a winner.                               *)
CurOK(c) ==
  /\ c \in RoomStates
  /\ c.st = "AskForHuAndPeng" /\ c.doPeng # "None" => c.peng \in Seats
  /\ c.st = "DoPlayerAct" /\ c.act = "Hu" => c.huIdxs # <<>>

(* The state a name belongs to determines the members of the record. *)
LEMMA StateOf ==
  ASSUME NEW c \in RoomStates
  PROVE  /\ c.st = "WaitDecideQue"   => c \in DecideQueStates
         /\ c.st = "WaitPlayerAct"   => c \in WaitActStates
         /\ c.st = "WaitPlayerChu"   => c \in WaitChuStates
         /\ c.st = "DoPlayerAct"     => c \in DoStates
         /\ c.st = "AskForHuAndPeng" => c \in AskStates
         /\ c.st = "AskForRobotGang" => c \in RobotStates
         /\ c.st = "WaitSupplyCoin"  => c \in SupplyStates
BY DEF RoomStates, WaitReady, StartGame, GameEnd, DecideQueStates, WaitActStates,
       WaitChuStates, DoStates, AskStates, RobotStates, SupplyStates

(* Each constructor yields a proper room state. *)
LEMMA SimpleStates == CurOK(WaitReady) /\ CurOK(StartGame) /\ CurOK(GameEnd)
BY DEF CurOK, RoomStates, WaitReady, StartGame, GameEnd

LEMMA DecideQueOK ==
  ASSUME NEW w \in SUBSET Seats, NEW d \in BOOLEAN
  PROVE  CurOK(DecideQueSt(w, d))
BY DEF CurOK, RoomStates, DecideQueSt, DecideQueStates

LEMMA WaitActOK ==
  ASSUME NEW i \in Seats, NEW a \in SUBSET SelfActs, NEW p \in BOOLEAN
  PROVE  CurOK(WaitActSt(i, a, p))
BY DEF CurOK, RoomStates, WaitActSt, WaitActStates

LEMMA WaitChuOK ==
  ASSUME NEW i \in Seats
  PROVE  CurOK(WaitChuSt(i))
BY DEF CurOK, RoomStates, WaitChuSt, WaitChuStates

LEMMA DoOK ==
  ASSUME NEW a \in Acts, NEW i \in Seats, NEW v \in Seats, NEW h \in Seq(Seats),
         a = "Hu" => h # <<>>
  PROVE  CurOK(DoSt(a, i, v, h))
BY DEF CurOK, RoomStates, DoSt, DoStates

LEMMA AskOK ==
  ASSUME NEW v \in Seats, NEW wh \in SUBSET Seats, NEW wp \in SUBSET Seats,
         NEW p \in Seats \cup {NoSeat}, NEW g \in BOOLEAN
  PROVE  CurOK(AskSt(v, wh, wp, p, g))
BY DEF CurOK, RoomStates, AskSt, AskStates

LEMMA RobotOK ==
  ASSUME NEW v \in Seats, NEW w \in SUBSET Seats
  PROVE  CurOK(RobotSt(v, w))
BY DEF CurOK, RoomStates, RobotSt, RobotStates

LEMMA SupplyOK ==
  ASSUME NEW w \in SUBSET Seats, NEW i \in Seats,
         NEW t \in {"DoPlayerAct", "WaitPlayerAct", "WaitPlayerChu"}
  PROVE  CurOK(SupplySt(w, t, i))
BY DEF CurOK, RoomStates, SupplySt, SupplyStates

-----------------------------------------------------------------------------
(* Type correctness *)

TableType ==
  /\ wall \in 0 .. WallSize
  /\ hold \in [Seats -> Int] /\ penged \in [Seats -> Int]
  /\ ganged \in [Seats -> Nat] /\ phantom \in [Seats -> Nat] /\ lost \in [Seats -> Nat]
  /\ gangFlag \subseteq Seats /\ declareFlag \subseteq Seats /\ afterGang \subseteq Seats

PlayerType == banker \in Seats /\ status \in [Seats -> Statuses] /\ out \subseteq Seats

TypeInv == CurOK(cur) /\ PlayerType /\ TableType

LEMMA ActiveSeats == \A s : Active(s) \subseteq Seats
BY DEF Active

LEMMA EnterWaitActType ==
  ASSUME NEW i \in Seats, NEW s, EnterWaitAct(i, s)
  PROVE  CurOK(cur')
<1>1. PICK a \in Able(i), p \in BOOLEAN : cur' = WaitActSt(i, a, p)
  BY DEF EnterWaitAct
<1>2. a \in SUBSET SelfActs
  BY DEF Able
<1> QED
  BY <1>1, <1>2, WaitActOK

LEMMA DrawType ==
  ASSUME TableType, NEW i \in Seats, Draw(i)
  PROVE  wall' \in 0 .. WallSize /\ phantom' \in [Seats -> Nat]
BY TableAssumption DEF TableType, Draw

LEMMA DoMoType ==
  ASSUME TableType, NEW i \in Seats, DoMo(i)
  PROVE  CurOK(cur') /\ TableType'
<1>1. CurOK(cur')
  <2>1. "Mo" \in Acts /\ <<>> \in Seq(Seats)
    BY DEF Acts
  <2> QED
    BY <2>1, DoOK DEF DoMo
<1>2. TableType'
  <2>1. wall' \in 0 .. WallSize /\ phantom' \in [Seats -> Nat]
    BY DrawType DEF DoMo
  <2>2. hold' \in [Seats -> Int]
    BY DEF DoMo, TableType
  <2>3. UNCHANGED <<penged, ganged, lost>>
    BY DEF DoMo
  <2>4. gangFlag' \subseteq Seats /\ declareFlag' \subseteq Seats /\ afterGang' \subseteq Seats
    BY DEF DoMo, TableType
  <2> QED
    BY <2>1, <2>2, <2>3, <2>4 DEF TableType
<1> QED
  BY <1>1, <1>2

LEMMA DoChuType ==
  ASSUME TableType, NEW i \in Seats, NEW d \in BOOLEAN, DoChu(i, d)
  PROVE  CurOK(cur') /\ TableType'
<1>1. CurOK(cur')
  <2>1. "Chu" \in Acts /\ <<>> \in Seq(Seats)
    BY DEF Acts
  <2> QED
    BY <2>1, DoOK DEF DoChu
<1>2. TableType'
  BY DEF DoChu, flagVars, TableType
<1> QED
  BY <1>1, <1>2

LEMMA DoPengType ==
  ASSUME TableType, NEW i \in Seats, NEW v \in Seats, DoPeng(i, v)
  PROVE  CurOK(cur') /\ TableType'
<1>1. CurOK(cur')
  <2>1. "Peng" \in Acts /\ <<>> \in Seq(Seats)
    BY DEF Acts
  <2> QED
    BY <2>1, DoOK DEF DoPeng
<1>2. TableType'
  <2>1. hold' \in [Seats -> Int]
    BY DEF DoPeng, TableType
  <2>2. penged' \in [Seats -> Int]
    BY DEF DoPeng, TableType
  <2>3. UNCHANGED <<wall, ganged, phantom, lost, gangFlag, declareFlag>> /\ afterGang' \subseteq Seats
    BY DEF DoPeng, TableType
  <2> QED
    BY <2>1, <2>2, <2>3 DEF TableType
<1> QED
  BY <1>1, <1>2

(* What a kong does, whatever becomes of penged and declareFlag. *)
LEMMA LayGangType ==
  ASSUME TableType, NEW i \in Seats, NEW a \in Gangs, NEW v \in Seats, NEW n \in Nat,
         LayGang(i, a, v, n), penged' \in [Seats -> Int], declareFlag' \subseteq Seats
  PROVE  CurOK(cur') /\ TableType'
<1>1. CurOK(cur')
  <2>1. a \in Acts /\ a # "Hu" /\ <<>> \in Seq(Seats)
    BY DEF Acts, Gangs
  <2> QED
    BY <2>1, DoOK DEF LayGang
<1>2. TableType'
  <2>1. wall' \in 0 .. WallSize /\ phantom' \in [Seats -> Nat]
    BY DrawType DEF LayGang
  <2>2. hold \in [Seats -> Int] /\ hold' = [hold EXCEPT ![i] = @ - n + 1]
    BY DEF LayGang, TableType
  <2>3. hold' \in [Seats -> Int]
    BY <2>2
  <2>4. ganged \in [Seats -> Nat] /\ ganged' = [ganged EXCEPT ![i] = @ + 1]
    BY DEF LayGang, TableType
  <2>5. ganged' \in [Seats -> Nat]
    BY <2>4
  <2>6. lost' \in [Seats -> Nat]
    BY DEF LayGang, TableType
  <2> QED
    BY <2>1, <2>3, <2>5, <2>6 DEF LayGang, TableType
<1> QED
  BY <1>1, <1>2

LEMMA PayType ==
  ASSUME PlayerType, NEW payers \in SUBSET Seats, NEW i \in Seats, Pay(payers, i)
  PROVE  out' \subseteq Seats
BY DEF PlayerType, Pay

LEMMA DoMingGangType ==
  ASSUME TableType, PlayerType, NEW i \in Seats, NEW v \in Seats, DoMingGang(i, v)
  PROVE  CurOK(cur') /\ TableType' /\ out' \subseteq Seats
<1>1. LayGang(i, "MingGang", v, 3) /\ penged' \in [Seats -> Int] /\ declareFlag' \subseteq Seats
  BY DEF DoMingGang, TableType
<1>2. "MingGang" \in Gangs
  BY DEF Gangs
<1>3. CurOK(cur') /\ TableType'
  BY <1>1, <1>2, LayGangType
<1> QED
  BY <1>3, PayType DEF DoMingGang

LEMMA DoAnGangType ==
  ASSUME TableType, PlayerType, NEW i \in Seats, DoAnGang(i)
  PROVE  CurOK(cur') /\ TableType' /\ out' \subseteq Seats
<1>1. LayGang(i, "AnGang", i, 4) /\ penged' \in [Seats -> Int] /\ declareFlag' \subseteq Seats
  BY DEF DoAnGang, TableType
<1>2. "AnGang" \in Gangs
  BY DEF Gangs
<1>3. CurOK(cur') /\ TableType'
  BY <1>1, <1>2, LayGangType
<1>4. Active(status) \ {i} \in SUBSET Seats
  BY ActiveSeats
<1> QED
  BY <1>3, <1>4, PayType DEF DoAnGang

LEMMA DoBuGangType ==
  ASSUME TableType, PlayerType, NEW i \in Seats, DoBuGang(i)
  PROVE  CurOK(cur') /\ TableType' /\ out' \subseteq Seats
<1>1. LayGang(i, "BuGang", i, 1) /\ penged' \in [Seats -> Int] /\ declareFlag' \subseteq Seats
  BY DEF DoBuGang, TableType
<1>2. "BuGang" \in Gangs
  BY DEF Gangs
<1>3. CurOK(cur') /\ TableType'
  BY <1>1, <1>2, LayGangType
<1>4. Active(status) \ {i} \in SUBSET Seats
  BY ActiveSeats
<1> QED
  BY <1>3, <1>4, PayType DEF DoBuGang

LEMMA DoZiMoType ==
  ASSUME TableType, PlayerType, NEW i \in Seats, DoZiMo(i)
  PROVE  CurOK(cur') /\ TableType' /\ out' \subseteq Seats /\ status' \in [Seats -> Statuses]
<1>1. CurOK(cur')
  <2>1. "Hu" \in Acts /\ <<i>> \in Seq(Seats) /\ <<i>> # <<>>
    BY DEF Acts
  <2> QED
    BY <2>1, DoOK DEF DoZiMo
<1>2. TableType'
  BY DEF DoZiMo, TableType, flagVars
<1>3. out' \subseteq Seats
  BY ActiveSeats, PayType DEF DoZiMo
<1>4. status' \in [Seats -> Statuses]
  BY DEF DoZiMo, PlayerType, Statuses
<1> QED
  BY <1>1, <1>2, <1>3, <1>4

LEMMA RobCardType ==
  ASSUME TableType, NEW v \in Seats, NEW d \in BOOLEAN, RobCard(v, d)
  PROVE  hold' \in [Seats -> Int] /\ lost' \in [Seats -> Nat]
BY DEF TableType, RobCard

LEMMA DoDianPaoType ==
  ASSUME TableType, PlayerType, NEW q \in Seq(Seats), q # <<>>, NEW v \in Seats,
         NEW d \in BOOLEAN, DoDianPao(q, v, d)
  PROVE  CurOK(cur') /\ TableType' /\ out' \subseteq Seats /\ status' \in [Seats -> Statuses]
<1>1. CurOK(cur')
  <2>1. "Hu" \in Acts /\ q[1] \in Seats
    BY DEF Acts
  <2> QED
    BY <2>1, DoOK DEF DoDianPao
<1>2. TableType'
  BY RobCardType DEF DoDianPao, TableType, flagVars
<1>3. PICK k \in 1 .. Len(q), ruined \in BOOLEAN :
        LET paid == {q[n] : n \in 1 .. k} IN
        /\ status' = [i \in Seats |-> IF i \in paid THEN "AlreadyHu" ELSE status[i]]
        /\ out' = IF v \in out THEN out ELSE (out \ paid) \cup (IF ruined THEN {v} ELSE {})
  BY DEF DoDianPao, PayWinners
<1>4. out' \subseteq Seats
  BY <1>3 DEF PlayerType
<1>5. status' \in [Seats -> Statuses]
  BY <1>3 DEF PlayerType, Statuses
<1> QED
  BY <1>1, <1>2, <1>4, <1>5

LEMMA EnterGameEndType ==
  ASSUME TableType, NEW o, NEW s, EnterGameEnd(o, s)
  PROVE  CurOK(cur') /\ TableType' /\ out' \subseteq Seats
BY SimpleStates DEF EnterGameEnd, Settled, TableType, handVars

LEMMA InitType == Init => TypeInv
BY SimpleStates, TableAssumption
   DEF Init, TypeInv, PlayerType, TableType, Seats, Statuses

LEMMA EnterType ==
  ASSUME TypeInv, NEW i \in Seats, Enter(i)
  PROVE  TypeInv'
BY DEF TypeInv, Enter, PlayerType, TableType, Statuses, tableVars, handVars, flagVars

LEMMA LeaveType ==
  ASSUME TypeInv, NEW i \in Seats, Leave(i)
  PROVE  TypeInv'
BY DEF TypeInv, Leave, PlayerType, TableType, Statuses

LEMMA SetReadyType ==
  ASSUME TypeInv, NEW i \in Seats, SetReady(i)
  PROVE  TypeInv'
<1> DEFINE s == [status EXCEPT ![i] = "Ready"]
           b == (banker + 1) % SeatCnt
<1>1. CASE \E j \in Seats : s[j] # "Ready"
  <2>1. status' = s /\ UNCHANGED <<cur, banker, tableVars, out>>
    BY <1>1 DEF SetReady
  <2> QED
    BY <2>1 DEF TypeInv, PlayerType, TableType, Statuses, tableVars, handVars, flagVars
<1>2. CASE ~ \E j \in Seats : s[j] # "Ready"
  <2>1. b \in Seats
    BY TableAssumption DEF TypeInv, PlayerType, Seats
  <2>2. /\ cur' = StartGame /\ banker' = b
        /\ status' = [j \in Seats |-> "CanAct"]
        /\ wall' = WallSize
        /\ hold' = [j \in Seats |-> hold[j] + IF j = b THEN DealCnt + 1 ELSE DealCnt]
        /\ gangFlag' = {} /\ declareFlag' = {}
        /\ UNCHANGED <<penged, ganged, phantom, lost, afterGang, out>>
    BY <1>2 DEF SetReady
  <2>3. PlayerType'
    BY <2>1, <2>2 DEF TypeInv, PlayerType, Statuses
  <2>4. TableType'
    <3>1. hold' \in [Seats -> Int]
      BY <2>2, TableAssumption DEF TypeInv, TableType
    <3> QED
      BY <2>2, <3>1, TableAssumption DEF TypeInv, TableType
  <2> QED
    BY <2>2, <2>3, <2>4, SimpleStates DEF TypeInv
<1> QED
  BY <1>1, <1>2

LEMMA StartGameTimeUpType == TypeInv /\ StartGameTimeUp => TypeInv'
BY DecideQueOK
   DEF TypeInv, StartGameTimeUp, PlayerType, TableType, tableVars, handVars, flagVars

(* The frame of the actions that only move on to another room state. *)
LEMMA OnlyCurChanges ==
  ASSUME TypeInv, UNCHANGED <<banker, status, out, tableVars>>, CurOK(cur')
  PROVE  TypeInv'
BY DEF TypeInv, PlayerType, TableType, tableVars, handVars, flagVars

LEMMA QueOverType ==
  ASSUME TypeInv, cur.st = "WaitDecideQue", NEW w \in SUBSET Seats, QueOver(w)
  PROVE  CurOK(cur')
<1>1. CASE cur.doing
  BY <1>1, EnterWaitActType DEF QueOver, TypeInv, PlayerType
<1>2. CASE ~cur.doing
  BY <1>2, DecideQueOK DEF QueOver
<1> QED
  BY <1>1, <1>2

LEMMA DecideQueType ==
  ASSUME TypeInv, NEW i \in Seats, DecideQue(i)
  PROVE  TypeInv'
<1>1. cur \in DecideQueStates
  BY StateOf DEF TypeInv, CurOK, DecideQue
<1>2. cur.wait \in SUBSET Seats /\ cur.doing \in BOOLEAN /\ cur.st = "WaitDecideQue"
  BY <1>1 DEF DecideQueStates
<1>3. QueOver({}) \/ cur' = DecideQueSt(cur.wait \ {i}, cur.doing)
  BY DEF DecideQue
<1>4. CurOK(cur')
  BY <1>2, <1>3, QueOverType, DecideQueOK
<1> QED
  BY <1>4, OnlyCurChanges DEF DecideQue

LEMMA QueTimeUpType == TypeInv /\ QueTimeUp => TypeInv'
<1> SUFFICES ASSUME TypeInv, QueTimeUp PROVE TypeInv'
  OBVIOUS
<1>1. cur.st = "WaitDecideQue" /\ cur \in DecideQueStates
  BY StateOf DEF TypeInv, CurOK, QueTimeUp
<1>2. cur.wait \in SUBSET Seats
  BY <1>1 DEF DecideQueStates
<1>3. CurOK(cur')
  BY <1>1, <1>2, QueOverType DEF QueTimeUp
<1> QED
  BY <1>3, OnlyCurChanges DEF QueTimeUp

(* The turn of a seat *)
LEMMA DiscardType ==
  ASSUME TypeInv, NEW i \in Seats, Discard(i)
  PROVE  TypeInv'
BY DoChuType DEF Discard, TypeInv, PlayerType

LEMMA SelfHuType ==
  ASSUME TypeInv, NEW i \in Seats, SelfHu(i)
  PROVE  TypeInv'
BY DoZiMoType DEF SelfHu, TypeInv, PlayerType

LEMMA ConcealedGangType ==
  ASSUME TypeInv, NEW i \in Seats, ConcealedGang(i)
  PROVE  TypeInv'
BY DoAnGangType DEF ConcealedGang, TypeInv, PlayerType

LEMMA AddedGangType ==
  ASSUME TypeInv, NEW i \in Seats, NEW act \in {"BuGang", "BuGang_Declare"}, AddedGang(i, act)
  PROVE  TypeInv'
<1>1. PICK robbers \in SUBSET Winners(i) :
        IF robbers = {} /\ act = "BuGang"
        THEN DoBuGang(i) /\ UNCHANGED <<banker, status>>
        ELSE /\ cur' = IF robbers = {} THEN DoSt(act, i, i, <<>>) ELSE RobotSt(i, robbers)
             /\ declareFlag' = declareFlag \cup {i}
             /\ UNCHANGED <<banker, status, out, wall, handVars, gangFlag, afterGang>>
  BY DEF AddedGang
<1>2. CASE robbers = {} /\ act = "BuGang"
  BY <1>1, <1>2, DoBuGangType DEF TypeInv, PlayerType
<1>3. CASE ~ (robbers = {} /\ act = "BuGang")
  <2>1. robbers \in SUBSET Seats
    BY ActiveSeats DEF Winners
  <2>2. act \in Acts /\ act # "Hu" /\ <<>> \in Seq(Seats)
    BY DEF Acts, Gangs
  <2>3. CurOK(cur')
    BY <1>1, <1>3, <2>1, <2>2, DoOK, RobotOK
  <2> QED
    BY <1>1, <1>3, <2>3 DEF TypeInv, PlayerType, TableType, handVars
<1> QED
  BY <1>2, <1>3

(* The timer, and what restarts it, change nothing but the time that is left. *)
Clock ==
  /\ cur.st \in {"WaitPlayerAct", "WaitSupplyCoin"}
  /\ \E b \in BOOLEAN : cur' = [cur EXCEPT !.late = b]
  /\ UNCHANGED <<banker, status, out, tableVars>>

LEMMA ClockSteps ==
  /\ TimeRunsDown => Clock
  /\ \A i \in Seats : PassTurn(i) \/ PaysTooLittle(i) => Clock
BY DEF TimeRunsDown, PassTurn, PaysTooLittle, Clock

LEMMA ClockState ==
  ASSUME TypeInv, Clock
  PROVE  /\ CurOK(cur') /\ cur'.st = cur.st /\ cur'.idx = cur.idx
         /\ cur.st = "WaitSupplyCoin" => cur'.wait = cur.wait /\ cur'.target = cur.target
<1>1. PICK b \in BOOLEAN : cur' = [cur EXCEPT !.late = b]
  BY DEF Clock
<1>2. CASE cur.st = "WaitPlayerAct"
  <2>1. cur \in WaitActStates
    BY <1>2, StateOf DEF TypeInv, CurOK
  <2>2. cur' \in WaitActStates /\ cur'.st = cur.st /\ cur'.idx = cur.idx
    BY <1>1, <2>1 DEF WaitActStates
  <2> QED
    BY <1>2, <2>2 DEF CurOK, RoomStates
<1>3. CASE cur.st = "WaitSupplyCoin"
  <2>1. cur \in SupplyStates
    BY <1>3, StateOf DEF TypeInv, CurOK
  <2>2. /\ cur' \in SupplyStates /\ cur'.st = cur.st /\ cur'.idx = cur.idx
        /\ cur'.wait = cur.wait /\ cur'.target = cur.target
    BY <1>1, <2>1 DEF SupplyStates
  <2> QED
    BY <1>3, <2>2 DEF CurOK, RoomStates
<1> QED
  BY <1>2, <1>3 DEF Clock

LEMMA ClockType == TypeInv /\ Clock => TypeInv'
BY ClockState, OnlyCurChanges DEF Clock

LEMMA TurnTimeUpType == TypeInv /\ TurnTimeUp => TypeInv'
<1> SUFFICES ASSUME TypeInv, TurnTimeUp PROVE TypeInv'
  OBVIOUS
<1>1. cur \in WaitActStates
  BY StateOf DEF TypeInv, CurOK, TurnTimeUp
<1>2. cur.idx \in Seats
  BY <1>1 DEF WaitActStates
<1>3. CASE cur.canPass
  <2>1. cur' = [cur EXCEPT !.canPass = FALSE, !.late = FALSE] /\ UNCHANGED tableVars
    BY <1>3 DEF TurnTimeUp
  <2>2. cur' \in WaitActStates
    BY <1>1, <2>1 DEF WaitActStates
  <2>3. CurOK(cur')
    BY <2>2 DEF CurOK, RoomStates, WaitActStates
  <2> QED
    BY <2>1, <2>3, OnlyCurChanges DEF TurnTimeUp
<1>4. CASE ~cur.canPass
  <2>1. PICK real \in BOOLEAN : DoChu(cur.idx, real)
    BY <1>4 DEF TurnTimeUp
  <2>2. CurOK(cur') /\ TableType'
    BY <1>2, <2>1, DoChuType DEF TypeInv
  <2> QED
    BY <2>2 DEF TurnTimeUp, TypeInv, PlayerType
<1> QED
  BY <1>3, <1>4

LEMMA WinnerTimeUpType == TypeInv /\ WinnerTimeUp => TypeInv'
<1> SUFFICES ASSUME TypeInv, WinnerTimeUp PROVE TypeInv'
  OBVIOUS
<1>1. cur \in WaitActStates
  BY StateOf DEF TypeInv, CurOK, WinnerTimeUp
<1>2. cur.idx \in Seats
  BY <1>1 DEF WaitActStates
<1>3. SelfHu(cur.idx) \/ ConcealedGang(cur.idx) \/ AddedGang(cur.idx, "BuGang")
  BY DEF WinnerTimeUp
<1> QED
  BY <1>2, <1>3, SelfHuType, ConcealedGangType, AddedGangType

LEMMA ChuTimeUpType == TypeInv /\ ChuTimeUp => TypeInv'
<1> SUFFICES ASSUME TypeInv, ChuTimeUp PROVE TypeInv'
  OBVIOUS
<1>1. cur.idx \in Seats
  BY StateOf DEF TypeInv, CurOK, ChuTimeUp, WaitChuStates
<1>2. CurOK(cur') /\ TableType'
  BY <1>1, DoChuType DEF ChuTimeUp, TypeInv
<1> QED
  BY <1>2 DEF ChuTimeUp, TypeInv, PlayerType

(* The answers to a discard *)
LEMMA ClaimActType ==
  ASSUME TypeInv, NEW c \in AskStates, CurOK(c), ClaimAct(c), UNCHANGED banker
  PROVE  TypeInv'
<1>1. c.invoke \in Seats /\ c.doHu \in Seq(Seats) /\ c.st = "AskForHuAndPeng"
  BY DEF AskStates
<1>2. CASE c.doHu # <<>> /\ DoDianPao(c.doHu, c.invoke, FALSE)
  <2>1. CurOK(cur') /\ TableType' /\ out' \subseteq Seats /\ status' \in [Seats -> Statuses]
    BY <1>1, <1>2, DoDianPaoType DEF TypeInv
  <2> QED
    BY <2>1 DEF TypeInv, PlayerType
<1>3. CASE c.doPeng = "Peng" /\ DoPeng(c.peng, c.invoke) /\ UNCHANGED <<status, out>>
  <2>1. c.peng \in Seats
    BY <1>1, <1>3 DEF CurOK
  <2> QED
    BY <1>1, <1>3, <2>1, DoPengType DEF TypeInv, PlayerType
<1>4. CASE c.doPeng = "MingGang" /\ DoMingGang(c.peng, c.invoke) /\ UNCHANGED status
  <2>1. c.peng \in Seats
    BY <1>1, <1>4 DEF CurOK
  <2> QED
    BY <1>1, <1>4, <2>1, DoMingGangType DEF TypeInv, PlayerType
<1> QED
  BY <1>2, <1>3, <1>4 DEF ClaimAct

LEMMA AskOverType ==
  ASSUME TypeInv, NEW c \in AskStates, CurOK(c), AskOver(c), UNCHANGED banker
  PROVE  TypeInv'
<1>1. CASE EnterGameEnd(out, status) /\ UNCHANGED status
  BY <1>1, EnterGameEndType DEF TypeInv, PlayerType
<1>2. CASE ClaimAct(c)
  BY <1>2, ClaimActType
<1>3. CASE DoMo(NextIn(c.invoke, Active(status))) /\ UNCHANGED <<status, out>>
  <2>1. NextIn(c.invoke, Active(status)) \in Seats
    BY NextInType DEF AskStates
  <2>2. CurOK(cur') /\ TableType'
    BY <1>3, <2>1, DoMoType DEF TypeInv
  <2> QED
    BY <1>3, <2>2 DEF TypeInv, PlayerType
<1> QED
  BY <1>1, <1>2, <1>3 DEF AskOver

LEMMA AnsweredType ==
  ASSUME TypeInv, NEW c0 \in AskStates, CurOK(c0), NEW i \in Seats, Answered(c0, i)
  PROVE  TypeInv'
<1> DEFINE c == [c0 EXCEPT !.waitHu = @ \ {i}, !.waitPeng = @ \ {i}]
<1>1. c \in AskStates /\ c.doPeng = c0.doPeng /\ c.peng = c0.peng
  BY DEF AskStates
<1>2. CurOK(c)
  BY <1>1 DEF CurOK, RoomStates, AskStates
<1> HIDE DEF c
<1>3. CASE cur' = c /\ UNCHANGED <<status, out, tableVars>>
  BY <1>2, <1>3, OnlyCurChanges DEF Answered
<1>4. CASE ClaimAct(c)
  BY <1>1, <1>2, <1>4, ClaimActType DEF Answered
<1>5. CASE AskOver(c)
  BY <1>1, <1>2, <1>5, AskOverType DEF Answered
<1> USE DEF c
<1> QED
  BY <1>3, <1>4, <1>5 DEF Answered

LEMMA AskStateOf ==
  ASSUME TypeInv, cur.st = "AskForHuAndPeng"
  PROVE  cur \in AskStates /\ CurOK(cur)
BY StateOf DEF TypeInv, CurOK

LEMMA ClaimHuType ==
  ASSUME TypeInv, NEW i \in Seats, ClaimHu(i)
  PROVE  TypeInv'
<1> DEFINE q  == Append(cur.doHu, i)
           c0 == [cur EXCEPT !.doHu = q]
<1>1. cur \in AskStates /\ CurOK(cur)
  BY AskStateOf DEF ClaimHu, Asked
<1>2. c0 \in AskStates /\ c0.doPeng = cur.doPeng /\ c0.peng = cur.peng
  <2>1. q \in Seq(Seats)
    BY <1>1 DEF AskStates
  <2> HIDE DEF q
  <2> QED
    BY <1>1, <2>1 DEF AskStates
<1>3. CurOK(c0)
  BY <1>1, <1>2 DEF CurOK, RoomStates, AskStates
<1>4. Answered(c0, i)
  BY DEF ClaimHu
<1> HIDE DEF c0
<1> QED
  BY <1>2, <1>3, <1>4, AnsweredType

LEMMA ClaimPengType ==
  ASSUME TypeInv, NEW i \in Seats, NEW act \in {"Peng", "MingGang"}, ClaimPeng(i, act)
  PROVE  TypeInv'
<1> DEFINE c0 == [cur EXCEPT !.doPeng = act]
<1>1. cur \in AskStates /\ i = cur.peng
  BY AskStateOf DEF ClaimPeng, Asked
<1>2. c0 \in AskStates /\ c0.peng \in Seats
  BY <1>1 DEF AskStates
<1>3. CurOK(c0)
  BY <1>2 DEF CurOK, RoomStates, AskStates
<1>4. Answered(c0, i)
  BY DEF ClaimPeng
<1> HIDE DEF c0
<1> QED
  BY <1>2, <1>3, <1>4, AnsweredType

LEMMA ClaimPassType ==
  ASSUME TypeInv, NEW i \in Seats, ClaimPass(i)
  PROVE  TypeInv'
BY AskStateOf, AnsweredType DEF ClaimPass, Asked

LEMMA AskTimeUpType == TypeInv /\ AskTimeUp => TypeInv'
BY AskStateOf, AskOverType DEF AskTimeUp

(* The answers to a declared kong *)
LEMMA RobotStateOf ==
  ASSUME TypeInv, cur.st = "AskForRobotGang"
  PROVE  cur \in RobotStates
BY StateOf DEF TypeInv, CurOK

LEMMA RobotAnsweredType ==
  ASSUME TypeInv, NEW i \in Seats, Robbed(i), NEW q \in Seq(Seats), RobotAnswered(q, i)
  PROVE  TypeInv'
<1>1. cur \in RobotStates /\ cur.invoke \in Seats
  BY RobotStateOf DEF Robbed, RobotStates
<1>2. CASE /\ cur' = [cur EXCEPT !.wait = @ \ {i}, !.doHu = q]
           /\ UNCHANGED <<banker, status, out, tableVars>>
  <2>1. cur' \in RobotStates
    BY <1>1, <1>2 DEF RobotStates
  <2>2. CurOK(cur')
    BY <2>1 DEF CurOK, RoomStates, RobotStates
  <2> QED
    BY <1>2, <2>2, OnlyCurChanges
<1>3. CASE DoBuGang(cur.invoke) /\ UNCHANGED <<banker, status>>
  BY <1>1, <1>3, DoBuGangType DEF TypeInv, PlayerType
<1>4. CASE q # <<>> /\ DoDianPao(q, cur.invoke, TRUE) /\ UNCHANGED banker
  BY <1>1, <1>4, DoDianPaoType DEF TypeInv, PlayerType
<1> QED
  BY <1>2, <1>3, <1>4 DEF RobotAnswered

LEMMA RobotMessagesType ==
  ASSUME TypeInv, NEW i \in Seats, RobotHu(i) \/ RobotPass(i)
  PROVE  TypeInv'
<1>1. cur.doHu \in Seq(Seats) /\ Append(cur.doHu, i) \in Seq(Seats)
  BY RobotStateOf DEF RobotHu, RobotPass, Robbed, RobotStates
<1> QED
  BY <1>1, RobotAnsweredType DEF RobotHu, RobotPass

LEMMA RobotTimeUpType == TypeInv /\ RobotTimeUp => TypeInv'
<1> SUFFICES ASSUME TypeInv, RobotTimeUp PROVE TypeInv'
  OBVIOUS
<1>1. cur.invoke \in Seats
  BY RobotStateOf DEF RobotTimeUp, RobotStates
<1> QED
  BY <1>1, DoBuGangType DEF RobotTimeUp, TypeInv, PlayerType

(* The end of an act *)
LEMMA DoStateOf ==
  ASSUME TypeInv, cur.st = "DoPlayerAct"
  PROVE  cur \in DoStates /\ cur.idx \in Seats /\ cur.act \in Acts /\ cur.huIdxs \in Seq(Seats)
BY StateOf DEF TypeInv, CurOK, DoStates

LEMMA MoDoneType == TypeInv /\ MoDone => TypeInv'
BY DoStateOf, EnterWaitActType, OnlyCurChanges DEF MoDone, Doing

LEMMA PengDoneType == TypeInv /\ PengDone => TypeInv'
BY DoStateOf, WaitChuOK, OnlyCurChanges DEF PengDone, Doing

LEMMA PennilessType ==
  ASSUME PlayerType, NEW s
  PROVE  Penniless(out, s) \in SUBSET Seats
BY DEF PlayerType, Penniless

LEMMA GangDoneType == TypeInv /\ GangDone => TypeInv'
<1> SUFFICES ASSUME TypeInv, GangDone PROVE TypeInv'
  OBVIOUS
<1> DEFINE w == Penniless(out, status)
           t == IF cur.act = "MingGang" THEN "WaitPlayerChu" ELSE "WaitPlayerAct"
<1>1. cur.idx \in Seats /\ w \in SUBSET Seats
  BY DoStateOf, PennilessType DEF GangDone, Doing, TypeInv
<1>2. EnterWaitAct(cur.idx, status) \/ cur' = SupplySt(w, t, cur.idx)
  BY DEF GangDone
<1>3. t \in {"DoPlayerAct", "WaitPlayerAct", "WaitPlayerChu"}
  OBVIOUS
<1> HIDE DEF w, t
<1>4. CurOK(cur')
  BY <1>1, <1>2, <1>3, EnterWaitActType, SupplyOK
<1> QED
  BY <1>4, OnlyCurChanges DEF GangDone

(* After a win the game is over, or the next draw or wait for coins is a seat's. *)
LEMMA HuDoneNext ==
  ASSUME TypeInv, HuDone, ~EnterGameEnd(out, status)
  PROVE  /\ UNCHANGED <<out, banker, status>>
         /\ \E next \in Seats, w \in SUBSET Seats :
              \/ DoMo(next)
              \/ cur' = SupplySt(w, "DoPlayerAct", next) /\ UNCHANGED tableVars
<1> DEFINE winners == SeqRange(cur.huIdxs)
           last    == CHOOSE i \in winners : \A j \in winners : j <= i
           rest    == Active(status) \ winners
           next    == NextIn(last, rest)
           w       == Penniless(out, status)
<1>1. /\ IF w = {} THEN DoMo(next)
          ELSE cur' = SupplySt(w, "DoPlayerAct", next) /\ UNCHANGED tableVars
      /\ UNCHANGED <<out, banker, status>>
  BY DEF HuDone
<1>2. winners \subseteq Seats /\ winners # {}
  <2>1. cur.huIdxs \in Seq(Seats) /\ cur.huIdxs # <<>>
    BY DoStateOf DEF HuDone, Doing, TypeInv, CurOK
  <2>2. \A n \in DOMAIN cur.huIdxs : cur.huIdxs[n] \in Seats
    BY <2>1
  <2>3. cur.huIdxs[1] \in winners
    BY <2>1 DEF SeqRange
  <2> QED
    BY <2>2, <2>3 DEF SeqRange
<1> HIDE DEF winners
<1>3. last \in Seats
  BY <1>2, HighestSeat
<1> HIDE DEF last, rest
<1>4. next \in Seats /\ w \in SUBSET Seats
  BY <1>3, NextInType, PennilessType DEF TypeInv
<1> HIDE DEF next, w
<1> QED
  BY <1>1, <1>4

LEMMA HuDoneType == TypeInv /\ HuDone => TypeInv'
<1> SUFFICES ASSUME TypeInv, HuDone PROVE TypeInv'
  OBVIOUS
<1>1. CASE EnterGameEnd(out, status)
  BY <1>1, EnterGameEndType DEF HuDone, TypeInv, PlayerType
<1>2. CASE ~EnterGameEnd(out, status)
  <2>1. PICK next \in Seats, w \in SUBSET Seats :
          \/ DoMo(next)
          \/ cur' = SupplySt(w, "DoPlayerAct", next) /\ UNCHANGED tableVars
    BY <1>2, HuDoneNext
  <2>2. UNCHANGED <<out, banker, status>>
    BY <1>2, HuDoneNext
  <2>3. CASE DoMo(next)
    BY <2>2, <2>3, DoMoType DEF TypeInv, PlayerType
  <2>4. CASE cur' = SupplySt(w, "DoPlayerAct", next) /\ UNCHANGED tableVars
    <3>1. CurOK(cur')
      BY <2>4, SupplyOK
    <3> QED
      BY <2>2, <2>4, <3>1, OnlyCurChanges
  <2> QED
    BY <2>1, <2>3, <2>4
<1> QED
  BY <1>1, <1>2

LEMMA ChuDoneType == TypeInv /\ ChuDone => TypeInv'
<1> SUFFICES ASSUME TypeInv, ChuDone PROVE TypeInv'
  OBVIOUS
<1>1. cur.idx \in Seats
  BY DoStateOf DEF ChuDone, Doing
<1>h. PICK huers \in SUBSET Winners(cur.idx) : \E pair \in Pairs(cur.idx, huers) :
        LET p == pair[1]
            waitPeng == {i \in {p} \ {NoSeat} : status[i] # "AlreadyHu"}
        IN  \/ /\ cur' = AskSt(cur.idx, huers, waitPeng, p, pair[2])
               /\ UNCHANGED <<out, tableVars>>
            \/ EnterGameEnd(out, status)
            \/ DoMo(NextIn(cur.idx, Active(status))) /\ UNCHANGED out
  BY DEF ChuDone
<1>2. PICK pair \in Pairs(cur.idx, huers) :
        LET p == pair[1]
            waitPeng == {i \in {p} \ {NoSeat} : status[i] # "AlreadyHu"}
        IN  \/ /\ cur' = AskSt(cur.idx, huers, waitPeng, p, pair[2])
               /\ UNCHANGED <<out, tableVars>>
            \/ EnterGameEnd(out, status)
            \/ DoMo(NextIn(cur.idx, Active(status))) /\ UNCHANGED out
  BY <1>h
<1> DEFINE p == pair[1]
           waitPeng == {i \in {p} \ {NoSeat} : status[i] # "AlreadyHu"}
<1>3. CASE cur' = AskSt(cur.idx, huers, waitPeng, p, pair[2]) /\ UNCHANGED <<out, tableVars>>
  <2>1. huers \in SUBSET Seats
    BY ActiveSeats DEF Winners
  <2>2. pair \in (Seats \cup {NoSeat}) \X BOOLEAN
    <3>1. CASE pair = <<NoSeat, FALSE>>
      BY <3>1
    <3>2. CASE pair \in (Active(status) \ {cur.idx}) \X BOOLEAN
      BY <3>2, ActiveSeats
    <3> QED
      BY <3>1, <3>2 DEF Pairs
  <2>3. p \in Seats \cup {NoSeat} /\ pair[2] \in BOOLEAN
    BY <2>2
  <2>4. waitPeng \in SUBSET Seats
    BY <2>3
  <2> HIDE DEF p, waitPeng
  <2>5. CurOK(cur')
    BY <1>1, <1>3, <2>1, <2>3, <2>4, AskOK
  <2> QED
    BY <1>3, <2>5, OnlyCurChanges DEF ChuDone
<1>4. CASE EnterGameEnd(out, status)
  BY <1>4, EnterGameEndType DEF ChuDone, TypeInv, PlayerType
<1>5. CASE DoMo(NextIn(cur.idx, Active(status))) /\ UNCHANGED out
  <2>1. NextIn(cur.idx, Active(status)) \in Seats
    BY <1>1, NextInType
  <2>2. CurOK(cur') /\ TableType'
    BY <1>5, <2>1, DoMoType DEF TypeInv
  <2> QED
    BY <1>5, <2>2 DEF ChuDone, TypeInv, PlayerType
<1> QED
  BY <1>2, <1>3, <1>4, <1>5

(* The wait for coins *)
LEMMA SupplyStateOf ==
  ASSUME TypeInv, cur.st = "WaitSupplyCoin"
  PROVE  cur \in SupplyStates /\ cur.idx \in Seats /\ cur.wait \in SUBSET Seats
BY StateOf DEF TypeInv, CurOK, SupplyStates

LEMMA SupplyOverType ==
  ASSUME TypeInv, cur.st = "WaitSupplyCoin", NEW s, NEW o \in SUBSET Seats, SupplyOver(s, o)
  PROVE  CurOK(cur') /\ TableType' /\ out' \subseteq Seats
<1>1. CASE EnterGameEnd(o, s)
  BY <1>1, EnterGameEndType DEF TypeInv
<1>2. CASE out' = o /\ DoMo(IF s[cur.idx] = "DecideLose" THEN NextIn(cur.idx, Active(s)) ELSE cur.idx)
  <2> DEFINE next == IF s[cur.idx] = "DecideLose" THEN NextIn(cur.idx, Active(s)) ELSE cur.idx
  <2>1. next \in Seats
    BY SupplyStateOf, NextInType
  <2> HIDE DEF next
  <2>2. DoMo(next)
    BY <1>2 DEF next
  <2> QED
    BY <1>2, <2>1, <2>2, DoMoType DEF TypeInv
<1>3. CASE out' = o /\ EnterWaitAct(cur.idx, s) /\ UNCHANGED tableVars
  BY <1>3, SupplyStateOf, EnterWaitActType DEF TypeInv, TableType, tableVars, handVars, flagVars
<1>4. CASE out' = o /\ cur' = WaitChuSt(cur.idx) /\ UNCHANGED tableVars
  BY <1>4, SupplyStateOf, WaitChuOK DEF TypeInv, TableType, tableVars, handVars, flagVars
<1> QED
  BY <1>1, <1>2, <1>3, <1>4 DEF SupplyOver

LEMMA SupplyLeftType ==
  ASSUME TypeInv, cur.st = "WaitSupplyCoin", NEW w \in SUBSET Seats, NEW s,
         NEW o \in SUBSET Seats, SupplyLeft(w, s, o)
  PROVE  CurOK(cur') /\ TableType' /\ out' \subseteq Seats
<1>1. CASE SupplyOver(s, o)
  BY <1>1, SupplyOverType
<1>2. CASE cur' = [cur EXCEPT !.wait = w] /\ out' = o /\ UNCHANGED tableVars
  <2>1. cur' \in SupplyStates
    BY <1>2, SupplyStateOf DEF SupplyStates
  <2>2. CurOK(cur')
    BY <2>1 DEF CurOK, RoomStates, SupplyStates
  <2> QED
    BY <1>2, <2>2 DEF TypeInv, TableType, tableVars, handVars, flagVars
<1> QED
  BY <1>1, <1>2 DEF SupplyLeft

LEMMA AddCoinType ==
  ASSUME TypeInv, NEW i \in Seats, AddCoin(i)
  PROVE  TypeInv'
<1>1. cur.wait \ {i} \in SUBSET Seats /\ out \ {i} \in SUBSET Seats /\ cur.st = "WaitSupplyCoin"
  BY SupplyStateOf DEF AddCoin, TypeInv, PlayerType
<1>2. CASE i \in cur.wait
  <2>1. CurOK(cur') /\ TableType' /\ out' \subseteq Seats
    BY <1>1, <1>2, SupplyLeftType DEF AddCoin
  <2> QED
    BY <2>1 DEF AddCoin, TypeInv, PlayerType
<1>3. CASE i \notin cur.wait
  <2>1. UNCHANGED <<cur, tableVars>> /\ out' \subseteq Seats
    BY <1>1, <1>3 DEF AddCoin
  <2> QED
    BY <2>1 DEF AddCoin, TypeInv, PlayerType, TableType, tableVars, handVars, flagVars
<1> QED
  BY <1>2, <1>3

LEMMA DecideLoseType ==
  ASSUME TypeInv, NEW i \in Seats, DecideLose(i)
  PROVE  TypeInv'
<1>1. cur.wait \ {i} \in SUBSET Seats /\ out \in SUBSET Seats /\ cur.st = "WaitSupplyCoin"
  BY SupplyStateOf DEF DecideLose, TypeInv, PlayerType
<1>2. CurOK(cur') /\ TableType' /\ out' \subseteq Seats
  BY <1>1, SupplyLeftType DEF DecideLose
<1>3. status' \in [Seats -> Statuses]
  BY DEF DecideLose, TypeInv, PlayerType, Statuses
<1> QED
  BY <1>2, <1>3 DEF DecideLose, TypeInv, PlayerType

LEMMA SupplyTimeUpType == TypeInv /\ SupplyTimeUp => TypeInv'
<1> SUFFICES ASSUME TypeInv, SupplyTimeUp PROVE TypeInv'
  OBVIOUS
<1>1. CurOK(cur') /\ TableType' /\ out' \subseteq Seats
  BY SupplyOverType DEF SupplyTimeUp, TypeInv, PlayerType
<1>2. status' \in [Seats -> Statuses]
  BY DEF SupplyTimeUp, TypeInv, PlayerType, Statuses
<1> QED
  BY <1>1, <1>2 DEF SupplyTimeUp, TypeInv, PlayerType

LEMMA GameEndTimeUpType == TypeInv /\ GameEndTimeUp => TypeInv'
BY SimpleStates DEF TypeInv, GameEndTimeUp, PlayerType, TableType, Statuses

LEMMA TypeInvStep == TypeInv /\ [Next]_vars => TypeInv'
<1> SUFFICES ASSUME TypeInv, [Next]_vars PROVE TypeInv'
  OBVIOUS
<1>1. CASE TimeUp
  BY <1>1, StartGameTimeUpType, QueTimeUpType, ClockSteps, ClockType, TurnTimeUpType, WinnerTimeUpType, ChuTimeUpType,
     AskTimeUpType, RobotTimeUpType, MoDoneType, PengDoneType, GangDoneType, HuDoneType,
     ChuDoneType, SupplyTimeUpType, GameEndTimeUpType DEF TimeUp
<1>2. ASSUME NEW i \in Seats, Message(i) PROVE TypeInv'
  BY <1>2, EnterType, LeaveType, SetReadyType, DecideQueType, DiscardType, SelfHuType,
     ConcealedGangType, AddedGangType, ClaimHuType, ClaimPengType, ClaimPassType,
     RobotMessagesType, AddCoinType, DecideLoseType, ClockSteps, ClockType DEF Message
<1>3. CASE UNCHANGED vars
  BY <1>3 DEF vars, TypeInv, PlayerType, TableType
<1> QED
  BY <1>1, <1>2, <1>3 DEF Next

(* Every reachable state of every table is well typed: the room state is one of *)
(* the code's with all its members, turns, questions and winners are seats, the *)
(* wall is between empty and full, and no seat has fewer than no kongs, phantom *)
(* or robbed cards.  Cards in hand and pongs are only known to be integers here *)
(* (HandSizesCorrect bounds the sum a seat answers for).  CurOK strengthens     *)
(* TypeOK: that the seat which pongs or wins exists is not visible in the types *)
(* alone, and DoPeng, DoMingGang and HuDone need it.                            *)
THEOREM TypeCorrect == Spec => []TypeOK
<1>1. TypeInv => TypeOK
  BY DEF TypeInv, TypeOK, CurOK, PlayerType, TableType
<1> QED
  BY <1>1, InitType, TypeInvStep, PTL DEF Spec

-----------------------------------------------------------------------------
(* The size of the hands *)

(* The hands when seat b (NoSeat: nobody) has drawn and not discarded *)
LooseHands(b) == \A i \in Seats : Surplus(i) - (IF i = b THEN 1 ELSE 0) \in 0 .. phantom[i]

(* A seat that has just drawn the number 0 has room for one more: a time-up may *)
(* leave it with the card it failed to discard.                                 *)
FreshHand(b) == b \in Seats => Surplus(b) = 1 \/ Surplus(b) <= phantom[b]

(* Whether the burdened seat got its last card by a draw, not by a pong *)
Drawn ==
  /\ cur.st # "WaitPlayerChu" /\ ~Doing({"Peng"})
  /\ ~ (cur.st = "WaitSupplyCoin" /\ cur.target = "WaitPlayerChu")

EmptyWall == \A i \in Seats : phantom[i] # 0 => wall = 0

NoCards ==
  \A i \in Seats : hold[i] = 0 /\ penged[i] = 0 /\ ganged[i] = 0 /\ phantom[i] = 0 /\ lost[i] = 0

(* The inductive invariant: HandSizes needs to know that a table starts with    *)
(* empty hands, that number 0 only comes from an empty wall, that only a fresh  *)
(* hand can fail to discard, and that a kong under question is declared, so     *)
(* that robbing it takes the card away.                                         *)
HandInv ==
  /\ EmptyWall
  /\ cur.st = "WaitReady" => NoCards
  /\ cur.st = "AskForRobotGang" => cur.invoke \in declareFlag
  /\ InGame => LooseHands(Burdened)
  /\ InGame /\ Drawn => FreshHand(Burdened)

LEMMA SurplusType ==
  ASSUME TableType
  PROVE  \A i \in Seats : Surplus(i) \in Int /\ phantom[i] \in Nat
BY TableAssumption DEF TableType, Surplus, Size

LEMMA NoSeatIsNone == NoSeat \notin Seats
BY TableAssumption DEF NoSeat, Seats

LEMMA HandInvImpliesSizes == TypeInv /\ HandInv => HandSizes
<1> SUFFICES ASSUME TypeInv, HandInv, InGame, NEW i \in Seats
             PROVE  Excess(i) \in 0 .. phantom[i]
  BY DEF HandSizes
<1>1. Surplus(i) - (IF i = Burdened THEN 1 ELSE 0) \in 0 .. phantom[i]
  BY DEF HandInv, LooseHands
<1> QED
  BY <1>1 DEF Excess

(* After an act the table is doing it, and the act says who is burdened. *)
LEMMA AfterAct ==
  ASSUME NEW a, NEW i, NEW v, NEW h, cur' = DoSt(a, i, v, h)
  PROVE  /\ cur'.st = "DoPlayerAct" /\ InGame'
         /\ Burdened' = IF a \in {"Chu", "Hu"} THEN NoSeat ELSE i
         /\ Drawn' <=> a # "Peng"
BY DEF DoSt, InGame, Burdened, Drawn, Doing

LEMMA HandInvAfterAct ==
  ASSUME NEW a, NEW i, NEW v, NEW h, cur' = DoSt(a, i, v, h), EmptyWall',
         LooseHands(IF a \in {"Chu", "Hu"} THEN NoSeat ELSE i)',
         a \notin {"Chu", "Hu", "Peng"} => FreshHand(i)'
  PROVE  HandInv'
<1> DEFINE b == IF a \in {"Chu", "Hu"} THEN NoSeat ELSE i
<1>1. cur'.st = "DoPlayerAct" /\ Burdened' = b /\ (Drawn' <=> a # "Peng")
  BY AfterAct
<1>2. LooseHands(Burdened)'
  BY <1>1 DEF LooseHands, Surplus
<1>3. Drawn' => FreshHand(Burdened)'
  BY <1>1, NoSeatIsNone DEF FreshHand, Surplus
<1> QED
  BY <1>1, <1>2, <1>3 DEF HandInv

(* The effect of a draw on phantom and the wall, u being the cards gained *)
LEMMA DrawHands ==
  ASSUME TypeInv, EmptyWall, NEW i \in Seats, Draw(i)
  PROVE  /\ EmptyWall'
         /\ \A j \in Seats \ {i} : phantom'[j] = phantom[j]
         /\ phantom'[i] = phantom[i] + 1 \/ (phantom'[i] = 0 /\ phantom[i] = 0)
BY TableAssumption DEF TypeInv, TableType, EmptyWall, Draw

LEMMA DoMoHands ==
  ASSUME TypeInv, TypeInv', EmptyWall, LooseHands(NoSeat), NEW i \in Seats, DoMo(i)
  PROVE  HandInv'
<1>1. /\ EmptyWall'
      /\ \A j \in Seats \ {i} : phantom'[j] = phantom[j]
      /\ phantom'[i] = phantom[i] + 1 \/ (phantom'[i] = 0 /\ phantom[i] = 0)
  BY DrawHands DEF DoMo
<1>2. Surplus(i)' = Surplus(i) + 1 /\ \A j \in Seats \ {i} : Surplus(j)' = Surplus(j)
  <2>1. /\ hold' = [hold EXCEPT ![i] = @ + 1]
        /\ UNCHANGED <<penged, ganged, lost>>
    BY DEF DoMo
  <2>2. /\ hold \in [Seats -> Int] /\ ganged \in [Seats -> Nat]
        /\ penged \in [Seats -> Int] /\ lost \in [Seats -> Nat] /\ DealCnt \in Nat
    BY TableAssumption DEF TypeInv, TableType
  <2> QED
    BY <2>1, <2>2 DEF Surplus, Size
<1>3. \A j \in Seats : Surplus(j) \in 0 .. phantom[j] /\ phantom[j] \in Nat
  BY NoSeatIsNone, SurplusType DEF LooseHands, TypeInv
<1>4. LooseHands(i)' /\ FreshHand(i)'
  BY <1>1, <1>2, <1>3 DEF LooseHands, FreshHand
<1> QED
  BY <1>1, <1>4, HandInvAfterAct DEF DoMo

LEMMA DoChuHands ==
  ASSUME TypeInv, TypeInv', EmptyWall, NEW i \in Seats, LooseHands(i), NEW d \in BOOLEAN,
         d \/ (FreshHand(i) /\ phantom[i] # 0), DoChu(i, d)
  PROVE  HandInv'
<1>1. EmptyWall'
  BY DEF DoChu, EmptyWall
<1>2. /\ Surplus(i)' = Surplus(i) - (IF d THEN 1 ELSE 0)
      /\ \A j \in Seats \ {i} : Surplus(j)' = Surplus(j)
  BY TableAssumption DEF DoChu, Surplus, Size, TypeInv, TableType
<1>3. /\ Surplus(i) - 1 \in 0 .. phantom[i]
      /\ \A j \in Seats \ {i} : Surplus(j) \in 0 .. phantom[j]
      /\ \A j \in Seats : phantom[j] \in Nat /\ phantom'[j] = phantom[j] /\ Surplus(j) \in Int
  BY SurplusType DEF LooseHands, TypeInv, DoChu
<1>4. LooseHands(NoSeat)'
  BY <1>1, <1>2, <1>3, NoSeatIsNone DEF LooseHands, FreshHand
<1> QED
  BY <1>1, <1>4, HandInvAfterAct DEF DoChu

(* x more cards in hand and y more melds change the surplus by x + 3 * y. *)
LEMMA SurplusOf ==
  ASSUME TableType, NEW i \in Seats, NEW x \in Int, NEW y \in Int,
         hold'[i] = hold[i] + x, lost'[i] = lost[i],
         penged'[i] + ganged'[i] = penged[i] + ganged[i] + y
  PROVE  Surplus(i)' = Surplus(i) + x + 3 * y
<1>1. hold[i] \in Int /\ penged[i] \in Int /\ ganged[i] \in Int /\ lost[i] \in Int /\ DealCnt \in Int
  BY TableAssumption DEF TableType
<1>2. 3 * (penged[i] + ganged[i] + y) = 3 * (penged[i] + ganged[i]) + 3 * y
  BY <1>1
<1> QED
  BY <1>1, <1>2 DEF Surplus, Size

LEMMA SurplusSame ==
  ASSUME NEW i, NEW S, \A j \in S \ {i} : hold'[j] = hold[j] /\ lost'[j] = lost[j]
                                        /\ penged'[j] = penged[j] /\ ganged'[j] = ganged[j]
  PROVE  \A j \in S \ {i} : Surplus(j)' = Surplus(j)
BY DEF Surplus, Size

LEMMA DoPengHands ==
  ASSUME TypeInv, TypeInv', EmptyWall, LooseHands(NoSeat), NEW i \in Seats, NEW v \in Seats,
         DoPeng(i, v)
  PROVE  HandInv'
<1>1. EmptyWall'
  BY DEF DoPeng, EmptyWall
<1>2. Surplus(i)' = Surplus(i) + 1 /\ \A j \in Seats \ {i} : Surplus(j)' = Surplus(j)
  <2>1. /\ hold'[i] = hold[i] + (-2) /\ lost'[i] = lost[i]
        /\ penged'[i] + ganged'[i] = penged[i] + ganged[i] + 1
    <3>1. hold[i] \in Int /\ penged[i] \in Int /\ ganged[i] \in Int
      BY DEF TypeInv, TableType
    <3>2. i \in DOMAIN hold /\ i \in DOMAIN penged /\ i \in DOMAIN ganged
      BY DEF TypeInv, TableType
    <3> QED
      BY <3>1, <3>2 DEF DoPeng
  <2>2. Surplus(i)' = Surplus(i) + (-2) + 3 * 1
    BY <2>1, SurplusOf DEF TypeInv
  <2>3. \A j \in Seats \ {i} : Surplus(j)' = Surplus(j)
    <3>1. \A j \in Seats \ {i} : hold'[j] = hold[j] /\ lost'[j] = lost[j]
                                 /\ penged'[j] = penged[j] /\ ganged'[j] = ganged[j]
      BY DEF DoPeng, TypeInv, TableType
    <3> QED
      BY <3>1, SurplusSame
  <2> QED
    BY <2>2, <2>3, SurplusType DEF TypeInv
<1>3. \A j \in Seats : Surplus(j) \in 0 .. phantom[j] /\ phantom[j] \in Nat /\ phantom'[j] = phantom[j]
  BY NoSeatIsNone, SurplusType DEF LooseHands, TypeInv, DoPeng
<1>4. LooseHands(i)'
  BY <1>2, <1>3 DEF LooseHands
<1> QED
  BY <1>1, <1>4, HandInvAfterAct DEF DoPeng

(* A kong lets the surplus of its seat grow by u, and a draw comes with it. *)
LEMMA LayGangHands ==
  ASSUME TypeInv, TypeInv', EmptyWall, NEW i \in Seats, NEW a \in Gangs, NEW v \in Seats,
         NEW n \in Nat, LayGang(i, a, v, n), NEW u \in {0, 1},
         u = 1 => LooseHands(NoSeat),
         u = 0 => LooseHands(i) /\ FreshHand(i),
         Surplus(i)' = Surplus(i) + u /\ \A j \in Seats \ {i} : Surplus(j)' = Surplus(j)
  PROVE  HandInv'
<1>1. /\ EmptyWall'
      /\ \A j \in Seats \ {i} : phantom'[j] = phantom[j]
      /\ phantom'[i] = phantom[i] + 1 \/ (phantom'[i] = 0 /\ phantom[i] = 0)
  BY DrawHands DEF LayGang
<1>2. \A j \in Seats : phantom[j] \in Nat /\ Surplus(j) \in Int
  BY SurplusType DEF TypeInv
<1>3. \A j \in Seats \ {i} : Surplus(j) \in 0 .. phantom[j]
  BY <1>2, NoSeatIsNone DEF LooseHands
<1>4. /\ u = 1 => Surplus(i) \in 0 .. phantom[i]
      /\ u = 0 => Surplus(i) - 1 \in 0 .. phantom[i] /\ (Surplus(i) = 1 \/ Surplus(i) <= phantom[i])
  BY <1>2, NoSeatIsNone DEF LooseHands, FreshHand
<1>5. LooseHands(i)' /\ FreshHand(i)'
  BY <1>1, <1>2, <1>3, <1>4 DEF LooseHands, FreshHand
<1>6. a \notin {"Chu", "Hu", "Peng"} /\ cur' = DoSt(a, i, v, <<>>)
  BY DEF Gangs, LayGang
<1> QED
  BY <1>1, <1>5, <1>6, HandInvAfterAct

LEMMA DoMingGangHands ==
  ASSUME TypeInv, TypeInv', EmptyWall, LooseHands(NoSeat), NEW i \in Seats, NEW v \in Seats,
         DoMingGang(i, v)
  PROVE  HandInv'
<1>1. Surplus(i)' = Surplus(i) + 1 /\ \A j \in Seats \ {i} : Surplus(j)' = Surplus(j)
  <2>1. /\ hold'[i] = hold[i] + (-2) /\ lost'[i] = lost[i]
        /\ penged'[i] + ganged'[i] = penged[i] + ganged[i] + 1
    <3>1. hold[i] \in Int /\ penged[i] \in Int /\ ganged[i] \in Int
      BY DEF TypeInv, TableType
    <3>2. i \in DOMAIN hold /\ i \in DOMAIN penged /\ i \in DOMAIN ganged
      BY DEF TypeInv, TableType
    <3> QED
      BY <3>1, <3>2 DEF DoMingGang, LayGang
  <2>2. Surplus(i)' = Surplus(i) + (-2) + 3 * 1
    BY <2>1, SurplusOf DEF TypeInv
  <2>3. \A j \in Seats \ {i} : Surplus(j)' = Surplus(j)
    <3>1. \A j \in Seats \ {i} : hold'[j] = hold[j] /\ lost'[j] = lost[j]
                                 /\ penged'[j] = penged[j] /\ ganged'[j] = ganged[j]
      BY DEF DoMingGang, LayGang, TypeInv, TableType
    <3> QED
      BY <3>1, SurplusSame
  <2> QED
    BY <2>2, <2>3, SurplusType DEF TypeInv
<1>2. LayGang(i, "MingGang", v, 3) /\ "MingGang" \in Gangs
  BY DEF DoMingGang, Gangs
<1> QED
  BY <1>1, <1>2, LayGangHands

LEMMA DoAnGangHands ==
  ASSUME TypeInv, TypeInv', EmptyWall, NEW i \in Seats, LooseHands(i), FreshHand(i), DoAnGang(i)
  PROVE  HandInv'
<1>1. Surplus(i)' = Surplus(i) + 0 /\ \A j \in Seats \ {i} : Surplus(j)' = Surplus(j)
  <2>1. /\ hold'[i] = hold[i] + (-3) /\ lost'[i] = lost[i]
        /\ penged'[i] + ganged'[i] = penged[i] + ganged[i] + 1
    <3>1. hold[i] \in Int /\ penged[i] \in Int /\ ganged[i] \in Int
      BY DEF TypeInv, TableType
    <3>2. i \in DOMAIN hold /\ i \in DOMAIN penged /\ i \in DOMAIN ganged
      BY DEF TypeInv, TableType
    <3> QED
      BY <3>1, <3>2 DEF DoAnGang, LayGang
  <2>2. Surplus(i)' = Surplus(i) + (-3) + 3 * 1
    BY <2>1, SurplusOf DEF TypeInv
  <2>3. \A j \in Seats \ {i} : Surplus(j)' = Surplus(j)
    <3>1. \A j \in Seats \ {i} : hold'[j] = hold[j] /\ lost'[j] = lost[j]
                                 /\ penged'[j] = penged[j] /\ ganged'[j] = ganged[j]
      BY DEF DoAnGang, LayGang, TypeInv, TableType
    <3> QED
      BY <3>1, SurplusSame
  <2> QED
    BY <2>2, <2>3, SurplusType DEF TypeInv
<1>2. LayGang(i, "AnGang", i, 4) /\ "AnGang" \in Gangs
  BY DEF DoAnGang, Gangs
<1> QED
  BY <1>1, <1>2, LayGangHands

LEMMA DoBuGangHands ==
  ASSUME TypeInv, TypeInv', EmptyWall, NEW i \in Seats, LooseHands(i), FreshHand(i), DoBuGang(i)
  PROVE  HandInv'
<1>1. Surplus(i)' = Surplus(i) + 0 /\ \A j \in Seats \ {i} : Surplus(j)' = Surplus(j)
  <2>1. /\ hold'[i] = hold[i] + (0) /\ lost'[i] = lost[i]
        /\ penged'[i] + ganged'[i] = penged[i] + ganged[i] + 0
    <3>1. hold[i] \in Int /\ penged[i] \in Int /\ ganged[i] \in Int
      BY DEF TypeInv, TableType
    <3>2. i \in DOMAIN hold /\ i \in DOMAIN penged /\ i \in DOMAIN ganged
      BY DEF TypeInv, TableType
    <3> QED
      BY <3>1, <3>2 DEF DoBuGang, LayGang
  <2>2. Surplus(i)' = Surplus(i) + (0) + 3 * 0
    BY <2>1, SurplusOf DEF TypeInv
  <2>3. \A j \in Seats \ {i} : Surplus(j)' = Surplus(j)
    <3>1. \A j \in Seats \ {i} : hold'[j] = hold[j] /\ lost'[j] = lost[j]
                                 /\ penged'[j] = penged[j] /\ ganged'[j] = ganged[j]
      BY DEF DoBuGang, LayGang, TypeInv, TableType
    <3> QED
      BY <3>1, SurplusSame
  <2> QED
    BY <2>2, <2>3, SurplusType DEF TypeInv
<1>2. LayGang(i, "BuGang", i, 1) /\ "BuGang" \in Gangs
  BY DEF DoBuGang, Gangs
<1> QED
  BY <1>1, <1>2, LayGangHands

LEMMA DoZiMoHands ==
  ASSUME TypeInv, TypeInv', EmptyWall, NEW i \in Seats, LooseHands(i), DoZiMo(i)
  PROVE  HandInv'
<1>1. EmptyWall'
  BY DEF DoZiMo, EmptyWall
<1>2. Surplus(i)' = Surplus(i) - 1 /\ \A j \in Seats \ {i} : Surplus(j)' = Surplus(j)
  BY TableAssumption DEF DoZiMo, Surplus, Size, TypeInv, TableType
<1>3. /\ Surplus(i) - 1 \in 0 .. phantom[i]
      /\ \A j \in Seats \ {i} : Surplus(j) \in 0 .. phantom[j]
      /\ \A j \in Seats : phantom'[j] = phantom[j] /\ Surplus(j) \in Int
  BY SurplusType DEF LooseHands, TypeInv, DoZiMo
<1>4. LooseHands(NoSeat)'
  BY <1>2, <1>3, NoSeatIsNone DEF LooseHands
<1> QED
  BY <1>1, <1>4, HandInvAfterAct DEF DoZiMo

(* A robbed kong costs its declarer the card, a robbed discard is on record. *)
LEMMA DoDianPaoHands ==
  ASSUME TypeInv, TypeInv', EmptyWall, NEW q, NEW v \in Seats, NEW d \in BOOLEAN,
         IF d THEN LooseHands(v) /\ v \in declareFlag ELSE LooseHands(NoSeat),
         DoDianPao(q, v, d)
  PROVE  HandInv'
<1>1. EmptyWall'
  BY DEF DoDianPao, EmptyWall
<1>2. /\ \A j \in Seats \ {v} : Surplus(j)' = Surplus(j)
      /\ Surplus(v)' = Surplus(v) - (IF d THEN 1 ELSE 0)
  <2>1. RobCard(v, d) /\ UNCHANGED <<penged, ganged>>
    BY DEF DoDianPao
  <2>2. CASE v \notin declareFlag
    BY <2>1, <2>2, SurplusType DEF RobCard, Surplus, Size, TypeInv
  <2>3. CASE v \in declareFlag
    <3>1. PICK has \in BOOLEAN :
            /\ d => has
            /\ hold' = [hold EXCEPT ![v] = IF has THEN @ - 1 ELSE @]
            /\ lost' = [lost EXCEPT ![v] = IF has /\ ~d THEN @ + 1 ELSE @]
      BY <2>1, <2>3 DEF RobCard
    <3> QED
      BY <2>1, <3>1, TableAssumption DEF Surplus, Size, TypeInv, TableType
  <2> QED
    BY <2>2, <2>3
<1>3. \A j \in Seats : phantom'[j] = phantom[j] /\ Surplus(j) \in Int
  BY SurplusType DEF TypeInv, DoDianPao
<1>4. LooseHands(NoSeat)'
  <2>1. CASE d
    BY <1>2, <1>3, <2>1, NoSeatIsNone DEF LooseHands
  <2>2. CASE ~d
    BY <1>2, <1>3, <2>2, NoSeatIsNone DEF LooseHands
  <2> QED
    BY <2>1, <2>2
<1> QED
  BY <1>1, <1>4, HandInvAfterAct DEF DoDianPao

(* The actions that leave the hands alone *)
LEMMA HandsKept ==
  ASSUME TypeInv, HandInv, UNCHANGED <<wall, handVars>>,
         InGame' => InGame /\ Burdened' = Burdened /\ (Drawn' => Drawn),
         cur'.st # "WaitReady",
         cur'.st = "AskForRobotGang" => (cur'.invoke \in declareFlag')
  PROVE  HandInv'
<1>1. EmptyWall'
  BY DEF HandInv, EmptyWall, handVars
<1>2. \A i \in Seats : Surplus(i)' = Surplus(i) /\ phantom'[i] = phantom[i]
  BY DEF Surplus, Size, handVars
<1>3. InGame' => LooseHands(Burdened)'
  BY <1>2 DEF HandInv, LooseHands
<1>4. InGame' /\ Drawn' => FreshHand(Burdened)'
  BY <1>2 DEF HandInv, FreshHand
<1> QED
  BY <1>1, <1>3, <1>4 DEF HandInv

LEMMA HandInvGameEnd ==
  ASSUME HandInv, NEW o, NEW s, EnterGameEnd(o, s)
  PROVE  HandInv'
BY DEF HandInv, EmptyWall, EnterGameEnd, handVars, GameEnd, InGame

(* What the room states that ask for a card say about the burden *)
LEMMA AfterEnterWaitAct ==
  ASSUME NEW i, NEW s, EnterWaitAct(i, s)
  PROVE  cur'.st = "WaitPlayerAct" /\ cur'.idx = i /\ InGame' /\ Burdened' = i
BY DEF EnterWaitAct, WaitActSt, InGame, Burdened

LEMMA InitHands == Init => HandInv
BY DEF Init, HandInv, EmptyWall, NoCards, WaitReady, InGame

LEMMA EnterHands ==
  ASSUME HandInv, NEW i \in Seats, Enter(i)
  PROVE  HandInv'
<1>1. UNCHANGED <<cur, banker, wall, hold, penged, ganged, phantom, lost, declareFlag>>
  BY DEF Enter, tableVars, handVars, flagVars
<1>2. EmptyWall' /\ (InGame' <=> InGame) /\ Burdened' = Burdened /\ (Drawn' <=> Drawn)
  BY <1>1 DEF HandInv, EmptyWall, InGame, Burdened, Drawn, Doing
<1>3. \A j \in Seats : Surplus(j)' = Surplus(j)
  BY <1>1 DEF Surplus, Size
<1> QED
  BY <1>1, <1>2, <1>3 DEF HandInv, NoCards, LooseHands, FreshHand

LEMMA LeaveHands ==
  ASSUME TypeInv, HandInv, NEW i \in Seats, Leave(i)
  PROVE  HandInv'
<1>1. cur' = cur /\ wall' = wall /\ cur.st \in {"WaitReady", "GameEnd"}
  BY DEF Leave
<1>2. \A j \in Seats : phantom'[j] = IF j = i THEN 0 ELSE phantom[j]
  BY DEF Leave, TypeInv, TableType
<1>3. EmptyWall'
  BY <1>1, <1>2 DEF HandInv, EmptyWall
<1>4. NoCards => NoCards'
  BY DEF NoCards, Leave, TypeInv, TableType
<1> QED
  BY <1>1, <1>3, <1>4 DEF HandInv, InGame

LEMMA SetReadyHands ==
  ASSUME TypeInv, TypeInv', HandInv, NEW i \in Seats, SetReady(i)
  PROVE  HandInv'
<1> DEFINE b == (banker + 1) % SeatCnt
<1>1. CASE UNCHANGED <<cur, banker, tableVars, out>>
  <2>1. UNCHANGED <<cur, wall, hold, penged, ganged, phantom, lost, declareFlag>>
    BY <1>1 DEF tableVars, handVars, flagVars
  <2>2. cur.st = "WaitReady"
    BY DEF SetReady
  <2> QED
    BY <2>1, <2>2 DEF HandInv, EmptyWall, NoCards, InGame
<1>2. CASE /\ cur' = StartGame /\ banker' = b
           /\ hold' = [j \in Seats |-> hold[j] + IF j = b THEN DealCnt + 1 ELSE DealCnt]
           /\ UNCHANGED <<penged, ganged, phantom, lost>>
  <2>1. NoCards
    BY DEF SetReady, HandInv
  <2>2. \A j \in Seats : /\ phantom'[j] = 0 /\ penged'[j] = 0 /\ ganged'[j] = 0 /\ lost'[j] = 0
                       /\ hold'[j] = IF j = b THEN DealCnt + 1 ELSE DealCnt
    BY <1>2, <2>1, TableAssumption DEF NoCards
  <2>3. \A j \in Seats : Surplus(j)' = IF j = b THEN 1 ELSE 0
    BY <2>2, TableAssumption DEF Surplus, Size
  <2>4. Burdened' = b /\ InGame' /\ cur'.st = "StartGame"
    BY <1>2 DEF Burdened, StartGame, InGame
  <2>5. LooseHands(Burdened)' /\ FreshHand(Burdened)'
    BY <2>2, <2>3, <2>4 DEF LooseHands, FreshHand
  <2> QED
    BY <2>2, <2>4, <2>5 DEF HandInv, EmptyWall
<1> QED
  BY <1>1, <1>2 DEF SetReady

LEMMA StartGameTimeUpHands == TypeInv /\ HandInv /\ StartGameTimeUp => HandInv'
<1> SUFFICES ASSUME TypeInv, HandInv, StartGameTimeUp PROVE HandInv'
  OBVIOUS
<1>1. InGame /\ Drawn /\ Burdened = banker
  BY DEF StartGameTimeUp, InGame, Drawn, Doing, Burdened
<1>2. cur'.st = "WaitDecideQue" /\ Burdened' = banker /\ UNCHANGED <<wall, handVars>>
  BY DEF StartGameTimeUp, DecideQueSt, Burdened, tableVars
<1> QED
  BY <1>1, <1>2, HandsKept

(* The answers to the question for a suit, and its time-up *)
LEMMA DecideQueHands ==
  ASSUME TypeInv, HandInv, cur.st = "WaitDecideQue", UNCHANGED <<banker, tableVars>>,
         NEW s, NEW w, NEW d, EnterWaitAct(banker, s) \/ cur' = DecideQueSt(w, d)
  PROVE  HandInv'
<1>1. InGame /\ Drawn /\ Burdened = banker
  BY DEF InGame, Drawn, Doing, Burdened
<1>2. CASE EnterWaitAct(banker, s)
  BY <1>1, <1>2, AfterEnterWaitAct, HandsKept DEF tableVars
<1>3. CASE cur' = DecideQueSt(w, d)
  <2>1. cur'.st = "WaitDecideQue" /\ Burdened' = banker
    BY <1>3 DEF DecideQueSt, Burdened
  <2> QED
    BY <1>1, <2>1, HandsKept DEF tableVars
<1> QED
  BY <1>2, <1>3

(* In its turn a seat is burdened. *)
LEMMA TurnHands ==
  ASSUME TypeInv, HandInv, NEW i \in Seats, MyTurn(i)
  PROVE  /\ EmptyWall /\ LooseHands(i)
         /\ cur.st = "WaitPlayerAct" => FreshHand(i)
BY DEF HandInv, MyTurn, InGame, Drawn, Doing, Burdened

LEMMA TurnMessagesHands ==
  ASSUME TypeInv, TypeInv', HandInv, NEW i \in Seats,
         Discard(i) \/ SelfHu(i) \/ ConcealedGang(i)
  PROVE  HandInv'
<1>1. CASE Discard(i)
  BY <1>1, TurnHands, DoChuHands DEF Discard
<1>2. CASE SelfHu(i)
  BY <1>2, TurnHands, DoZiMoHands DEF SelfHu
<1>3. CASE ConcealedGang(i)
  BY <1>3, TurnHands, DoAnGangHands DEF ConcealedGang
<1> QED
  BY <1>1, <1>2, <1>3

LEMMA AddedGangHands ==
  ASSUME TypeInv, TypeInv', HandInv, NEW i \in Seats, NEW act \in {"BuGang", "BuGang_Declare"},
         AddedGang(i, act)
  PROVE  HandInv'
<1>1. PICK robbers \in SUBSET Winners(i) :
        IF robbers = {} /\ act = "BuGang"
        THEN DoBuGang(i) /\ UNCHANGED <<banker, status>>
        ELSE /\ cur' = IF robbers = {} THEN DoSt(act, i, i, <<>>) ELSE RobotSt(i, robbers)
             /\ declareFlag' = declareFlag \cup {i}
             /\ UNCHANGED <<banker, status, out, wall, handVars, gangFlag, afterGang>>
  BY DEF AddedGang
<1>2. CASE DoBuGang(i)
  BY <1>2, TurnHands, DoBuGangHands DEF AddedGang
<1>3. CASE /\ cur' = DoSt(act, i, i, <<>>) \/ cur' = RobotSt(i, robbers)
           /\ declareFlag' = declareFlag \cup {i}
           /\ UNCHANGED <<wall, handVars>>
  <2>1. InGame /\ Drawn /\ Burdened = i
    BY DEF AddedGang, MyTurn, InGame, Drawn, Doing, Burdened
  <2>2. /\ cur'.st # "WaitReady" /\ Burdened' = i
        /\ cur'.st = "AskForRobotGang" => cur'.invoke = i
    BY <1>3 DEF DoSt, RobotSt, Burdened
  <2> QED
    BY <1>3, <2>1, <2>2, HandsKept
<1> QED
  BY <1>1, <1>2, <1>3

LEMMA TurnTimeUpHands ==
  ASSUME TypeInv, TypeInv', HandInv, TurnTimeUp \/ WinnerTimeUp \/ ChuTimeUp
  PROVE  HandInv'
<1>1. cur.idx \in Seats /\ MyTurn(cur.idx)
  BY StateOf DEF TypeInv, CurOK, TurnTimeUp, WinnerTimeUp, ChuTimeUp, MyTurn, WaitActStates, WaitChuStates
<1>2. CASE WinnerTimeUp
  BY <1>1, <1>2, TurnMessagesHands, AddedGangHands DEF WinnerTimeUp
<1>3. CASE ChuTimeUp
  BY <1>1, <1>3, TurnHands, DoChuHands DEF ChuTimeUp
<1>4. CASE TurnTimeUp
  <2>1. CASE cur' = [cur EXCEPT !.canPass = FALSE, !.late = FALSE] /\ UNCHANGED tableVars
    <3>1. cur \in WaitActStates
      BY <1>4, StateOf DEF TypeInv, CurOK, TurnTimeUp
    <3>2. cur'.st = "WaitPlayerAct" /\ cur'.idx = cur.idx
      BY <2>1, <3>1 DEF WaitActStates
    <3>3. InGame /\ Drawn /\ Burdened = cur.idx /\ Burdened' = cur.idx
      BY <1>4, <3>2 DEF TurnTimeUp, InGame, Drawn, Doing, Burdened
    <3> QED
      BY <2>1, <3>2, <3>3, HandsKept DEF tableVars
  <2>2. CASE \E real \in BOOLEAN : (phantom[cur.idx] = 0 => real) /\ DoChu(cur.idx, real)
    BY <1>1, <1>4, <2>2, TurnHands, DoChuHands DEF TurnTimeUp
  <2> QED
    BY <1>4, <2>1, <2>2 DEF TurnTimeUp
<1> QED
  BY <1>2, <1>3, <1>4

(* While a discard is asked about nobody is burdened. *)
LEMMA AskHands ==
  ASSUME TypeInv, HandInv, cur.st = "AskForHuAndPeng" \/ Doing({"Chu", "Hu"})
  PROVE  EmptyWall /\ LooseHands(NoSeat)
BY DEF HandInv, InGame, Burdened, Doing

LEMMA ClaimActHands ==
  ASSUME TypeInv, TypeInv', HandInv, cur.st = "AskForHuAndPeng",
         NEW c \in AskStates, CurOK(c), ClaimAct(c)
  PROVE  HandInv'
<1>1. EmptyWall /\ LooseHands(NoSeat)
  BY AskHands
<1>2. c.invoke \in Seats /\ (c.doPeng # "None" => c.peng \in Seats)
  BY DEF AskStates, CurOK
<1>3. CASE DoDianPao(c.doHu, c.invoke, FALSE)
  BY <1>1, <1>2, <1>3, DoDianPaoHands
<1>4. CASE c.doPeng = "Peng" /\ DoPeng(c.peng, c.invoke)
  BY <1>1, <1>2, <1>4, DoPengHands
<1>5. CASE c.doPeng = "MingGang" /\ DoMingGang(c.peng, c.invoke)
  BY <1>1, <1>2, <1>5, DoMingGangHands
<1> QED
  BY <1>3, <1>4, <1>5 DEF ClaimAct

LEMMA AskOverHands ==
  ASSUME TypeInv, TypeInv', HandInv, cur.st = "AskForHuAndPeng",
         NEW c \in AskStates, CurOK(c), AskOver(c)
  PROVE  HandInv'
<1>1. CASE EnterGameEnd(out, status)
  BY <1>1, HandInvGameEnd
<1>2. CASE ClaimAct(c)
  BY <1>2, ClaimActHands
<1>3. CASE DoMo(NextIn(c.invoke, Active(status)))
  <2>1. NextIn(c.invoke, Active(status)) \in Seats
    BY NextInType DEF AskStates
  <2> QED
    BY <1>3, <2>1, AskHands, DoMoHands
<1> QED
  BY <1>1, <1>2, <1>3 DEF AskOver

LEMMA AnsweredHands ==
  ASSUME TypeInv, TypeInv', HandInv, cur.st = "AskForHuAndPeng",
         NEW c0 \in AskStates, CurOK(c0), NEW i \in Seats, Answered(c0, i)
  PROVE  HandInv'
<1> DEFINE c == [c0 EXCEPT !.waitHu = @ \ {i}, !.waitPeng = @ \ {i}]
<1>1. c \in AskStates /\ c.doPeng = c0.doPeng /\ c.peng = c0.peng /\ c.st = "AskForHuAndPeng"
  BY DEF AskStates
<1>2. CurOK(c)
  BY <1>1 DEF CurOK, RoomStates, AskStates
<1> HIDE DEF c
<1>3. CASE cur' = c /\ UNCHANGED tableVars
  <2>1. InGame /\ Drawn /\ Burdened = NoSeat /\ Burdened' = NoSeat
    BY <1>1, <1>3 DEF InGame, Drawn, Doing, Burdened
  <2> QED
    BY <1>1, <1>3, <2>1, HandsKept DEF tableVars
<1>4. CASE ClaimAct(c)
  BY <1>1, <1>2, <1>4, ClaimActHands
<1>5. CASE AskOver(c)
  BY <1>1, <1>2, <1>5, AskOverHands
<1> USE DEF c
<1> QED
  BY <1>3, <1>4, <1>5 DEF Answered

LEMMA AskMessagesHands ==
  ASSUME TypeInv, TypeInv', HandInv, NEW i \in Seats,
         ClaimHu(i) \/ ClaimPeng(i, "Peng") \/ ClaimPeng(i, "MingGang") \/ ClaimPass(i)
  PROVE  HandInv'
<1>1. cur \in AskStates /\ CurOK(cur) /\ cur.st = "AskForHuAndPeng"
  BY AskStateOf DEF ClaimHu, ClaimPeng, ClaimPass, Asked
<1>2. CASE ClaimHu(i)
  <2> DEFINE q  == Append(cur.doHu, i)
             c0 == [cur EXCEPT !.doHu = q]
  <2>1. q \in Seq(Seats)
    BY <1>1 DEF AskStates
  <2> HIDE DEF q
  <2>2. c0 \in AskStates /\ c0.doPeng = cur.doPeng /\ c0.peng = cur.peng
    BY <1>1, <2>1 DEF AskStates
  <2>3. CurOK(c0)
    BY <1>1, <2>2 DEF CurOK, RoomStates, AskStates
  <2>4. Answered(c0, i)
    BY <1>2 DEF ClaimHu, q
  <2> HIDE DEF c0
  <2> QED
    BY <1>1, <2>2, <2>3, <2>4, AnsweredHands
<1>3. ASSUME NEW act \in {"Peng", "MingGang"}, ClaimPeng(i, act) PROVE HandInv'
  <2> DEFINE c0 == [cur EXCEPT !.doPeng = act]
  <2>1. c0 \in AskStates /\ c0.peng \in Seats
    BY <1>1, <1>3 DEF AskStates, ClaimPeng
  <2>2. CurOK(c0)
    BY <2>1 DEF CurOK, RoomStates, AskStates
  <2>3. Answered(c0, i)
    BY <1>3 DEF ClaimPeng
  <2> HIDE DEF c0
  <2> QED
    BY <1>1, <2>1, <2>2, <2>3, AnsweredHands
<1>4. CASE ClaimPass(i)
  BY <1>1, <1>4, AnsweredHands DEF ClaimPass
<1> QED
  BY <1>2, <1>3, <1>4

LEMMA AskTimeUpHands == TypeInv /\ TypeInv' /\ HandInv /\ AskTimeUp => HandInv'
BY AskStateOf, AskOverHands DEF AskTimeUp

(* While a declared kong is asked about its declarer is burdened. *)
LEMMA RobotHands ==
  ASSUME TypeInv, HandInv, cur.st = "AskForRobotGang"
  PROVE  /\ EmptyWall /\ LooseHands(cur.invoke) /\ FreshHand(cur.invoke)
         /\ cur.invoke \in declareFlag /\ cur.invoke \in Seats
         /\ InGame /\ Drawn /\ Burdened = cur.invoke
<1>1. InGame /\ Drawn /\ Burdened = cur.invoke
  BY DEF InGame, Drawn, Doing, Burdened
<1> QED
  BY <1>1, RobotStateOf DEF HandInv, RobotStates

LEMMA RobotAnsweredHands ==
  ASSUME TypeInv, TypeInv', HandInv, NEW i \in Seats, Robbed(i), NEW q, RobotAnswered(q, i)
  PROVE  HandInv'
<1>1. cur.st = "AskForRobotGang" /\ cur \in RobotStates
  BY RobotStateOf DEF Robbed
<1>2. CASE cur' = [cur EXCEPT !.wait = @ \ {i}, !.doHu = q] /\ UNCHANGED tableVars
  <2>1. cur'.st = "AskForRobotGang" /\ cur'.invoke = cur.invoke
    BY <1>1, <1>2 DEF RobotStates
  <2>2. Burdened' = cur.invoke
    BY <2>1 DEF Burdened
  <2>3. cur'.invoke \in declareFlag'
    BY <1>1, <1>2, <2>1, RobotHands DEF tableVars, flagVars
  <2> QED
    BY <1>1, <1>2, <2>1, <2>2, <2>3, RobotHands, HandsKept DEF tableVars
<1>3. CASE DoBuGang(cur.invoke)
  BY <1>1, <1>3, RobotHands, DoBuGangHands
<1>4. CASE DoDianPao(q, cur.invoke, TRUE)
  BY <1>1, <1>4, RobotHands, DoDianPaoHands
<1> QED
  BY <1>2, <1>3, <1>4 DEF RobotAnswered

LEMMA RobotTimeUpHands == TypeInv /\ TypeInv' /\ HandInv /\ RobotTimeUp => HandInv'
BY RobotHands, DoBuGangHands DEF RobotTimeUp

(* The end of an act: the burdened seat goes on, unless it has discarded or won *)
LEMMA MeldDoneHands ==
  ASSUME TypeInv, HandInv, MoDone \/ PengDone \/ GangDone
  PROVE  HandInv'
<1>1. cur.act \in Gangs \cup {"Mo", "Peng", "BuGang_Declare"} /\ cur.st = "DoPlayerAct"
  BY DEF MoDone, PengDone, GangDone, Doing
<1>2. InGame /\ Burdened = cur.idx /\ (Drawn <=> cur.act # "Peng")
  BY <1>1 DEF InGame, Burdened, Drawn, Doing, Gangs
<1>3. UNCHANGED <<wall, handVars>>
  BY DEF MoDone, PengDone, GangDone, tableVars
<1>4. CASE EnterWaitAct(cur.idx, status) /\ cur.act # "Peng"
  BY <1>2, <1>3, <1>4, AfterEnterWaitAct, HandsKept
<1>5. CASE cur' = WaitChuSt(cur.idx)
  <2>1. cur'.st = "WaitPlayerChu" /\ Burdened' = cur.idx /\ ~Drawn'
    BY <1>5 DEF WaitChuSt, Burdened, Drawn
  <2> QED
    BY <1>2, <1>3, <2>1, HandsKept
<1>6. CASE /\ cur.act # "Peng"
           /\ \E w, t \in {Penniless(out, status), "WaitPlayerChu", "WaitPlayerAct"} :
                t # "DoPlayerAct" /\ cur' = SupplySt(w, t, cur.idx)
  <2>1. PICK w, t \in {Penniless(out, status), "WaitPlayerChu", "WaitPlayerAct"} :
          t # "DoPlayerAct" /\ cur' = SupplySt(w, t, cur.idx)
    BY <1>6
  <2>2. cur'.st = "WaitSupplyCoin" /\ Burdened' = cur.idx
    BY <2>1 DEF SupplySt, Burdened
  <2> QED
    BY <1>2, <1>3, <1>6, <2>2, HandsKept
<1>7. GangDone => \/ EnterWaitAct(cur.idx, status)
                  \/ cur' = SupplySt(Penniless(out, status), "WaitPlayerChu", cur.idx)
                  \/ cur' = SupplySt(Penniless(out, status), "WaitPlayerAct", cur.idx)
  BY DEF GangDone
<1> QED
  BY <1>4, <1>5, <1>6, <1>7 DEF MoDone, PengDone, GangDone, Doing, Gangs

LEMMA HuDoneHands == TypeInv /\ TypeInv' /\ HandInv /\ HuDone => HandInv'
<1> SUFFICES ASSUME TypeInv, TypeInv', HandInv, HuDone PROVE HandInv'
  OBVIOUS
<1>1. CASE EnterGameEnd(out, status)
  BY <1>1, HandInvGameEnd
<1>2. CASE ~EnterGameEnd(out, status)
  <2>1. PICK next \in Seats, w \in SUBSET Seats :
          \/ DoMo(next)
          \/ cur' = SupplySt(w, "DoPlayerAct", next) /\ UNCHANGED tableVars
    BY <1>2, HuDoneNext
  <2>2. CASE DoMo(next)
    BY <2>2, AskHands, DoMoHands DEF HuDone, Doing
  <2>3. CASE cur' = SupplySt(w, "DoPlayerAct", next) /\ UNCHANGED tableVars
    <3>1. InGame /\ Drawn /\ Burdened = NoSeat
      BY DEF HuDone, Doing, InGame, Drawn, Burdened
    <3>2. cur'.st = "WaitSupplyCoin" /\ Burdened' = NoSeat
      BY <2>3 DEF SupplySt, Burdened
    <3> QED
      BY <2>3, <3>1, <3>2, HandsKept DEF tableVars
  <2> QED
    BY <2>1, <2>2, <2>3
<1> QED
  BY <1>1, <1>2

LEMMA ChuDoneHands == TypeInv /\ TypeInv' /\ HandInv /\ ChuDone => HandInv'
<1> SUFFICES ASSUME TypeInv, TypeInv', HandInv, ChuDone PROVE HandInv'
  OBVIOUS
<1>1. PICK v, wh, wp, p, g :
        \/ cur' = AskSt(v, wh, wp, p, g) /\ UNCHANGED tableVars
        \/ EnterGameEnd(out, status)
        \/ DoMo(NextIn(cur.idx, Active(status)))
  BY DEF ChuDone
<1>2. CASE cur' = AskSt(v, wh, wp, p, g) /\ UNCHANGED tableVars
  <2>1. InGame /\ Drawn /\ Burdened = NoSeat
    BY DEF ChuDone, Doing, InGame, Drawn, Burdened
  <2>2. cur'.st = "AskForHuAndPeng" /\ Burdened' = NoSeat
    BY <1>2 DEF AskSt, Burdened
  <2> QED
    BY <1>2, <2>1, <2>2, HandsKept DEF tableVars
<1>3. CASE EnterGameEnd(out, status)
  BY <1>3, HandInvGameEnd
<1>4. CASE DoMo(NextIn(cur.idx, Active(status)))
  <2>1. NextIn(cur.idx, Active(status)) \in Seats
    BY DoStateOf, NextInType DEF ChuDone, Doing
  <2> QED
    BY <1>4, <2>1, AskHands, DoMoHands DEF ChuDone, Doing
<1> QED
  BY <1>1, <1>2, <1>3, <1>4

(* The wait for coins keeps the burden for its target. *)
LEMMA SupplyHands ==
  ASSUME TypeInv, TypeInv', HandInv, cur.st = "WaitSupplyCoin", NEW w, NEW s, NEW o,
         SupplyOver(s, o) \/ (cur' = [cur EXCEPT !.wait = w] /\ UNCHANGED tableVars)
  PROVE  HandInv'
<1>1. cur \in SupplyStates /\ cur.idx \in Seats
  BY SupplyStateOf
<1>2. /\ InGame /\ EmptyWall
      /\ Burdened = IF cur.target = "DoPlayerAct" THEN NoSeat ELSE cur.idx
      /\ Drawn <=> cur.target # "WaitPlayerChu"
  BY DEF HandInv, InGame, Burdened, Drawn, Doing
<1>3. CASE cur' = [cur EXCEPT !.wait = w] /\ UNCHANGED tableVars
  <2>1. cur'.st = "WaitSupplyCoin" /\ cur'.target = cur.target /\ cur'.idx = cur.idx
    BY <1>1, <1>3 DEF SupplyStates
  <2>2. Burdened' = Burdened /\ (Drawn' <=> Drawn)
    BY <1>2, <2>1 DEF Burdened, Drawn, Doing
  <2> QED
    BY <1>2, <1>3, <2>1, <2>2, HandsKept DEF tableVars
<1>4. CASE EnterGameEnd(o, s)
  BY <1>4, HandInvGameEnd
<1>5. CASE /\ cur.target = "DoPlayerAct"
           /\ DoMo(IF s[cur.idx] = "DecideLose" THEN NextIn(cur.idx, Active(s)) ELSE cur.idx)
  <2> DEFINE next == IF s[cur.idx] = "DecideLose" THEN NextIn(cur.idx, Active(s)) ELSE cur.idx
  <2>1. next \in Seats
    BY <1>1, NextInType
  <2>2. LooseHands(NoSeat)
    BY <1>2, <1>5 DEF HandInv
  <2> HIDE DEF next
  <2>3. DoMo(next)
    BY <1>5 DEF next
  <2> QED
    BY <1>2, <2>1, <2>2, <2>3, DoMoHands
<1>6. CASE cur.target = "WaitPlayerAct" /\ EnterWaitAct(cur.idx, s) /\ UNCHANGED tableVars
  BY <1>2, <1>6, AfterEnterWaitAct, HandsKept DEF tableVars
<1>7. CASE cur.target = "WaitPlayerChu" /\ cur' = WaitChuSt(cur.idx) /\ UNCHANGED tableVars
  <2>1. cur'.st = "WaitPlayerChu" /\ Burdened' = cur.idx /\ ~Drawn'
    BY <1>7 DEF WaitChuSt, Burdened, Drawn
  <2> QED
    BY <1>2, <1>7, <2>1, HandsKept DEF tableVars
<1> QED
  BY <1>3, <1>4, <1>5, <1>6, <1>7 DEF SupplyOver

LEMMA SupplyStepsHands ==
  ASSUME TypeInv, TypeInv', HandInv,
         SupplyTimeUp \/ \E i \in Seats : AddCoin(i) \/ DecideLose(i)
  PROVE  HandInv'
<1>1. CASE SupplyTimeUp
  BY <1>1, SupplyHands DEF SupplyTimeUp
<1>2. ASSUME NEW i \in Seats, AddCoin(i) PROVE HandInv'
  <2>1. CASE i \in cur.wait
    BY <1>2, <2>1, SupplyHands DEF AddCoin, SupplyLeft
  <2>2. CASE UNCHANGED <<cur, tableVars>>
    <3>1. cur.st = "WaitSupplyCoin" /\ cur' = cur
      BY <1>2, <2>2 DEF AddCoin
    <3>2. InGame /\ Burdened' = Burdened /\ (Drawn' => Drawn)
      BY <3>1 DEF InGame, Burdened, Drawn, Doing
    <3> QED
      BY <2>2, <3>1, <3>2, HandsKept DEF tableVars
  <2> QED
    BY <1>2, <2>1, <2>2 DEF AddCoin
<1>3. ASSUME NEW i \in Seats, DecideLose(i) PROVE HandInv'
  BY <1>3, SupplyHands DEF DecideLose, SupplyLeft
<1> QED
  BY <1>1, <1>2, <1>3

LEMMA ClockHands ==
  ASSUME TypeInv, TypeInv', HandInv, Clock
  PROVE  HandInv'
<1>1. /\ cur'.st = cur.st /\ cur'.idx = cur.idx
      /\ cur.st = "WaitSupplyCoin" => cur'.target = cur.target
  BY ClockState
<1>2. cur.st \in {"WaitPlayerAct", "WaitSupplyCoin"} /\ UNCHANGED tableVars
  BY DEF Clock
<1>3. InGame /\ Burdened' = Burdened /\ (Drawn' <=> Drawn)
  BY <1>1, <1>2 DEF InGame, Burdened, Drawn, Doing
<1> QED
  BY <1>1, <1>2, <1>3, HandsKept DEF tableVars

LEMMA GameEndTimeUpHands == GameEndTimeUp => HandInv'
BY DEF GameEndTimeUp, HandInv, EmptyWall, NoCards, WaitReady, InGame

LEMMA HandInvStep == TypeInv /\ TypeInv' /\ HandInv /\ [Next]_vars => HandInv'
<1> SUFFICES ASSUME TypeInv, TypeInv', HandInv, [Next]_vars PROVE HandInv'
  OBVIOUS
<1>1. CASE TimeUp
  <2>1. QueTimeUp => HandInv'
    BY DecideQueHands DEF QueTimeUp, QueOver
  <2> QED
    BY <1>1, <2>1, StartGameTimeUpHands, ClockSteps, ClockHands, TurnTimeUpHands, AskTimeUpHands, RobotTimeUpHands,
       MeldDoneHands, HuDoneHands, ChuDoneHands, SupplyStepsHands, GameEndTimeUpHands DEF TimeUp
<1>2. ASSUME NEW i \in Seats, Message(i) PROVE HandInv'
  <2>1. DecideQue(i) => HandInv'
    BY DecideQueHands DEF DecideQue, QueOver
  <2>2. RobotHu(i) \/ RobotPass(i) => HandInv'
    BY RobotAnsweredHands DEF RobotHu, RobotPass
  <2> QED
    BY <1>2, <2>1, <2>2, EnterHands, LeaveHands, SetReadyHands, TurnMessagesHands, AddedGangHands,
       AskMessagesHands, SupplyStepsHands, ClockSteps, ClockHands DEF Message
<1>3. CASE UNCHANGED vars
  BY <1>3 DEF vars, HandInv, EmptyWall, NoCards, InGame, LooseHands, FreshHand, Burdened, Drawn,
     Doing, Surplus, Size
<1> QED
  BY <1>1, <1>2, <1>3 DEF Next

(* For every number of seats and cards no hand ever has a card too many or too  *)
(* few, whoever drew, ponged, konged, won or was robbed.                        *)
THEOREM HandSizesCorrect == Spec => []HandSizes
<1>1. Init => TypeInv /\ HandInv
  BY InitType, InitHands
<1>2. (TypeInv /\ HandInv) /\ [Next]_vars => (TypeInv /\ HandInv)'
  BY TypeInvStep, HandInvStep
<1>3. TypeInv /\ HandInv => HandSizes
  BY HandInvImpliesSizes
<1> QED
  BY <1>1, <1>2, <1>3, PTL DEF Spec

-----------------------------------------------------------------------------
(* The turn order keeps to the players who are in the game *)

(* Every seat comes by within one round. *)
LEMMA WithinARound ==
  ASSUME NEW i \in Seats, NEW j \in Seats
  PROVE  \E k \in i + 1 .. 2 * SeatCnt - 1 : k % SeatCnt = j
<1>1. SeatCnt \in Nat /\ SeatCnt >= 2 /\ i \in 0 .. SeatCnt - 1 /\ j \in 0 .. SeatCnt - 1
  BY TableAssumption DEF Seats
<1>2. CASE j > i
  <2>1. j \in i + 1 .. 2 * SeatCnt - 1 /\ j % SeatCnt = j
    BY <1>1, <1>2
  <2> QED
    BY <2>1
<1>3. CASE j <= i
  <2>1. j + SeatCnt \in i + 1 .. 2 * SeatCnt - 1
    BY <1>1, <1>3
  <2>2. (j + SeatCnt) % SeatCnt = j
    BY <1>1
  <2> QED
    BY <2>1, <2>2
<1> QED
  BY <1>1, <1>2, <1>3

(* getNextActPlayerIdx names one of those it looks for, if there is any. *)
LEMMA NextInMember ==
  ASSUME NEW i \in Seats, NEW S, S \subseteq Seats, S # {}
  PROVE  NextIn(i, S) \in S
<1> DEFINE ks == {k \in i + 1 .. 2 * SeatCnt - 1 : k % SeatCnt \in S}
           least == CHOOSE k \in ks : \A m \in ks : k <= m
<1>1. ks # {}
  <2>1. PICK j : j \in S
    OBVIOUS
  <2>2. PICK k \in i + 1 .. 2 * SeatCnt - 1 : k % SeatCnt = j
    BY <2>1, WithinARound
  <2> QED
    BY <2>1, <2>2
<1>2. ks \subseteq Nat
  BY TableAssumption DEF Seats
<1>3. \A k \in ks : k % SeatCnt \in S
  OBVIOUS
<1> HIDE DEF ks
<1>4. \E k \in ks : \A m \in ks : k <= m
  BY <1>1, <1>2, LeastElement
<1>5. least \in ks
  BY <1>4
<1>6. NextIn(i, S) = least % SeatCnt
  BY <1>1 DEF NextIn, ks
<1> QED
  BY <1>3, <1>5, <1>6

-----------------------------------------------------------------------------
(* The invariant *)

TwoLeft(s)    == \E i, j \in Active(s) : i # j
Playing(s, o) == TwoLeft(s) /\ Penniless(o, s) = {}

(* What each room state says of the players.  A kong leaves its maker with the  *)
(* coins he was paid, so he is not among those the table then waits for, and    *)
(* the turn that comes after the wait is still his to take.                     *)
TurnOK ==
  cur.st \in {"WaitPlayerAct", "WaitPlayerChu"} =>
    Playing(status, out) /\ cur.idx \in Active(status)
ClaimOK ==
  cur.st = "AskForHuAndPeng" =>
    /\ Playing(status, out)
    /\ cur.waitHu \subseteq Active(status) /\ cur.waitPeng \subseteq Active(status)
    /\ cur.invoke \notin cur.waitHu \cup cur.waitPeng
    /\ cur.doPeng # "None" => cur.peng \in Active(status) /\ cur.peng # cur.invoke
RobOK ==
  cur.st = "AskForRobotGang" =>
    Playing(status, out) /\ cur.wait \subseteq Active(status) /\ cur.invoke \in Active(status)
ActOK ==
  cur.st = "DoPlayerAct" /\ cur.act # "Hu" =>
    /\ TwoLeft(status) /\ cur.idx \in Active(status)
    /\ IF cur.act \in Gangs THEN cur.idx \notin out ELSE Penniless(out, status) = {}
WaitOK ==
  cur.st = "WaitSupplyCoin" =>
    /\ cur.wait = Penniless(out, status) /\ cur.wait # {}
    /\ IF cur.target = "DoPlayerAct"
       THEN cur.idx \in Active(status) \/ status[cur.idx] = "DecideLose"
       ELSE cur.idx \in Active(status) /\ cur.idx \notin out
StartOK ==
  /\ cur.st \in {"WaitReady", "StartGame", "WaitDecideQue"} => out = {}
  /\ cur.st \in {"StartGame", "WaitDecideQue"} => \A i \in Seats : status[i] = "CanAct"
  /\ cur.st \notin {"WaitReady", "GameEnd"} => \A i \in Seats : status[i] # "Empty"

PublicInv == StartOK /\ TurnOK /\ ClaimOK /\ RobOK /\ ActOK /\ WaitOK

(* The four properties follow. *)
LEMMA PublicInvImplies ==
  TypeInv /\ PublicInv =>
    OnlyActiveAsked /\ NobodyPlaysBroke /\ SupplyWaitsForBroke /\ EnoughPlayers
<1> SUFFICES ASSUME TypeInv, PublicInv
             PROVE  OnlyActiveAsked /\ NobodyPlaysBroke /\ SupplyWaitsForBroke /\ EnoughPlayers
  OBVIOUS
<1>1. AskedSeats # {} => Playing(status, out)
  BY DEF AskedSeats, PublicInv, TurnOK, ClaimOK, RobOK
<1>2. AskedSeats \subseteq Active(status)
  BY DEF AskedSeats, PublicInv, TurnOK, ClaimOK, RobOK
<1>3. SupplyWaitsForBroke
  BY DEF SupplyWaitsForBroke, PublicInv, WaitOK
<1> QED
  BY <1>1, <1>2, <1>3
     DEF OnlyActiveAsked, NobodyPlaysBroke, EnoughPlayers, Playing, TwoLeft

-----------------------------------------------------------------------------
(* Entering a room state *)

LEMMA ActiveIn ==
  \A s, i : i \in Active(s) <=>
     i \in Seats /\ s[i] # "DecideLose" /\ (BloodEnd => s[i] # "AlreadyHu")
BY DEF Active

LEMMA TwoSeats ==
  ASSUME NEW s, \A i \in Seats : s[i] = "CanAct"
  PROVE  TwoLeft(s) /\ Active(s) = Seats
<1>1. 0 \in Seats /\ 1 \in Seats
  BY TableAssumption DEF Seats
<1> QED
  BY <1>1 DEF TwoLeft, Active

Seated == \A i \in Seats : status[i] # "Empty"

LEMMA ToGameEnd ==
  ASSUME NEW o, NEW s, EnterGameEnd(o, s)
  PROVE  PublicInv'
BY DEF EnterGameEnd, GameEnd, PublicInv, StartOK, TurnOK, ClaimOK, RobOK, ActOK, WaitOK

LEMMA ToWaitAct ==
  ASSUME NEW i, NEW s, EnterWaitAct(i, s), Seated', Playing(status, out)', i \in Active(status')
  PROVE  PublicInv'
<1>1. PICK a \in Able(i), p \in BOOLEAN : cur' = WaitActSt(i, a, p)
  BY DEF EnterWaitAct
<1> QED
  BY <1>1 DEF WaitActSt, Seated, PublicInv, StartOK, TurnOK, ClaimOK, RobOK, ActOK, WaitOK

LEMMA ToWaitChu ==
  ASSUME NEW i, cur' = WaitChuSt(i), Seated', Playing(status, out)', i \in Active(status')
  PROVE  PublicInv'
BY DEF WaitChuSt, Seated, PublicInv, StartOK, TurnOK, ClaimOK, RobOK, ActOK, WaitOK

LEMMA ToAct ==
  ASSUME NEW a, NEW i, NEW v, NEW h, cur' = DoSt(a, i, v, h), a # "Hu", a \notin Gangs,
         Seated', Playing(status, out)', i \in Active(status')
  PROVE  PublicInv'
BY DEF DoSt, Seated, Playing, PublicInv, StartOK, TurnOK, ClaimOK, RobOK, ActOK, WaitOK

LEMMA ToGang ==
  ASSUME NEW a \in Gangs, NEW i, NEW v, NEW h, cur' = DoSt(a, i, v, h),
         Seated', TwoLeft(status'), i \in Active(status'), i \notin out'
  PROVE  PublicInv'
BY DEF DoSt, Gangs, Seated, PublicInv, StartOK, TurnOK, ClaimOK, RobOK, ActOK, WaitOK

LEMMA ToHu ==
  ASSUME NEW i, NEW v, NEW h, cur' = DoSt("Hu", i, v, h), Seated'
  PROVE  PublicInv'
BY DEF DoSt, Gangs, Seated, PublicInv, StartOK, TurnOK, ClaimOK, RobOK, ActOK, WaitOK

LEMMA ToSupply ==
  ASSUME NEW w, NEW t, NEW i, cur' = SupplySt(w, t, i), Seated',
         w = Penniless(out, status)', w # {},
         IF t = "DoPlayerAct" THEN i \in Active(status') \/ status'[i] = "DecideLose"
                              ELSE i \in Active(status') /\ i \notin out'
  PROVE  PublicInv'
BY DEF SupplySt, Seated, PublicInv, StartOK, TurnOK, ClaimOK, RobOK, ActOK, WaitOK

-----------------------------------------------------------------------------
(* The acts of a player who is in the game *)

LEMMA MoKeeps ==
  ASSUME NEW i \in Active(status), Seated, Playing(status, out), DoMo(i), UNCHANGED <<status, out>>
  PROVE  PublicInv'
<1>1. cur' = DoSt("Mo", i, i, <<>>)
  BY DEF DoMo
<1> QED
  BY <1>1, ToAct DEF Gangs, Seated

LEMMA ChuKeeps ==
  ASSUME NEW i \in Active(status), NEW d, Seated, Playing(status, out), DoChu(i, d),
         UNCHANGED <<status, out>>
  PROVE  PublicInv'
<1>1. cur' = DoSt("Chu", i, i, <<>>)
  BY DEF DoChu
<1> QED
  BY <1>1, ToAct DEF Gangs, Seated

LEMMA PengKeeps ==
  ASSUME NEW i \in Active(status), NEW v, Seated, Playing(status, out), DoPeng(i, v),
         UNCHANGED <<status, out>>
  PROVE  PublicInv'
<1>1. cur' = DoSt("Peng", i, v, <<>>)
  BY DEF DoPeng
<1> QED
  BY <1>1, ToAct DEF Gangs, Seated

(* Who is in the game has a coin, and who is paid still has. *)
LEMMA ActiveHasCoin ==
  ASSUME NEW i \in Active(status), Penniless(out, status) = {}
  PROVE  i \notin out
BY ActiveIn DEF Penniless

LEMMA PaidKeepsCoin ==
  ASSUME NEW i, NEW payers, i \notin payers, i \notin out, Pay(payers, i)
  PROVE  i \notin out'
BY DEF Pay

LEMMA GangKeeps ==
  ASSUME NEW a \in Gangs, NEW i \in Active(status), NEW v, NEW n, NEW payers, i \notin payers,
         Seated, Playing(status, out), LayGang(i, a, v, n), Pay(payers, i), UNCHANGED status
  PROVE  PublicInv'
<1>1. i \notin out'
  BY ActiveHasCoin, PaidKeepsCoin DEF Playing
<1>2. cur' = DoSt(a, i, v, <<>>)
  BY DEF LayGang
<1> QED
  BY <1>1, <1>2, ToGang DEF Seated, Playing

LEMMA MingGangKeeps ==
  ASSUME NEW i \in Active(status), NEW v, v # i, Seated, Playing(status, out),
         DoMingGang(i, v), UNCHANGED status
  PROVE  PublicInv'
<1>1. "MingGang" \in Gangs /\ LayGang(i, "MingGang", v, 3) /\ Pay({v}, i)
  BY DEF Gangs, DoMingGang
<1>2. i \notin {v}
  OBVIOUS
<1> QED
  BY <1>1, <1>2, GangKeeps

LEMMA AnGangKeeps ==
  ASSUME NEW i \in Active(status), Seated, Playing(status, out), DoAnGang(i), UNCHANGED status
  PROVE  PublicInv'
<1>1. "AnGang" \in Gangs /\ LayGang(i, "AnGang", i, 4) /\ Pay(Active(status) \ {i}, i)
  BY DEF Gangs, DoAnGang
<1>2. i \notin Active(status) \ {i}
  OBVIOUS
<1> QED
  BY <1>1, <1>2, GangKeeps

LEMMA BuGangKeeps ==
  ASSUME NEW i \in Active(status), Seated, Playing(status, out), DoBuGang(i), UNCHANGED status
  PROVE  PublicInv'
<1>1. "BuGang" \in Gangs /\ LayGang(i, "BuGang", i, 1) /\ Pay(Active(status) \ {i}, i)
  BY DEF Gangs, DoBuGang
<1>2. i \notin Active(status) \ {i}
  OBVIOUS
<1> QED
  BY <1>1, <1>2, GangKeeps

LEMMA ZiMoKeeps ==
  ASSUME TypeInv, NEW i, Seated, DoZiMo(i)
  PROVE  PublicInv'
<1>1. Seated'
  BY DEF Seated, DoZiMo, TypeInv, PlayerType
<1>2. cur' = DoSt("Hu", i, i, <<i>>)
  BY DEF DoZiMo
<1> QED
  BY <1>1, <1>2, ToHu

LEMMA DianPaoKeeps ==
  ASSUME NEW q, NEW v, NEW d, Seated, DoDianPao(q, v, d)
  PROVE  PublicInv'
<1>1. Seated'
  BY DEF Seated, DoDianPao, PayWinners
<1>2. cur' = DoSt("Hu", q[1], v, q)
  BY DEF DoDianPao
<1> QED
  BY <1>1, <1>2, ToHu

-----------------------------------------------------------------------------
(* Before the first turn *)

LEMMA InitPublic == Init => PublicInv
BY DEF Init, WaitReady, PublicInv, StartOK, TurnOK, ClaimOK, RobOK, ActOK, WaitOK

LEMMA EnterPublic ==
  ASSUME TypeInv, PublicInv, NEW i \in Seats, Enter(i)
  PROVE  PublicInv'
<1>1. cur.st \in {"WaitReady", "GameEnd"}
  BY DEF Enter, PublicInv, StartOK
<1> QED
  BY <1>1 DEF Enter, PublicInv, StartOK, TurnOK, ClaimOK, RobOK, ActOK, WaitOK

LEMMA LeavePublic ==
  ASSUME PublicInv, NEW i \in Seats, Leave(i)
  PROVE  PublicInv'
BY DEF Leave, PublicInv, StartOK, TurnOK, ClaimOK, RobOK, ActOK, WaitOK

LEMMA SetReadyPublic ==
  ASSUME PublicInv, NEW i \in Seats, SetReady(i)
  PROVE  PublicInv'
<1>1. cur.st = "WaitReady" /\ out = {} /\ out' = out
  BY DEF SetReady, PublicInv, StartOK
<1>2. cur' = cur \/ (cur' = StartGame /\ status' = [j \in Seats |-> "CanAct"])
  BY DEF SetReady
<1> QED
  BY <1>1, <1>2 DEF StartGame, PublicInv, StartOK, TurnOK, ClaimOK, RobOK, ActOK, WaitOK

LEMMA StartGameTimeUpPublic == PublicInv /\ StartGameTimeUp => PublicInv'
BY DEF StartGameTimeUp, DecideQueSt, PublicInv, StartOK, TurnOK, ClaimOK, RobOK, ActOK, WaitOK

LEMMA QueOverPublic ==
  ASSUME TypeInv, PublicInv, cur.st = "WaitDecideQue", NEW w, QueOver(w),
         UNCHANGED <<status, out>>
  PROVE  PublicInv'
<1>1. /\ out = {} /\ Seated /\ TwoLeft(status) /\ Active(status) = Seats
  BY TwoSeats DEF PublicInv, StartOK, Seated
<1>2. CASE cur.doing
  <2>1. EnterWaitAct(banker, status) /\ banker \in Active(status')
    BY <1>1, <1>2 DEF QueOver, TypeInv, PlayerType
  <2>2. Seated' /\ Playing(status, out)'
    BY <1>1 DEF Seated, Playing, Penniless
  <2> QED
    BY <2>1, <2>2, ToWaitAct
<1>3. CASE ~cur.doing
  BY <1>3 DEF QueOver, DecideQueSt, PublicInv, StartOK, TurnOK, ClaimOK, RobOK, ActOK, WaitOK
<1> QED
  BY <1>2, <1>3

LEMMA DecideQuePublic ==
  ASSUME TypeInv, PublicInv, NEW i \in Seats, DecideQue(i)
  PROVE  PublicInv'
<1>1. cur.st = "WaitDecideQue" /\ UNCHANGED <<status, out>>
  BY DEF DecideQue
<1>2. QueOver({}) \/ cur' = DecideQueSt(cur.wait \ {i}, cur.doing)
  BY DEF DecideQue
<1>3. CASE cur' = DecideQueSt(cur.wait \ {i}, cur.doing)
  BY <1>1, <1>3 DEF DecideQueSt, PublicInv, StartOK, TurnOK, ClaimOK, RobOK, ActOK, WaitOK
<1> QED
  BY <1>1, <1>2, <1>3, QueOverPublic

LEMMA QueTimeUpPublic == TypeInv /\ PublicInv /\ QueTimeUp => PublicInv'
<1> SUFFICES ASSUME TypeInv, PublicInv, QueTimeUp PROVE PublicInv'
  OBVIOUS
<1>1. cur.st = "WaitDecideQue" /\ QueOver(cur.wait) /\ UNCHANGED <<status, out>>
  BY DEF QueTimeUp
<1> QED
  BY <1>1, QueOverPublic

-----------------------------------------------------------------------------
(* The turn of a seat *)

LEMMA AtTurn ==
  ASSUME PublicInv, NEW i, MyTurn(i)
  PROVE  i \in Active(status) /\ Seated /\ Playing(status, out)
BY DEF MyTurn, PublicInv, StartOK, TurnOK, Seated

LEMMA DiscardPublic ==
  ASSUME PublicInv, NEW i \in Seats, Discard(i)
  PROVE  PublicInv'
<1>1. DoChu(i, TRUE) /\ UNCHANGED <<status, out>> /\ MyTurn(i)
  BY DEF Discard
<1> QED
  BY <1>1, AtTurn, ChuKeeps

LEMMA SelfHuPublic ==
  ASSUME TypeInv, PublicInv, NEW i \in Seats, SelfHu(i)
  PROVE  PublicInv'
<1>1. DoZiMo(i) /\ MyTurn(i)
  BY DEF SelfHu
<1> QED
  BY <1>1, AtTurn, ZiMoKeeps

LEMMA ConcealedGangPublic ==
  ASSUME PublicInv, NEW i \in Seats, ConcealedGang(i)
  PROVE  PublicInv'
<1>1. DoAnGang(i) /\ MyTurn(i) /\ UNCHANGED status
  BY DEF ConcealedGang
<1> QED
  BY <1>1, AtTurn, AnGangKeeps

LEMMA AddedGangPublic ==
  ASSUME PublicInv, NEW i \in Seats, NEW act \in {"BuGang", "BuGang_Declare"}, AddedGang(i, act)
  PROVE  PublicInv'
<1>1. PICK robbers \in SUBSET Winners(i) :
        IF robbers = {} /\ act = "BuGang"
        THEN DoBuGang(i) /\ UNCHANGED <<banker, status>>
        ELSE /\ cur' = IF robbers = {} THEN DoSt(act, i, i, <<>>) ELSE RobotSt(i, robbers)
             /\ UNCHANGED <<status, out>>
  BY DEF AddedGang
<1>2. i \in Active(status) /\ Seated /\ Playing(status, out)
  BY AtTurn DEF AddedGang
<1>3. CASE robbers = {} /\ act = "BuGang"
  BY <1>1, <1>2, <1>3, BuGangKeeps
<1>4. CASE robbers = {} /\ act = "BuGang_Declare"
  <2>1. cur' = DoSt(act, i, i, <<>>) /\ act # "Hu" /\ act \notin Gangs /\ UNCHANGED <<status, out>>
    BY <1>1, <1>4 DEF Gangs
  <2> QED
    BY <1>2, <2>1, ToAct DEF Seated
<1>5. CASE robbers # {}
  <2>1. cur' = RobotSt(i, robbers) /\ UNCHANGED <<status, out>>
    BY <1>1, <1>5
  <2>2. robbers \subseteq Active(status)
    BY DEF Winners
  <2> QED
    BY <1>2, <2>1, <2>2
       DEF RobotSt, Seated, PublicInv, StartOK, TurnOK, ClaimOK, RobOK, ActOK, WaitOK
<1> QED
  BY <1>3, <1>4, <1>5

LEMMA TurnTimeUpPublic == TypeInv /\ PublicInv /\ TurnTimeUp => PublicInv'
<1> SUFFICES ASSUME TypeInv, PublicInv, TurnTimeUp PROVE PublicInv'
  OBVIOUS
<1>1. cur.st = "WaitPlayerAct" /\ cur \in WaitActStates /\ UNCHANGED <<status, out>>
  BY StateOf DEF TypeInv, CurOK, TurnTimeUp
<1>2. cur.idx \in Active(status) /\ Seated /\ Playing(status, out)
  BY <1>1, AtTurn DEF MyTurn
<1>3. CASE cur.canPass
  <2>1. cur' = [cur EXCEPT !.canPass = FALSE, !.late = FALSE]
    BY <1>3 DEF TurnTimeUp
  <2>2. cur'.st = "WaitPlayerAct" /\ cur'.idx = cur.idx
    BY <1>1, <2>1 DEF WaitActStates
  <2> QED
    BY <1>1, <1>2, <2>2
       DEF Seated, PublicInv, StartOK, TurnOK, ClaimOK, RobOK, ActOK, WaitOK
<1>4. CASE ~cur.canPass
  <2>1. PICK real \in BOOLEAN : DoChu(cur.idx, real)
    BY <1>4 DEF TurnTimeUp
  <2> QED
    BY <1>1, <1>2, <2>1, ChuKeeps
<1> QED
  BY <1>3, <1>4

LEMMA WinnerTimeUpPublic == TypeInv /\ PublicInv /\ WinnerTimeUp => PublicInv'
<1> SUFFICES ASSUME TypeInv, PublicInv, WinnerTimeUp PROVE PublicInv'
  OBVIOUS
<1>1. cur.idx \in Seats
  BY StateOf DEF TypeInv, CurOK, WinnerTimeUp, WaitActStates
<1>2. SelfHu(cur.idx) \/ ConcealedGang(cur.idx) \/ AddedGang(cur.idx, "BuGang")
  BY DEF WinnerTimeUp
<1> QED
  BY <1>1, <1>2, SelfHuPublic, ConcealedGangPublic, AddedGangPublic

LEMMA ChuTimeUpPublic == PublicInv /\ ChuTimeUp => PublicInv'
<1> SUFFICES ASSUME PublicInv, ChuTimeUp PROVE PublicInv'
  OBVIOUS
<1>1. MyTurn(cur.idx) /\ DoChu(cur.idx, TRUE) /\ UNCHANGED <<status, out>>
  BY DEF ChuTimeUp, MyTurn
<1> QED
  BY <1>1, AtTurn, ChuKeeps

-----------------------------------------------------------------------------
(* The answers to a discard and to a declared kong *)

(* What an answer leaves of the question. *)
AskedOK(c) ==
  /\ c \in AskStates /\ Playing(status, out) /\ Seated
  /\ c.waitHu \subseteq Active(status) /\ c.waitPeng \subseteq Active(status)
  /\ c.invoke \notin c.waitHu \cup c.waitPeng
  /\ c.doPeng # "None" => c.peng \in Active(status) /\ c.peng # c.invoke

LEMMA ActiveNotEmpty == Playing(status, out) => Active(status) # {} /\ Active(status) \subseteq Seats
BY ActiveSeats DEF Playing, TwoLeft

LEMMA NextMoKeeps ==
  ASSUME NEW i \in Seats, Seated, Playing(status, out), DoMo(NextIn(i, Active(status))),
         UNCHANGED <<status, out>>
  PROVE  PublicInv'
<1>1. NextIn(i, Active(status)) \in Active(status)
  BY ActiveNotEmpty, NextInMember
<1> QED
  BY <1>1, MoKeeps

LEMMA ClaimActPublic ==
  ASSUME NEW c, AskedOK(c), ClaimAct(c)
  PROVE  PublicInv'
<1>1. CASE DoDianPao(c.doHu, c.invoke, FALSE)
  BY <1>1, DianPaoKeeps DEF AskedOK
<1>2. CASE c.doPeng = "Peng" /\ DoPeng(c.peng, c.invoke) /\ UNCHANGED <<status, out>>
  BY <1>2, PengKeeps DEF AskedOK
<1>3. CASE c.doPeng = "MingGang" /\ DoMingGang(c.peng, c.invoke) /\ UNCHANGED status
  BY <1>3, MingGangKeeps DEF AskedOK
<1> QED
  BY <1>1, <1>2, <1>3 DEF ClaimAct

LEMMA AskOverPublic ==
  ASSUME NEW c, AskedOK(c), AskOver(c)
  PROVE  PublicInv'
<1>1. CASE EnterGameEnd(out, status)
  BY <1>1, ToGameEnd
<1>2. CASE ClaimAct(c)
  BY <1>2, ClaimActPublic
<1>3. CASE DoMo(NextIn(c.invoke, Active(status))) /\ UNCHANGED <<status, out>>
  BY <1>3, NextMoKeeps DEF AskedOK, AskStates
<1> QED
  BY <1>1, <1>2, <1>3 DEF AskOver

LEMMA AnsweredPublic ==
  ASSUME NEW c0, AskedOK(c0), NEW i, Answered(c0, i)
  PROVE  PublicInv'
<1> DEFINE c == [c0 EXCEPT !.waitHu = @ \ {i}, !.waitPeng = @ \ {i}]
<1>1. /\ c \in AskStates /\ c.doPeng = c0.doPeng /\ c.peng = c0.peng /\ c.invoke = c0.invoke
      /\ c.waitHu = c0.waitHu \ {i} /\ c.waitPeng = c0.waitPeng \ {i} /\ c.st = "AskForHuAndPeng"
  BY DEF AskedOK, AskStates
<1>2. \/ cur' = c /\ UNCHANGED <<status, out>>
      \/ ClaimAct(c) \/ AskOver(c)
  BY DEF Answered
<1> HIDE DEF c
<1>3. AskedOK(c)
  BY <1>1 DEF AskedOK
<1>4. CASE cur' = c /\ UNCHANGED <<status, out>>
  BY <1>1, <1>3, <1>4
     DEF AskedOK, Seated, PublicInv, StartOK, TurnOK, ClaimOK, RobOK, ActOK, WaitOK
<1> QED
  BY <1>2, <1>3, <1>4, ClaimActPublic, AskOverPublic

LEMMA AskedNow ==
  ASSUME TypeInv, PublicInv, cur.st = "AskForHuAndPeng"
  PROVE  AskedOK(cur)
BY AskStateOf DEF AskedOK, PublicInv, ClaimOK, StartOK, Seated

LEMMA ClaimHuPublic ==
  ASSUME TypeInv, PublicInv, NEW i \in Seats, ClaimHu(i)
  PROVE  PublicInv'
<1> DEFINE q  == Append(cur.doHu, i)
           c0 == [cur EXCEPT !.doHu = q]
<1>1. AskedOK(cur)
  BY AskedNow DEF ClaimHu, Asked
<1>2. c0 \in AskStates /\ c0.doPeng = cur.doPeng /\ c0.peng = cur.peng /\ c0.invoke = cur.invoke
      /\ c0.waitHu = cur.waitHu /\ c0.waitPeng = cur.waitPeng
  <2>1. q \in Seq(Seats)
    BY <1>1 DEF AskedOK, AskStates
  <2> HIDE DEF q
  <2> QED
    BY <1>1, <2>1 DEF AskedOK, AskStates
<1>3. Answered(c0, i)
  BY DEF ClaimHu
<1> HIDE DEF c0
<1>4. AskedOK(c0)
  BY <1>1, <1>2 DEF AskedOK
<1> QED
  BY <1>3, <1>4, AnsweredPublic

LEMMA ClaimPengPublic ==
  ASSUME TypeInv, PublicInv, NEW i \in Seats, NEW act \in {"Peng", "MingGang"}, ClaimPeng(i, act)
  PROVE  PublicInv'
<1> DEFINE c0 == [cur EXCEPT !.doPeng = act]
<1>1. AskedOK(cur) /\ i = cur.peng /\ i \in cur.waitHu \cup cur.waitPeng
  BY AskedNow DEF ClaimPeng, Asked
<1>2. c0 \in AskStates /\ c0.peng = i /\ c0.invoke = cur.invoke
      /\ c0.waitHu = cur.waitHu /\ c0.waitPeng = cur.waitPeng
  BY <1>1 DEF AskedOK, AskStates
<1>3. Answered(c0, i)
  BY DEF ClaimPeng
<1> HIDE DEF c0
<1>4. i \in Active(status) /\ i # cur.invoke
  BY <1>1 DEF AskedOK
<1>5. AskedOK(c0)
  BY <1>1, <1>2, <1>4 DEF AskedOK
<1> QED
  BY <1>3, <1>5, AnsweredPublic

LEMMA ClaimPassPublic ==
  ASSUME TypeInv, PublicInv, NEW i \in Seats, ClaimPass(i)
  PROVE  PublicInv'
<1>1. AskedOK(cur) /\ Answered(cur, i)
  BY AskedNow DEF ClaimPass, Asked
<1> QED
  BY <1>1, AnsweredPublic

LEMMA AskTimeUpPublic == TypeInv /\ PublicInv /\ AskTimeUp => PublicInv'
<1> SUFFICES ASSUME TypeInv, PublicInv, AskTimeUp PROVE PublicInv'
  OBVIOUS
<1>1. AskedOK(cur) /\ AskOver(cur)
  BY AskedNow DEF AskTimeUp
<1> QED
  BY <1>1, AskOverPublic

LEMMA AtRobbery ==
  ASSUME PublicInv, cur.st = "AskForRobotGang"
  PROVE  cur.invoke \in Active(status) /\ Seated /\ Playing(status, out)
BY DEF PublicInv, StartOK, RobOK, Seated

LEMMA RobotAnsweredPublic ==
  ASSUME TypeInv, PublicInv, NEW i \in Seats, Robbed(i), NEW q, RobotAnswered(q, i)
  PROVE  PublicInv'
<1>1. cur \in RobotStates /\ cur.st = "AskForRobotGang"
  BY RobotStateOf DEF Robbed
<1>2. CASE cur' = [cur EXCEPT !.wait = @ \ {i}, !.doHu = q] /\ UNCHANGED <<status, out>>
  <2>1. cur'.st = "AskForRobotGang" /\ cur'.wait = cur.wait \ {i} /\ cur'.invoke = cur.invoke
    BY <1>1, <1>2 DEF RobotStates
  <2> QED
    BY <1>1, <1>2, <2>1 DEF PublicInv, StartOK, TurnOK, ClaimOK, RobOK, ActOK, WaitOK
<1>3. CASE DoBuGang(cur.invoke) /\ UNCHANGED status
  BY <1>1, <1>3, AtRobbery, BuGangKeeps
<1>4. CASE DoDianPao(q, cur.invoke, TRUE)
  BY <1>1, <1>4, AtRobbery, DianPaoKeeps
<1> QED
  BY <1>2, <1>3, <1>4 DEF RobotAnswered

LEMMA RobotMessagesPublic ==
  ASSUME TypeInv, PublicInv, NEW i \in Seats, RobotHu(i) \/ RobotPass(i)
  PROVE  PublicInv'
BY RobotAnsweredPublic DEF RobotHu, RobotPass

LEMMA RobotTimeUpPublic == PublicInv /\ RobotTimeUp => PublicInv'
<1> SUFFICES ASSUME PublicInv, RobotTimeUp PROVE PublicInv'
  OBVIOUS
<1>1. cur.st = "AskForRobotGang" /\ DoBuGang(cur.invoke) /\ UNCHANGED status
  BY DEF RobotTimeUp
<1> QED
  BY <1>1, AtRobbery, BuGangKeeps

-----------------------------------------------------------------------------
(* The end of an act *)

LEMMA AtAct ==
  ASSUME PublicInv, cur.st = "DoPlayerAct", cur.act # "Hu"
  PROVE  /\ cur.idx \in Active(status) /\ Seated /\ TwoLeft(status)
         /\ IF cur.act \in Gangs THEN cur.idx \notin out ELSE Playing(status, out)
BY DEF PublicInv, StartOK, ActOK, Seated, Playing

LEMMA MoDonePublic == PublicInv /\ MoDone => PublicInv'
<1> SUFFICES ASSUME PublicInv, MoDone PROVE PublicInv'
  OBVIOUS
<1>1. cur.st = "DoPlayerAct" /\ cur.act = "Mo" /\ UNCHANGED <<status, out>>
      /\ EnterWaitAct(cur.idx, status)
  BY DEF MoDone, Doing
<1>2. cur.idx \in Active(status') /\ Seated' /\ Playing(status, out)'
  BY <1>1, AtAct DEF Gangs, Seated
<1> QED
  BY <1>1, <1>2, ToWaitAct

LEMMA PengDonePublic == PublicInv /\ PengDone => PublicInv'
<1> SUFFICES ASSUME PublicInv, PengDone PROVE PublicInv'
  OBVIOUS
<1>1. cur.st = "DoPlayerAct" /\ cur.act = "Peng" /\ UNCHANGED <<status, out>>
      /\ cur' = WaitChuSt(cur.idx)
  BY DEF PengDone, Doing
<1>2. cur.idx \in Active(status') /\ Seated' /\ Playing(status, out)'
  BY <1>1, AtAct DEF Gangs, Seated
<1> QED
  BY <1>1, <1>2, ToWaitChu

LEMMA GangDonePublic == PublicInv /\ GangDone => PublicInv'
<1> SUFFICES ASSUME PublicInv, GangDone PROVE PublicInv'
  OBVIOUS
<1> DEFINE w == Penniless(out, status)
           t == IF cur.act = "MingGang" THEN "WaitPlayerChu" ELSE "WaitPlayerAct"
<1>1. cur.st = "DoPlayerAct" /\ cur.act # "Hu" /\ UNCHANGED <<status, out>>
      /\ (cur.act \in Gangs \/ cur.act = "BuGang_Declare")
  BY DEF GangDone, Doing, Gangs
<1>2. cur.idx \in Active(status') /\ Seated' /\ TwoLeft(status')
  BY <1>1, AtAct DEF Seated
<1>3. CASE w = {}
  <2>1. EnterWaitAct(cur.idx, status) /\ Playing(status, out)'
    BY <1>1, <1>2, <1>3 DEF GangDone, Playing
  <2> QED
    BY <1>1, <1>2, <2>1, ToWaitAct
<1>4. CASE w # {}
  <2>1. cur' = SupplySt(w, t, cur.idx) /\ w = Penniless(out, status)' /\ t # "DoPlayerAct"
    BY <1>1, <1>4 DEF GangDone
  <2>2. cur.idx \notin out'
    BY <1>1, <1>4, AtAct DEF Playing
  <2> HIDE DEF w, t
  <2> QED
    BY <1>2, <1>4, <2>1, <2>2, ToSupply
<1> QED
  BY <1>3, <1>4

LEMMA GameGoesOn ==
  ASSUME NEW w, NEW s, ~GameOver(w, s)
  PROVE  TwoLeft(s)
BY DEF GameOver, TwoLeft

LEMMA HuDonePublic == TypeInv /\ PublicInv /\ HuDone => PublicInv'
<1> SUFFICES ASSUME TypeInv, PublicInv, HuDone PROVE PublicInv'
  OBVIOUS
<1>1. CASE EnterGameEnd(out, status)
  BY <1>1, ToGameEnd
<1>2. CASE ~EnterGameEnd(out, status)
  <2> DEFINE winners == SeqRange(cur.huIdxs)
             last    == CHOOSE i \in winners : \A j \in winners : j <= i
             rest    == Active(status) \ winners
             next    == NextIn(last, rest)
             w       == Penniless(out, status)
  <2>1. /\ IF w = {} THEN DoMo(next)
           ELSE cur' = SupplySt(w, "DoPlayerAct", next) /\ UNCHANGED tableVars
        /\ rest # {} /\ ~GameOver(wall, status) /\ UNCHANGED <<out, status>>
    BY <1>2 DEF HuDone
  <2>2. winners \subseteq Seats /\ winners # {}
    <3>1. cur.huIdxs \in Seq(Seats) /\ cur.huIdxs # <<>>
      BY DoStateOf DEF HuDone, Doing, TypeInv, CurOK
    <3>2. \A n \in DOMAIN cur.huIdxs : cur.huIdxs[n] \in Seats
      BY <3>1
    <3>3. cur.huIdxs[1] \in winners
      BY <3>1 DEF SeqRange
    <3> QED
      BY <3>2, <3>3 DEF SeqRange
  <2>3. rest \subseteq Seats /\ rest \subseteq Active(status)
    BY ActiveSeats
  <2> HIDE DEF winners
  <2>4. last \in Seats
    BY <2>2, HighestSeat
  <2> HIDE DEF last, rest
  <2>5. next \in Active(status)
    BY <2>1, <2>3, <2>4, NextInMember
  <2> HIDE DEF next
  <2>6. Seated /\ TwoLeft(status)
    BY <2>1, GameGoesOn DEF PublicInv, StartOK, HuDone, Doing, Seated
  <2>7. CASE w = {}
    BY <2>1, <2>5, <2>6, <2>7, MoKeeps DEF Playing
  <2>8. CASE w # {}
    <3>1. cur' = SupplySt(w, "DoPlayerAct", next) /\ w = Penniless(out, status)'
      BY <2>1, <2>8
    <3>2. Seated' /\ next \in Active(status')
      BY <2>1, <2>5, <2>6 DEF Seated
    <3> HIDE DEF w
    <3> QED
      BY <2>8, <3>1, <3>2, ToSupply
  <2> QED
    BY <2>7, <2>8
<1> QED
  BY <1>1, <1>2

LEMMA ChuDonePublic == TypeInv /\ PublicInv /\ ChuDone => PublicInv'
<1> SUFFICES ASSUME TypeInv, PublicInv, ChuDone PROVE PublicInv'
  OBVIOUS
<1>1. cur.idx \in Active(status) /\ cur.idx \in Seats /\ Seated /\ Playing(status, out)
      /\ UNCHANGED status
  BY AtAct, DoStateOf DEF ChuDone, Doing, Gangs
<1>h. PICK huers \in SUBSET Winners(cur.idx) : \E pair \in Pairs(cur.idx, huers) :
        LET p == pair[1]
            waitPeng == {i \in {p} \ {NoSeat} : status[i] # "AlreadyHu"}
        IN  \/ /\ cur' = AskSt(cur.idx, huers, waitPeng, p, pair[2])
               /\ UNCHANGED out
            \/ EnterGameEnd(out, status)
            \/ DoMo(NextIn(cur.idx, Active(status))) /\ UNCHANGED out
  BY DEF ChuDone
<1>2. PICK pair \in Pairs(cur.idx, huers) :
        LET p == pair[1]
            waitPeng == {i \in {p} \ {NoSeat} : status[i] # "AlreadyHu"}
        IN  \/ /\ cur' = AskSt(cur.idx, huers, waitPeng, p, pair[2])
               /\ UNCHANGED out
            \/ EnterGameEnd(out, status)
            \/ DoMo(NextIn(cur.idx, Active(status))) /\ UNCHANGED out
  BY <1>h
<1> DEFINE p == pair[1]
           waitPeng == {i \in {p} \ {NoSeat} : status[i] # "AlreadyHu"}
<1>3. CASE cur' = AskSt(cur.idx, huers, waitPeng, p, pair[2]) /\ UNCHANGED out
  <2>1. huers \subseteq Active(status) \ {cur.idx}
    BY DEF Winners
  <2>2. p = NoSeat \/ p \in Active(status) \ {cur.idx}
    <3>1. CASE pair = <<NoSeat, FALSE>>
      BY <3>1
    <3>2. CASE pair \in (Active(status) \ {cur.idx}) \X BOOLEAN
      BY <3>2
    <3> QED
      BY <3>1, <3>2 DEF Pairs
  <2>3. waitPeng \subseteq Active(status) \ {cur.idx}
    BY <2>2
  <2> HIDE DEF p, waitPeng
  <2> QED
    BY <1>1, <1>3, <2>1, <2>3
       DEF AskSt, Seated, PublicInv, StartOK, TurnOK, ClaimOK, RobOK, ActOK, WaitOK
<1>4. CASE EnterGameEnd(out, status)
  BY <1>4, ToGameEnd
<1>5. CASE DoMo(NextIn(cur.idx, Active(status))) /\ UNCHANGED out
  BY <1>1, <1>5, NextMoKeeps
<1> QED
  BY <1>2, <1>3, <1>4, <1>5

-----------------------------------------------------------------------------
(* The wait for coins.  s and o are the statuses and the broke after an answer. *)

(* Whose turn it is to be after the wait. *)
TurnAfter(s, o) ==
  IF cur.target = "DoPlayerAct"
  THEN cur.idx \in Active(s) \/ s[cur.idx] = "DecideLose"
  ELSE cur.idx \in Active(s) /\ cur.idx \notin o

LEMMA SupplyOverPublic ==
  ASSUME TypeInv, cur.st = "WaitSupplyCoin", NEW s, NEW o, SupplyOver(s, o), status' = s,
         \A i \in Seats : s[i] # "Empty", Penniless(o, s) = {}, TurnAfter(s, o)
  PROVE  PublicInv'
<1>1. CASE EnterGameEnd(o, s)
  BY <1>1, ToGameEnd
<1>2. CASE ~GameOver(wall, s) /\ out' = o /\ ~EnterGameEnd(o, s)
  <2>1. TwoLeft(s) /\ Playing(s, o) /\ Seated' /\ Playing(status, out)'
    BY <1>2, GameGoesOn DEF Playing, Seated
  <2>2. CASE cur.target = "DoPlayerAct"
    <3> DEFINE next == IF s[cur.idx] = "DecideLose" THEN NextIn(cur.idx, Active(s)) ELSE cur.idx
    <3>1. DoMo(next)
      BY <1>2, <2>2 DEF SupplyOver
    <3>2. Active(s) # {} /\ Active(s) \subseteq Seats /\ cur.idx \in Seats
      BY <2>1, ActiveSeats, SupplyStateOf DEF TwoLeft
    <3>3. NextIn(cur.idx, Active(s)) \in Active(s)
      BY <3>2, NextInMember
    <3>4. next \in Active(s)
      BY <2>2, <3>3 DEF TurnAfter
    <3> HIDE DEF next
    <3>5. cur' = DoSt("Mo", next, next, <<>>) /\ next \in Active(status')
      BY <3>1, <3>4 DEF DoMo
    <3> QED
      BY <2>1, <3>5, ToAct DEF Gangs
  <2>3. CASE cur.target # "DoPlayerAct"
    <3>1. cur.idx \in Active(status')
      BY <2>3 DEF TurnAfter
    <3>2. EnterWaitAct(cur.idx, s) \/ cur' = WaitChuSt(cur.idx)
      BY <1>2, <2>3 DEF SupplyOver
    <3> QED
      BY <2>1, <3>1, <3>2, ToWaitAct, ToWaitChu
  <2> QED
    BY <2>2, <2>3
<1> QED
  BY <1>1, <1>2 DEF SupplyOver

LEMMA SupplyLeftPublic ==
  ASSUME TypeInv, cur.st = "WaitSupplyCoin", NEW w, NEW s, NEW o, SupplyLeft(w, s, o), status' = s,
         \A i \in Seats : s[i] # "Empty", w = Penniless(o, s), TurnAfter(s, o)
  PROVE  PublicInv'
<1>1. CASE w = {}
  BY <1>1, SupplyOverPublic DEF SupplyLeft
<1>2. CASE w # {}
  <2>1. cur' = [cur EXCEPT !.wait = w] /\ out' = o
    BY <1>2 DEF SupplyLeft
  <2>2. cur'.st = "WaitSupplyCoin" /\ cur'.wait = w /\ cur'.idx = cur.idx /\ cur'.target = cur.target
    BY <2>1, SupplyStateOf DEF SupplyStates
  <2> QED
    BY <1>2, <2>1, <2>2
       DEF TurnAfter, PublicInv, StartOK, TurnOK, ClaimOK, RobOK, ActOK, WaitOK
<1> QED
  BY <1>1, <1>2

LEMMA AtWait ==
  ASSUME PublicInv, cur.st = "WaitSupplyCoin"
  PROVE  cur.wait = Penniless(out, status) /\ Seated /\ TurnAfter(status, out)
BY DEF PublicInv, StartOK, WaitOK, Seated, TurnAfter

LEMMA AddCoinPublic ==
  ASSUME TypeInv, PublicInv, NEW i \in Seats, AddCoin(i)
  PROVE  PublicInv'
<1>1. cur.st = "WaitSupplyCoin" /\ status' = status
  BY DEF AddCoin
<1>2. TurnAfter(status, out \ {i}) /\ Seated
  BY <1>1, AtWait DEF TurnAfter
<1>3. CASE i \in cur.wait
  <2>1. SupplyLeft(cur.wait \ {i}, status, out \ {i})
    BY <1>3 DEF AddCoin
  <2>2. cur.wait \ {i} = Penniless(out \ {i}, status)
    BY <1>1, AtWait DEF Penniless
  <2> QED
    BY <1>1, <1>2, <2>1, <2>2, SupplyLeftPublic DEF Seated
<1>4. CASE i \notin cur.wait
  <2>1. cur' = cur /\ out' = out \ {i}
    BY <1>4 DEF AddCoin
  <2>2. cur.wait = Penniless(out \ {i}, status)
    BY <1>1, <1>4, AtWait DEF Penniless
  <2>3. cur.wait # {}
    BY <1>1 DEF PublicInv, WaitOK
  <2> QED
    BY <1>1, <1>2, <2>1, <2>2, <2>3
       DEF TurnAfter, Seated, PublicInv, StartOK, TurnOK, ClaimOK, RobOK, ActOK, WaitOK
<1> QED
  BY <1>3, <1>4

(* Those who give up are out of the game: of the others nothing changes. *)
LEMMA GivingUp ==
  ASSUME TypeInv, PublicInv, cur.st = "WaitSupplyCoin", NEW S \in SUBSET cur.wait,
         status' = [i \in Seats |-> IF i \in S THEN "DecideLose" ELSE status[i]]
  PROVE  /\ \A i \in Seats : status'[i] # "Empty"
         /\ cur.wait \ S = Penniless(out, status')
         /\ TurnAfter(status', out)
<1>1. cur.wait \subseteq out /\ cur.wait \subseteq Seats /\ out \subseteq Seats /\ cur.idx \in Seats
  BY AtWait, SupplyStateOf DEF Penniless, TypeInv, PlayerType
<1>2. \A i \in Seats : status'[i] = IF i \in S THEN "DecideLose" ELSE status[i]
  OBVIOUS
<1>3. \A i \in Seats : status'[i] # "Empty"
  BY <1>2, AtWait DEF Seated
<1>4. cur.wait \ S = Penniless(out, status')
  BY <1>1, <1>2, AtWait DEF Penniless
<1>5. TurnAfter(status', out)
  <2>1. cur.idx \notin S => (cur.idx \in Active(status) => cur.idx \in Active(status'))
    BY <1>1, <1>2, ActiveIn
  <2>2. CASE cur.target = "DoPlayerAct"
    BY <1>1, <1>2, <2>1, <2>2, AtWait DEF TurnAfter
  <2>3. CASE cur.target # "DoPlayerAct"
    BY <1>1, <2>1, <2>3, AtWait DEF TurnAfter
  <2> QED
    BY <2>2, <2>3
<1> QED
  BY <1>3, <1>4, <1>5

LEMMA DecideLosePublic ==
  ASSUME TypeInv, PublicInv, NEW i \in Seats, DecideLose(i)
  PROVE  PublicInv'
<1>1. cur.st = "WaitSupplyCoin" /\ {i} \in SUBSET cur.wait /\ status \in [Seats -> Statuses]
  BY DEF DecideLose, TypeInv, PlayerType
<1>2. status' = [j \in Seats |-> IF j \in {i} THEN "DecideLose" ELSE status[j]]
  BY <1>1 DEF DecideLose
<1>3. /\ \A j \in Seats : status'[j] # "Empty"
      /\ cur.wait \ {i} = Penniless(out, status')
      /\ TurnAfter(status', out)
  BY <1>1, <1>2, GivingUp
<1>4. SupplyLeft(cur.wait \ {i}, status', out)
  BY DEF DecideLose
<1> QED
  BY <1>1, <1>3, <1>4, SupplyLeftPublic

LEMMA SupplyTimeUpPublic == TypeInv /\ PublicInv /\ SupplyTimeUp => PublicInv'
<1> SUFFICES ASSUME TypeInv, PublicInv, SupplyTimeUp PROVE PublicInv'
  OBVIOUS
<1>1. cur.st = "WaitSupplyCoin" /\ SupplyOver(status', out)
      /\ status' = [j \in Seats |-> IF j \in cur.wait THEN "DecideLose" ELSE status[j]]
  BY DEF SupplyTimeUp
<1>2. /\ \A j \in Seats : status'[j] # "Empty"
      /\ cur.wait \ cur.wait = Penniless(out, status')
      /\ TurnAfter(status', out)
  BY <1>1, GivingUp
<1>3. Penniless(out, status') = {}
  BY <1>2
<1> QED
  BY <1>1, <1>2, <1>3, SupplyOverPublic

-----------------------------------------------------------------------------
(* Every step *)

LEMMA ClockPublic == TypeInv /\ PublicInv /\ Clock => PublicInv'
<1> SUFFICES ASSUME TypeInv, PublicInv, Clock PROVE PublicInv'
  OBVIOUS
<1>1. /\ cur'.st = cur.st /\ cur'.idx = cur.idx
      /\ cur.st = "WaitSupplyCoin" => cur'.wait = cur.wait /\ cur'.target = cur.target
  BY ClockState
<1>2. cur.st \in {"WaitPlayerAct", "WaitSupplyCoin"} /\ UNCHANGED <<status, out>>
  BY DEF Clock
<1> QED
  BY <1>1, <1>2 DEF PublicInv, StartOK, TurnOK, ClaimOK, RobOK, ActOK, WaitOK

LEMMA GameEndTimeUpPublic == ~HasDelegate /\ GameEndTimeUp => PublicInv'
BY DEF GameEndTimeUp, WaitReady, PublicInv, StartOK, TurnOK, ClaimOK, RobOK, ActOK, WaitOK

LEMMA PublicInvStep == ~HasDelegate /\ TypeInv /\ PublicInv /\ [Next]_vars => PublicInv'
<1> SUFFICES ASSUME ~HasDelegate, TypeInv, PublicInv, [Next]_vars PROVE PublicInv'
  OBVIOUS
<1>1. CASE TimeUp
  BY <1>1, StartGameTimeUpPublic, QueTimeUpPublic, ClockSteps, ClockPublic, TurnTimeUpPublic, WinnerTimeUpPublic,
     ChuTimeUpPublic, AskTimeUpPublic, RobotTimeUpPublic, MoDonePublic, PengDonePublic,
     GangDonePublic, HuDonePublic, ChuDonePublic, SupplyTimeUpPublic, GameEndTimeUpPublic
     DEF TimeUp
<1>2. ASSUME NEW i \in Seats, Message(i) PROVE PublicInv'
  BY <1>2, EnterPublic, LeavePublic, SetReadyPublic, DecideQuePublic, DiscardPublic,
     SelfHuPublic, ConcealedGangPublic, AddedGangPublic, ClaimHuPublic, ClaimPengPublic,
     ClaimPassPublic, RobotMessagesPublic, AddCoinPublic, DecideLosePublic, ClockSteps,
     ClockPublic DEF Message
<1>3. CASE UNCHANGED vars
  BY <1>3 DEF vars, Penniless, Playing, TwoLeft, Active,
     PublicInv, StartOK, TurnOK, ClaimOK, RobOK, ActOK, WaitOK
<1> QED
  BY <1>1, <1>2, <1>3 DEF Next

LEMMA PublicInvariant ==
  ASSUME ~HasDelegate
  PROVE  Spec => [](TypeInv /\ PublicInv)
<1>1. ~HasDelegate
  OBVIOUS
<1>2. TypeInv /\ PublicInv /\ [Next]_vars => (TypeInv /\ PublicInv)'
  BY <1>1, TypeInvStep, PublicInvStep
<1> QED
  BY <1>2, InitType, InitPublic, PTL DEF Spec

(* At a public table nobody is asked who has lost or, at a XZMJRoom, has won.   *)
(* It needs the coins: the turn after a kong goes back to its maker without a   *)
(* look at his state, and only the coins he was paid say that he has not given  *)
(* up meanwhile.  At a private table coins stay from hand to hand, and it does  *)
(* not hold.                                                                    *)
THEOREM OnlyActiveAskedCorrect ==
  ASSUME ~HasDelegate
  PROVE  Spec => []OnlyActiveAsked
BY PublicInvariant, PublicInvImplies, PTL

(* At a public table a decision is only asked for when everybody who is still   *)
(* in the game has a coin.                                                      *)
THEOREM NobodyPlaysBrokeCorrect ==
  ASSUME ~HasDelegate
  PROVE  Spec => []NobodyPlaysBroke
BY PublicInvariant, PublicInvImplies, PTL

(* The wait for coins is for exactly those who are broke and have not given up. *)
THEOREM SupplyWaitsForBrokeCorrect ==
  ASSUME ~HasDelegate
  PROVE  Spec => []SupplyWaitsForBroke
BY PublicInvariant, PublicInvImplies, PTL

(* A decision is only asked for while two players are left to play.             *)
THEOREM EnoughPlayersCorrect ==
  ASSUME ~HasDelegate
  PROVE  Spec => []EnoughPlayers
BY PublicInvariant, PublicInvImplies, PTL

-----------------------------------------------------------------------------
(* A declared win goes first *)

(* A question is left by the answer of a seat or, at a public table, in time. *)
LEMMA AskIsLeft ==
  ASSUME Next, AskLeft, cur.st = "AskForHuAndPeng"
  PROVE  \/ \E i \in Seats : ClaimHu(i) \/ ClaimPass(i)
         \/ \E i \in Seats, act \in {"Peng", "MingGang"} : ClaimPeng(i, act)
         \/ AskTimeUp
<1>1. ASSUME TimeUp PROVE AskTimeUp
  BY <1>1
     DEF TimeUp, StartGameTimeUp, QueTimeUp, TimeRunsDown, TurnTimeUp, WinnerTimeUp, ChuTimeUp,
         RobotTimeUp, MoDone, PengDone, GangDone, HuDone, ChuDone, SupplyTimeUp, GameEndTimeUp, Doing
<1>2. ASSUME NEW i \in Seats, Message(i)
      PROVE  \/ ClaimHu(i) \/ ClaimPass(i)
             \/ \E act \in {"Peng", "MingGang"} : ClaimPeng(i, act)
  BY <1>2
     DEF Message, AskLeft, Enter, Leave, SetReady, DecideQue, Discard, SelfHu, ConcealedGang,
         PassTurn, AddedGang, MyTurn, RobotHu, RobotPass, Robbed, AddCoin, PaysTooLittle, DecideLose
<1> QED
  BY <1>1, <1>2 DEF Next

LEMMA ClaimActWins ==
  ASSUME NEW c, c.doHu # <<>>, ClaimAct(c)
  PROVE  WinNext
<1>1. cur' = DoSt("Hu", c.doHu[1], c.invoke, c.doHu)
  BY DEF ClaimAct, DoDianPao
<1> QED
  BY <1>1 DEF DoSt, WinNext

(* The last answer does the win; an earlier one asks on. *)
LEMMA AnsweredWins ==
  ASSUME NEW c0 \in AskStates, NEW i, Answered(c0, i), c0.doHu # <<>>, AskLeft,
         cur.st = "AskForHuAndPeng"
  PROVE  WinNext
<1> DEFINE c == [c0 EXCEPT !.waitHu = @ \ {i}, !.waitPeng = @ \ {i}]
<1>1. c.doHu = c0.doHu /\ c.st = "AskForHuAndPeng"
  BY DEF AskStates
<1>2. cur' = c \/ (IF Claimed(c) THEN ClaimAct(c) ELSE AskOver(c))
  BY DEF Answered
<1> HIDE DEF c
<1>3. cur' # c
  BY <1>1 DEF AskLeft
<1> QED
  BY <1>1, <1>2, <1>3, ClaimActWins DEF Claimed

LEMMA WinStep ==
  ASSUME TypeInv, ~HasDelegate => PublicInv, Next, AskLeft, cur.st = "AskForHuAndPeng",
         cur.doHu # <<>>, wall > 0
  PROVE  WinNext
<1>1. cur \in AskStates
  BY AskStateOf
<1>2. ASSUME NEW i \in Seats, ClaimHu(i) PROVE WinNext
  <2> DEFINE q  == Append(cur.doHu, i)
             c0 == [cur EXCEPT !.doHu = q]
  <2>1. q \in Seq(Seats) /\ q # <<>>
    BY <1>1 DEF AskStates
  <2>2. Answered(c0, i)
    BY <1>2 DEF ClaimHu
  <2> HIDE DEF q
  <2>3. c0 \in AskStates /\ c0.doHu = q
    BY <1>1, <2>1 DEF AskStates
  <2> HIDE DEF c0
  <2> QED
    BY <2>1, <2>2, <2>3, AnsweredWins
<1>3. ASSUME NEW i \in Seats, ClaimPass(i) PROVE WinNext
  BY <1>1, <1>3, AnsweredWins DEF ClaimPass
<1>4. ASSUME NEW i \in Seats, NEW act \in {"Peng", "MingGang"}, ClaimPeng(i, act) PROVE WinNext
  <2> DEFINE c0 == [cur EXCEPT !.doPeng = act]
  <2>1. c0 \in AskStates /\ c0.doHu = cur.doHu
    BY <1>1 DEF AskStates
  <2>2. Answered(c0, i)
    BY <1>4 DEF ClaimPeng
  <2> HIDE DEF c0
  <2> QED
    BY <2>1, <2>2, AnsweredWins
<1>5. ASSUME AskTimeUp PROVE WinNext
  <2>1. AskOver(cur) /\ PublicInv
    BY <1>5 DEF AskTimeUp
  <2>2. ~GameOver(wall, status)
    BY <2>1 DEF GameOver, PublicInv, ClaimOK, Playing, TwoLeft
  <2>3. ClaimAct(cur)
    BY <2>1, <2>2 DEF AskOver, Claimed
  <2> QED
    BY <2>3, ClaimActWins
<1> QED
  BY <1>2, <1>3, <1>4, <1>5, AskIsLeft

(* A win declared on a discard is done while the wall lasts, at every table:    *)
(* whoever answers last and whoever never does.  Only the time-up asks whether  *)
(* the game is over, and it exists at public tables only, where two players are *)
(* left whenever a question is asked.                                           *)
THEOREM WinBeforeClaimsCorrect == Spec => WinBeforeClaims
<1> DEFINE Inv == TypeInv /\ (~HasDelegate => PublicInv)
<1>1. Init => Inv
  BY InitType, InitPublic
<1>2. Inv /\ [Next]_vars => Inv'
  BY TypeInvStep, PublicInvStep
<1>3. Inv /\ [Next]_vars =>
        [AskLeft /\ cur.st = "AskForHuAndPeng" /\ cur.doHu # <<>> /\ wall > 0 => WinNext]_vars
  BY WinStep
<1> HIDE DEF Inv
<1> QED
  BY <1>1, <1>2, <1>3, PTL DEF Spec, WinBeforeClaims


-----------------------------------------------------------------------------
(* The answers so far *)

(* Seats `asked' are still to answer a card of seat v, the seats of q have won. *)
Once(q, asked, v) ==
  /\ asked \cap SeqRange(q) = {} /\ v \notin asked \cup SeqRange(q)
  /\ \A m, n \in DOMAIN q : q[m] = q[n] => m = n

LEMMA OnceAtFirst ==
  ASSUME NEW asked, NEW v, v \notin asked
  PROVE  Once(<<>>, asked, v)
BY DEF Once, SeqRange

LEMMA OnceLess ==
  ASSUME NEW q, NEW asked, NEW v, Once(q, asked, v), NEW less, less \subseteq asked
  PROVE  Once(q, less, v)
BY DEF Once

(* A seat that answers with a win is not asked any more. *)
LEMMA OnceWon ==
  ASSUME NEW q \in Seq(Seats), NEW asked, NEW v, Once(q, asked, v), NEW i \in Seats, i \in asked
  PROVE  Once(Append(q, i), asked \ {i}, v)
<1> DEFINE r == Append(q, i)
<1>1. /\ r \in Seq(Seats) /\ Len(r) = Len(q) + 1 /\ r[Len(q) + 1] = i
      /\ \A n \in 1 .. Len(q) : r[n] = q[n]
      /\ DOMAIN r = 1 .. Len(q) + 1 /\ DOMAIN q = 1 .. Len(q) /\ Len(q) \in Nat
  OBVIOUS
<1> HIDE DEF r
<1>2. SeqRange(r) = SeqRange(q) \cup {i}
  <2>1. \A n \in DOMAIN r : n \in DOMAIN q \/ n = Len(q) + 1
    BY <1>1
  <2>2. DOMAIN q \subseteq DOMAIN r /\ Len(q) + 1 \in DOMAIN r
    BY <1>1
  <2> QED
    BY <1>1, <2>1, <2>2 DEF SeqRange
<1>3. i \notin SeqRange(q)
  BY DEF Once
<1>4. ASSUME NEW m \in DOMAIN r, NEW n \in DOMAIN r, r[m] = r[n]
      PROVE  m = n
  <2>1. CASE m \in DOMAIN q /\ n \in DOMAIN q
    BY <1>1, <1>4, <2>1 DEF Once
  <2>2. CASE m = Len(q) + 1 /\ n \in DOMAIN q
    BY <1>1, <1>3, <1>4, <2>2 DEF SeqRange
  <2>3. CASE m \in DOMAIN q /\ n = Len(q) + 1
    BY <1>1, <1>3, <1>4, <2>3 DEF SeqRange
  <2> QED
    BY <1>1, <2>1, <2>2, <2>3
<1>5. (asked \ {i}) \cap SeqRange(r) = {} /\ v \notin (asked \ {i}) \cup SeqRange(r)
  BY <1>2 DEF Once
<1> QED
  BY <1>4, <1>5 DEF Once, r

-----------------------------------------------------------------------------
(* The invariant *)

OnceAsked(c) ==
  /\ Once(c.doHu, c.waitHu \cup c.waitPeng, c.invoke)
  /\ c.doPeng # "None" => c.peng \notin c.waitHu \cup c.waitPeng

ClaimInv ==
  /\ cur.st = "AskForHuAndPeng" => OnceAsked(cur)
  /\ cur.st = "AskForRobotGang" => Once(cur.doHu, cur.wait, cur.invoke)

LEMMA ClaimInvImplies == ClaimInv => ClaimOnce
BY DEF ClaimInv, OnceAsked, Once, ClaimOnce, AskedSeats

(* Most steps end in a state that asks nobody but the player whose turn it is. *)
Quiet == cur'.st \notin {"AskForHuAndPeng", "AskForRobotGang"}

LEMMA QuietKeeps == Quiet => ClaimInv'
BY DEF Quiet, ClaimInv

LEMMA WaitActQuiet == ASSUME NEW i, NEW s, EnterWaitAct(i, s) PROVE Quiet
BY DEF EnterWaitAct, WaitActSt, Quiet

LEMMA GameEndQuiet == ASSUME NEW o, NEW s, EnterGameEnd(o, s) PROVE Quiet
BY DEF EnterGameEnd, GameEnd, Quiet

LEMMA DoQuiet ==
  ASSUME NEW a, NEW i, NEW v, NEW q, cur' = DoSt(a, i, v, q)
  PROVE  Quiet
BY DEF DoSt, Quiet

LEMMA ActQuiet ==
  ASSUME NEW i, NEW v,
         \/ DoMo(i) \/ DoPeng(i, v) \/ DoMingGang(i, v) \/ DoAnGang(i) \/ DoBuGang(i) \/ DoZiMo(i)
         \/ \E d \in BOOLEAN : DoChu(i, d)
         \/ \E q, d : DoDianPao(q, v, d)
  PROVE  Quiet
BY DoQuiet DEF DoMo, DoPeng, DoMingGang, DoAnGang, DoBuGang, LayGang, DoZiMo, DoChu, DoDianPao

-----------------------------------------------------------------------------
(* The questions *)

LEMMA AddedGangClaims ==
  ASSUME NEW i \in Seats, NEW act, AddedGang(i, act)
  PROVE  ClaimInv'
<1>1. PICK robbers \in SUBSET Winners(i) :
        IF robbers = {} /\ act = "BuGang"
        THEN DoBuGang(i) /\ UNCHANGED <<banker, status>>
        ELSE /\ cur' = IF robbers = {} THEN DoSt(act, i, i, <<>>) ELSE RobotSt(i, robbers)
             /\ declareFlag' = declareFlag \cup {i}
             /\ UNCHANGED <<banker, status, out, wall, handVars, gangFlag, afterGang>>
  BY DEF AddedGang
<1>2. CASE robbers = {}
  BY <1>1, <1>2, ActQuiet, DoQuiet, QuietKeeps
<1>3. CASE cur' = RobotSt(i, robbers)
  <2>1. i \notin robbers
    BY DEF Winners
  <2> QED
    BY <1>3, <2>1, OnceAtFirst DEF ClaimInv, RobotSt
<1> QED
  BY <1>1, <1>2, <1>3

LEMMA ChuDoneClaims == ChuDone => ClaimInv'
<1> SUFFICES ASSUME ChuDone PROVE ClaimInv'
  OBVIOUS
<1>1. PICK huers \in SUBSET Winners(cur.idx) : \E pair \in Pairs(cur.idx, huers) :
        LET p == pair[1]
            waitPeng == {i \in {p} \ {NoSeat} : status[i] # "AlreadyHu"}
        IN  \/ /\ huers \cup waitPeng # {}
               /\ cur' = AskSt(cur.idx, huers, waitPeng, p, pair[2])
               /\ UNCHANGED <<out, tableVars>>
            \/ /\ huers \cup waitPeng = {}
               /\ \/ GameOver(wall, status) /\ EnterGameEnd(out, status)
                  \/ /\ ~GameOver(wall, status)
                     /\ DoMo(NextIn(cur.idx, Active(status)))
                     /\ UNCHANGED out
  BY DEF ChuDone
<1>2. PICK pair \in Pairs(cur.idx, huers) :
        LET p == pair[1]
            waitPeng == {i \in {p} \ {NoSeat} : status[i] # "AlreadyHu"}
        IN  \/ cur' = AskSt(cur.idx, huers, waitPeng, p, pair[2])
            \/ EnterGameEnd(out, status)
            \/ DoMo(NextIn(cur.idx, Active(status)))
  BY <1>1
<1> DEFINE waitPeng == {i \in {pair[1]} \ {NoSeat} : status[i] # "AlreadyHu"}
<1>3. CASE cur' = AskSt(cur.idx, huers, waitPeng, pair[1], pair[2])
  <2>1. cur.idx \notin huers
    BY DEF Winners
  <2>2. pair[1] = NoSeat \/ pair[1] # cur.idx
    <3>1. pair = <<NoSeat, FALSE>> \/ pair \in (Active(status) \ {cur.idx}) \X BOOLEAN
      BY DEF Pairs
    <3>2. CASE pair \in (Active(status) \ {cur.idx}) \X BOOLEAN
      <4>1. pair[1] \in Active(status) \ {cur.idx}
        BY <3>2
      <4> QED
        BY <4>1
    <3>3. CASE pair = <<NoSeat, FALSE>>
      BY <3>3
    <3> QED
      BY <3>1, <3>2, <3>3
  <2>3. cur.idx \notin huers \cup waitPeng
    BY <2>1, <2>2
  <2> HIDE DEF waitPeng
  <2> QED
    BY <1>3, <2>3, OnceAtFirst DEF ClaimInv, OnceAsked, AskSt
<1>4. CASE EnterGameEnd(out, status) \/ DoMo(NextIn(cur.idx, Active(status)))
  BY <1>4, GameEndQuiet, ActQuiet, QuietKeeps
<1> QED
  BY <1>2, <1>3, <1>4

-----------------------------------------------------------------------------
(* The answers to a discard *)

LEMMA AskOverQuiet ==
  ASSUME NEW c, AskOver(c) \/ ClaimAct(c)
  PROVE  Quiet
BY ActQuiet, GameEndQuiet DEF AskOver, ClaimAct

(* c0 is the state after the answer of seat i is noted, seat i still being asked. *)
LEMMA AnsweredClaims ==
  ASSUME NEW c0 \in AskStates, NEW i \in Seats, Answered(c0, i),
         Once(c0.doHu, (c0.waitHu \cup c0.waitPeng) \ {i}, c0.invoke),
         c0.doPeng # "None" => c0.peng \notin (c0.waitHu \cup c0.waitPeng) \ {i}
  PROVE  ClaimInv'
<1> DEFINE c == [c0 EXCEPT !.waitHu = @ \ {i}, !.waitPeng = @ \ {i}]
<1>1. /\ c.st = "AskForHuAndPeng" /\ c.doHu = c0.doHu /\ c.invoke = c0.invoke
      /\ c.doPeng = c0.doPeng /\ c.peng = c0.peng
      /\ c.waitHu = c0.waitHu \ {i} /\ c.waitPeng = c0.waitPeng \ {i}
  BY DEF AskStates
<1>2. cur' = c \/ ClaimAct(c) \/ AskOver(c)
  BY DEF Answered
<1> HIDE DEF c
<1>3. CASE cur' = c
  <2>1. c.waitHu \cup c.waitPeng = (c0.waitHu \cup c0.waitPeng) \ {i}
    BY <1>1
  <2> QED
    BY <1>1, <1>3, <2>1 DEF ClaimInv, OnceAsked
<1> QED
  BY <1>2, <1>3, AskOverQuiet, QuietKeeps

LEMMA ClaimHuClaims ==
  ASSUME TypeInv, ClaimInv, NEW i \in Seats, ClaimHu(i)
  PROVE  ClaimInv'
<1> DEFINE q  == Append(cur.doHu, i)
           c0 == [cur EXCEPT !.doHu = q]
<1>1. /\ cur \in AskStates /\ cur.st = "AskForHuAndPeng" /\ OnceAsked(cur)
      /\ i \in cur.waitHu \cup cur.waitPeng
  BY AskStateOf DEF ClaimHu, Asked, ClaimInv
<1>2. cur.doHu \in Seq(Seats) /\ q \in Seq(Seats)
  BY <1>1 DEF AskStates
<1>3. Once(q, (cur.waitHu \cup cur.waitPeng) \ {i}, cur.invoke)
  BY <1>1, <1>2, OnceWon DEF OnceAsked
<1>4. Answered(c0, i)
  BY DEF ClaimHu
<1> HIDE DEF q
<1>5. /\ c0 \in AskStates /\ c0.doHu = q /\ c0.invoke = cur.invoke
      /\ c0.waitHu = cur.waitHu /\ c0.waitPeng = cur.waitPeng
      /\ c0.doPeng = cur.doPeng /\ c0.peng = cur.peng
  BY <1>1, <1>2 DEF AskStates
<1> HIDE DEF c0
<1> QED
  BY <1>1, <1>3, <1>4, <1>5, AnsweredClaims DEF OnceAsked

LEMMA ClaimPengClaims ==
  ASSUME TypeInv, ClaimInv, NEW i \in Seats, NEW act \in {"Peng", "MingGang"}, ClaimPeng(i, act)
  PROVE  ClaimInv'
<1> DEFINE c0 == [cur EXCEPT !.doPeng = act]
<1>1. cur \in AskStates /\ OnceAsked(cur) /\ i = cur.peng
  BY AskStateOf DEF ClaimPeng, Asked, ClaimInv
<1>2. Once(cur.doHu, (cur.waitHu \cup cur.waitPeng) \ {i}, cur.invoke)
  BY <1>1, OnceLess DEF OnceAsked
<1>3. Answered(c0, i)
  BY DEF ClaimPeng
<1>4. /\ c0 \in AskStates /\ c0.doHu = cur.doHu /\ c0.invoke = cur.invoke
      /\ c0.waitHu = cur.waitHu /\ c0.waitPeng = cur.waitPeng /\ c0.peng = i
  BY <1>1 DEF AskStates
<1> HIDE DEF c0
<1> QED
  BY <1>2, <1>3, <1>4, AnsweredClaims

LEMMA ClaimPassClaims ==
  ASSUME TypeInv, ClaimInv, NEW i \in Seats, ClaimPass(i)
  PROVE  ClaimInv'
<1>1. cur \in AskStates /\ OnceAsked(cur) /\ Answered(cur, i)
  BY AskStateOf DEF ClaimPass, Asked, ClaimInv
<1>2. Once(cur.doHu, (cur.waitHu \cup cur.waitPeng) \ {i}, cur.invoke)
  BY <1>1, OnceLess DEF OnceAsked
<1> QED
  BY <1>1, <1>2, AnsweredClaims DEF OnceAsked

-----------------------------------------------------------------------------
(* The answers to a declared kong *)

LEMMA RobotAnsweredClaims ==
  ASSUME TypeInv, ClaimInv, NEW i \in Seats, Robbed(i), NEW q, RobotAnswered(q, i),
         Once(q, cur.wait \ {i}, cur.invoke)
  PROVE  ClaimInv'
<1>1. cur \in RobotStates
  BY RobotStateOf DEF Robbed
<1>2. CASE cur' = [cur EXCEPT !.wait = @ \ {i}, !.doHu = q]
  <2>1. /\ cur'.st = "AskForRobotGang" /\ cur'.doHu = q
        /\ cur'.wait = cur.wait \ {i} /\ cur'.invoke = cur.invoke
    BY <1>1, <1>2 DEF RobotStates
  <2> QED
    BY <2>1 DEF ClaimInv
<1>3. CASE DoBuGang(cur.invoke) \/ DoDianPao(q, cur.invoke, TRUE)
  BY <1>3, ActQuiet, QuietKeeps
<1> QED
  BY <1>2, <1>3 DEF RobotAnswered

LEMMA RobotMessagesClaims ==
  ASSUME TypeInv, ClaimInv, NEW i \in Seats, RobotHu(i) \/ RobotPass(i)
  PROVE  ClaimInv'
<1>1. /\ cur.doHu \in Seq(Seats) /\ Once(cur.doHu, cur.wait, cur.invoke) /\ i \in cur.wait
      /\ Robbed(i)
  BY RobotStateOf DEF RobotHu, RobotPass, Robbed, RobotStates, ClaimInv
<1>2. Once(Append(cur.doHu, i), cur.wait \ {i}, cur.invoke)
  BY <1>1, OnceWon
<1>3. Once(cur.doHu, cur.wait \ {i}, cur.invoke)
  BY <1>1, OnceLess
<1> QED
  BY <1>1, <1>2, <1>3, RobotAnsweredClaims DEF RobotHu, RobotPass

-----------------------------------------------------------------------------
(* Waiting for coins *)

LEMMA SupplyOverQuiet ==
  ASSUME NEW s, NEW o, SupplyOver(s, o)
  PROVE  Quiet
BY ActQuiet, GameEndQuiet, WaitActQuiet DEF SupplyOver, WaitChuSt, Quiet

LEMMA SupplyLeftQuiet ==
  ASSUME TypeInv, cur.st = "WaitSupplyCoin", NEW w, NEW s, NEW o, SupplyLeft(w, s, o)
  PROVE  Quiet
<1>1. cur \in SupplyStates
  BY StateOf DEF TypeInv, CurOK
<1>2. CASE cur' = [cur EXCEPT !.wait = w]
  BY <1>1, <1>2 DEF SupplyStates, Quiet
<1> QED
  BY <1>2, SupplyOverQuiet DEF SupplyLeft

LEMMA ClockQuiet == TypeInv /\ Clock => Quiet
BY ClockState DEF Clock, Quiet

LEMMA SupplyMessagesClaims ==
  ASSUME TypeInv, ClaimInv, NEW i \in Seats, AddCoin(i) \/ DecideLose(i)
  PROVE  ClaimInv'
<1>1. CASE UNCHANGED cur
  BY <1>1 DEF ClaimInv, OnceAsked
<1>2. CASE Quiet
  BY <1>2, QuietKeeps
<1> QED
  BY <1>1, <1>2, SupplyLeftQuiet DEF AddCoin, DecideLose

-----------------------------------------------------------------------------
(* Every step *)

LEMMA QuietTimeUps ==
  ASSUME \/ StartGameTimeUp \/ QueTimeUp \/ TurnTimeUp \/ ChuTimeUp \/ AskTimeUp \/ RobotTimeUp
         \/ MoDone \/ PengDone \/ GangDone \/ HuDone \/ SupplyTimeUp \/ GameEndTimeUp,
         TypeInv
  PROVE  Quiet
<1>1. CASE StartGameTimeUp \/ QueTimeUp
  BY <1>1, WaitActQuiet DEF StartGameTimeUp, QueTimeUp, QueOver, DecideQueSt, Quiet
<1>2. CASE TurnTimeUp
  <2>1. cur \in WaitActStates
    BY <1>2, StateOf DEF TypeInv, CurOK, TurnTimeUp
  <2>2. CASE cur' = [cur EXCEPT !.canPass = FALSE, !.late = FALSE]
    BY <2>1, <2>2 DEF WaitActStates, Quiet
  <2> QED
    BY <1>2, <2>2, ActQuiet DEF TurnTimeUp
<1>3. CASE ChuTimeUp
  BY <1>3, ActQuiet DEF ChuTimeUp
<1>4. CASE AskTimeUp \/ RobotTimeUp
  BY <1>4, AskOverQuiet, ActQuiet DEF AskTimeUp, RobotTimeUp
<1>5. CASE MoDone \/ PengDone
  BY <1>5, WaitActQuiet DEF MoDone, PengDone, WaitChuSt, Quiet
<1>6. CASE GangDone
  BY <1>6, WaitActQuiet DEF GangDone, SupplySt, Quiet
<1>7. CASE HuDone
  BY <1>7, ActQuiet, GameEndQuiet DEF HuDone, SupplySt, Quiet
<1>8. CASE SupplyTimeUp
  BY <1>8, SupplyOverQuiet DEF SupplyTimeUp
<1>9. CASE GameEndTimeUp
  BY <1>9 DEF GameEndTimeUp, WaitReady, Quiet
<1> QED
  BY <1>1, <1>2, <1>3, <1>4, <1>5, <1>6, <1>7, <1>8, <1>9

LEMMA TurnClaims ==
  ASSUME NEW i, Discard(i) \/ SelfHu(i) \/ ConcealedGang(i)
  PROVE  ClaimInv'
BY ActQuiet, QuietKeeps DEF Discard, SelfHu, ConcealedGang

LEMMA WinnerTimeUpClaims == TypeInv /\ WinnerTimeUp => ClaimInv'
<1> SUFFICES ASSUME TypeInv, WinnerTimeUp PROVE ClaimInv'
  OBVIOUS
<1>1. cur.idx \in Seats
  BY StateOf DEF TypeInv, CurOK, WinnerTimeUp, WaitActStates
<1> QED
  BY <1>1, TurnClaims, AddedGangClaims DEF WinnerTimeUp

LEMMA BeforeClaims ==
  ASSUME ClaimInv, NEW i \in Seats, Enter(i) \/ Leave(i) \/ SetReady(i) \/ DecideQue(i)
  PROVE  ClaimInv'
<1>1. CASE UNCHANGED cur
  BY <1>1 DEF ClaimInv, OnceAsked
<1>2. CASE cur' = StartGame
  BY <1>2 DEF StartGame, ClaimInv
<1>3. CASE DecideQue(i)
  BY <1>3, WaitActQuiet, QuietKeeps DEF DecideQue, QueOver, DecideQueSt, Quiet
<1> QED
  BY <1>1, <1>2, <1>3 DEF Enter, Leave, SetReady

LEMMA ClaimInvStep == TypeInv /\ ClaimInv /\ [Next]_vars => ClaimInv'
<1> SUFFICES ASSUME TypeInv, ClaimInv, [Next]_vars PROVE ClaimInv'
  OBVIOUS
<1>1. CASE TimeUp
  BY <1>1, QuietTimeUps, QuietKeeps, ClockSteps, ClockQuiet, WinnerTimeUpClaims, ChuDoneClaims
     DEF TimeUp
<1>2. ASSUME NEW i \in Seats, Message(i) PROVE ClaimInv'
  BY <1>2, BeforeClaims, TurnClaims, AddedGangClaims, ClaimHuClaims, ClaimPengClaims,
     ClaimPassClaims, RobotMessagesClaims, SupplyMessagesClaims, ClockSteps, ClockQuiet,
     QuietKeeps DEF Message
<1>3. CASE UNCHANGED vars
  BY <1>3 DEF vars, ClaimInv, OnceAsked
<1> QED
  BY <1>1, <1>2, <1>3 DEF Next

(* At every table a seat is asked once about a card and answers once: it is     *)
(* never paid twice for one win, nor asked again after its answer, nor asked    *)
(* about its own card, whatever the order of the answers.                       *)
THEOREM ClaimOnceCorrect == Spec => []ClaimOnce
<1>1. Init => ClaimInv
  BY DEF Init, WaitReady, ClaimInv
<1> QED
  BY <1>1, InitType, TypeInvStep, ClaimInvStep, ClaimInvImplies, PTL DEF Spec

-----------------------------------------------------------------------------
(* Winners are out of the game                                                *)

(* The seats whose cards the next step may change. *)
InPlay(c) ==
  {i \in Seats :
     \/ c.st \in {"WaitPlayerAct", "WaitPlayerChu", "WaitSupplyCoin"} /\ i = c.idx
     \/ c.st = "DoPlayerAct" /\ c.act # "Hu" /\ i = c.idx
     \/ c.st \in {"AskForHuAndPeng", "AskForRobotGang"} /\ i = c.invoke
     \/ c.st = "AskForHuAndPeng" /\ i \in c.waitHu \cup c.waitPeng
     \/ c.st = "AskForHuAndPeng" /\ c.doPeng # "None" /\ i = c.peng}

(* None of them has won, and before the first turn nobody has. *)
FrozenInv ==
  /\ \A i \in InPlay(cur) : status[i] # "AlreadyHu"
  /\ cur.st \in {"StartGame", "WaitDecideQue"} => \A i \in Seats : status[i] # "AlreadyHu"

Kept(i) == hold'[i] = hold[i] /\ penged'[i] = penged[i] /\ ganged'[i] = ganged[i]
Still   == \A i \in Seats : status[i] = "AlreadyHu" => Kept(i)
Good    == FrozenInv' /\ (InGame /\ InGame' => Still)

LEMMA StillOf ==
  ASSUME NEW i \in Seats, status[i] # "AlreadyHu", \A j \in Seats \ {i} : Kept(j)
  PROVE  Still
BY DEF Still

LEMMA UntouchedStill == ASSUME UNCHANGED handVars PROVE Still
BY DEF handVars, Still, Kept

(* An act changes only the hand of the seat that does it. *)
LEMMA ActKeepsOthers ==
  ASSUME TypeInv, NEW i \in Seats,
         \/ DoMo(i) \/ DoAnGang(i) \/ DoBuGang(i) \/ DoZiMo(i)
         \/ \E d \in BOOLEAN : DoChu(i, d)
         \/ \E v \in Seats : DoPeng(i, v) \/ DoMingGang(i, v)
  PROVE  \A j \in Seats \ {i} : Kept(j)
<1>1. /\ hold \in [Seats -> Int] /\ penged \in [Seats -> Int] /\ ganged \in [Seats -> Nat]
  BY DEF TypeInv, TableType
<1>2. CASE DoMo(i)
  BY <1>1, <1>2 DEF DoMo, Kept
<1>3. CASE DoAnGang(i)
  BY <1>1, <1>3 DEF DoAnGang, LayGang, Kept
<1>4. CASE DoBuGang(i)
  BY <1>1, <1>4 DEF DoBuGang, LayGang, Kept
<1>5. CASE DoZiMo(i)
  BY <1>1, <1>5 DEF DoZiMo, Kept
<1>6. CASE \E d \in BOOLEAN : DoChu(i, d)
  BY <1>1, <1>6 DEF DoChu, Kept
<1>7. CASE \E v \in Seats : DoPeng(i, v) \/ DoMingGang(i, v)
  BY <1>1, <1>7 DEF DoPeng, DoMingGang, LayGang, Kept
<1> QED
  BY <1>2, <1>3, <1>4, <1>5, <1>6, <1>7

LEMMA ToActFrozen ==
  ASSUME NEW a, NEW i, NEW v, NEW h, cur' = DoSt(a, i, v, h), a = "Hu" \/ status'[i] # "AlreadyHu"
  PROVE  FrozenInv'
BY DEF DoSt, FrozenInv, InPlay

LEMMA ActGood ==
  ASSUME TypeInv, NEW i \in Seats, status[i] # "AlreadyHu", status'[i] # "AlreadyHu",
         \/ DoMo(i) \/ DoAnGang(i) \/ DoBuGang(i)
         \/ \E d \in BOOLEAN : DoChu(i, d)
         \/ \E v \in Seats : DoPeng(i, v) \/ DoMingGang(i, v)
  PROVE  Good
<1>1. Still
  BY ActKeepsOthers, StillOf
<1>2. \E a, v : cur' = DoSt(a, i, v, <<>>)
  BY DEF DoMo, DoAnGang, DoBuGang, DoChu, DoPeng, DoMingGang, LayGang
<1> QED
  BY <1>1, <1>2, ToActFrozen DEF Good

LEMMA ZiMoGood ==
  ASSUME TypeInv, NEW i \in Seats, status[i] # "AlreadyHu", DoZiMo(i)
  PROVE  Good
<1>1. cur' = DoSt("Hu", i, i, <<i>>)
  BY DEF DoZiMo
<1> QED
  BY <1>1, ToActFrozen, ActKeepsOthers, StillOf DEF Good

LEMMA DianPaoGood ==
  ASSUME TypeInv, NEW q, NEW v \in Seats, NEW d, status[v] # "AlreadyHu", DoDianPao(q, v, d)
  PROVE  Good
<1>1. cur' = DoSt("Hu", q[1], v, q)
  BY DEF DoDianPao
<1>2. hold \in [Seats -> Int] /\ RobCard(v, d) /\ UNCHANGED <<penged, ganged>>
  BY DEF TypeInv, TableType, DoDianPao
<1>3. \A j \in Seats \ {v} : hold'[j] = hold[j]
  BY <1>2 DEF RobCard
<1>4. Still
  BY <1>2, <1>3, StillOf DEF Kept
<1> QED
  BY <1>1, <1>4, ToActFrozen DEF Good

LEMMA GameEndGood ==
  ASSUME NEW o, NEW s, EnterGameEnd(o, s)
  PROVE  Good
BY DEF EnterGameEnd, GameEnd, Good, FrozenInv, InPlay, InGame

LEMMA WaitActGood ==
  ASSUME NEW i, NEW s, EnterWaitAct(i, s), status'[i] # "AlreadyHu", UNCHANGED handVars
  PROVE  Good
<1>1. PICK a \in Able(i), p \in BOOLEAN : cur' = WaitActSt(i, a, p)
  BY DEF EnterWaitAct
<1> QED
  BY <1>1, UntouchedStill DEF WaitActSt, Good, FrozenInv, InPlay

LEMMA WaitChuGood ==
  ASSUME NEW i, cur' = WaitChuSt(i), status'[i] # "AlreadyHu", UNCHANGED handVars
  PROVE  Good
BY UntouchedStill DEF WaitChuSt, Good, FrozenInv, InPlay

LEMMA SupplyGood ==
  ASSUME NEW w, NEW t, NEW i, cur' = SupplySt(w, t, i), status'[i] # "AlreadyHu",
         UNCHANGED handVars
  PROVE  Good
BY UntouchedStill DEF SupplySt, Good, FrozenInv, InPlay

(* Nothing is played while a seat is filled or coins come in. *)
LEMMA SameStateGood ==
  ASSUME FrozenInv, UNCHANGED <<cur, handVars>>,
         \A i \in Seats : status'[i] = "AlreadyHu" => status[i] = "AlreadyHu"
  PROVE  Good
BY UntouchedStill DEF Good, FrozenInv, InPlay

LEMMA NextActive ==
  ASSUME BloodEnd, NEW i \in Seats, NEW s, NEW S, S \subseteq Active(s), S # {}
  PROVE  NextIn(i, S) \in Seats /\ s[NextIn(i, S)] \notin {"AlreadyHu", "DecideLose"}
<1>1. S \subseteq Seats
  BY ActiveSeats
<1> QED
  BY <1>1, NextInMember, ActiveIn

LEMMA BeforeGood ==
  ASSUME TypeInv, FrozenInv, NEW i \in Seats, Enter(i) \/ Leave(i) \/ SetReady(i)
  PROVE  Good
<1>0. status \in [Seats -> Statuses]
  BY DEF TypeInv, PlayerType
<1>1. CASE Enter(i)
  BY <1>0, <1>1, SameStateGood DEF Enter, tableVars
<1>2. CASE Leave(i)
  BY <1>0, <1>2 DEF Leave, Good, FrozenInv, InPlay, InGame
<1>3. CASE SetReady(i)
  BY <1>0, <1>3 DEF SetReady, StartGame, Good, FrozenInv, InPlay, InGame
<1> QED
  BY <1>1, <1>2, <1>3

LEMMA QueOverGood ==
  ASSUME TypeInv, FrozenInv, cur.st = "WaitDecideQue", NEW w, QueOver(w),
         UNCHANGED <<status, handVars>>
  PROVE  Good
<1>1. CASE cur.doing
  <2>1. banker \in Seats /\ status'[banker] # "AlreadyHu"
    BY DEF TypeInv, PlayerType, FrozenInv
  <2> QED
    BY <1>1, <2>1, WaitActGood DEF QueOver
<1>2. CASE ~cur.doing
  BY <1>2, UntouchedStill DEF QueOver, DecideQueSt, Good, FrozenInv, InPlay
<1> QED
  BY <1>1, <1>2

LEMMA QueGood ==
  ASSUME TypeInv, FrozenInv, StartGameTimeUp \/ QueTimeUp \/ \E i \in Seats : DecideQue(i)
  PROVE  Good
<1>1. CASE StartGameTimeUp
  BY <1>1, UntouchedStill DEF StartGameTimeUp, tableVars, DecideQueSt, Good, FrozenInv, InPlay
<1>2. CASE QueTimeUp
  BY <1>2, QueOverGood DEF QueTimeUp, tableVars
<1>3. ASSUME NEW i \in Seats, DecideQue(i) PROVE Good
  <2>1. CASE QueOver({})
    BY <1>3, <2>1, QueOverGood DEF DecideQue, tableVars
  <2>2. CASE cur' = DecideQueSt(cur.wait \ {i}, cur.doing)
    BY <1>3, <2>2, UntouchedStill
       DEF DecideQue, tableVars, DecideQueSt, Good, FrozenInv, InPlay
  <2> QED
    BY <1>3, <2>1, <2>2 DEF DecideQue
<1> QED
  BY <1>1, <1>2, <1>3

LEMMA TurnOfOther ==
  ASSUME FrozenInv, NEW i \in Seats, MyTurn(i)
  PROVE  status[i] # "AlreadyHu"
BY DEF MyTurn, FrozenInv, InPlay

LEMMA TurnGood ==
  ASSUME TypeInv, FrozenInv, NEW i \in Seats, Discard(i) \/ SelfHu(i) \/ ConcealedGang(i)
  PROVE  Good
<1>1. status[i] # "AlreadyHu"
  BY TurnOfOther DEF Discard, SelfHu, ConcealedGang
<1>2. CASE SelfHu(i)
  BY <1>1, <1>2, ZiMoGood DEF SelfHu
<1>3. CASE Discard(i) \/ ConcealedGang(i)
  BY <1>1, <1>3, ActGood DEF Discard, ConcealedGang
<1> QED
  BY <1>2, <1>3

LEMMA AddedGangGood ==
  ASSUME TypeInv, FrozenInv, NEW i \in Seats, NEW act \in {"BuGang", "BuGang_Declare"},
         AddedGang(i, act)
  PROVE  Good
<1>1. status[i] # "AlreadyHu"
  BY TurnOfOther DEF AddedGang
<1>2. PICK robbers \in SUBSET Winners(i) :
        IF robbers = {} /\ act = "BuGang"
        THEN DoBuGang(i) /\ UNCHANGED <<banker, status>>
        ELSE /\ cur' = IF robbers = {} THEN DoSt(act, i, i, <<>>) ELSE RobotSt(i, robbers)
             /\ declareFlag' = declareFlag \cup {i}
             /\ UNCHANGED <<banker, status, out, wall, handVars, gangFlag, afterGang>>
  BY DEF AddedGang
<1>3. CASE robbers = {} /\ act = "BuGang"
  BY <1>1, <1>2, <1>3, ActGood
<1>4. CASE cur' = DoSt(act, i, i, <<>>) /\ UNCHANGED <<status, handVars>>
  BY <1>1, <1>4, ToActFrozen, UntouchedStill DEF Good
<1>5. CASE cur' = RobotSt(i, robbers) /\ UNCHANGED <<status, handVars>>
  BY <1>1, <1>5, UntouchedStill DEF RobotSt, Good, FrozenInv, InPlay
<1> QED
  BY <1>2, <1>3, <1>4, <1>5

LEMMA TurnTimeUpsGood ==
  ASSUME TypeInv, FrozenInv, TurnTimeUp \/ WinnerTimeUp \/ ChuTimeUp
  PROVE  Good
<1>1. cur.st \in {"WaitPlayerAct", "WaitPlayerChu"} /\ cur.idx \in Seats
  BY StateOf DEF TypeInv, CurOK, TurnTimeUp, WinnerTimeUp, ChuTimeUp, WaitActStates, WaitChuStates
<1>2. status[cur.idx] # "AlreadyHu"
  BY <1>1 DEF FrozenInv, InPlay
<1>3. CASE ChuTimeUp
  BY <1>1, <1>2, <1>3, ActGood DEF ChuTimeUp
<1>4. CASE WinnerTimeUp
  BY <1>2, <1>4 DEF WinnerTimeUp
<1>5. CASE TurnTimeUp
  <2>1. CASE cur.canPass
    <3>1. cur \in WaitActStates
      BY <1>5, StateOf DEF TypeInv, CurOK, TurnTimeUp
    <3>2. cur' = [cur EXCEPT !.canPass = FALSE, !.late = FALSE] /\ UNCHANGED <<status, handVars>>
      BY <1>5, <2>1 DEF TurnTimeUp, tableVars
    <3>3. cur'.st = "WaitPlayerAct" /\ cur'.idx = cur.idx
      BY <3>1, <3>2 DEF WaitActStates
    <3> QED
      BY <1>2, <3>2, <3>3, UntouchedStill DEF Good, FrozenInv, InPlay
  <2>2. CASE ~cur.canPass
    BY <1>1, <1>2, <1>5, <2>2, ActGood DEF TurnTimeUp
  <2> QED
    BY <2>1, <2>2
<1> QED
  BY <1>3, <1>4, <1>5

(* The question c is put to, and is about a card of, seats that have not won.   *)
AskedGood(c) == c \in AskStates /\ \A i \in InPlay(c) : status[i] # "AlreadyHu"

LEMMA AskedParts ==
  ASSUME NEW c, AskedGood(c)
  PROVE  /\ c.st = "AskForHuAndPeng" /\ c.invoke \in Seats /\ status[c.invoke] # "AlreadyHu"
         /\ c.waitHu \subseteq Seats /\ c.waitPeng \subseteq Seats
         /\ \A i \in c.waitHu \cup c.waitPeng : status[i] # "AlreadyHu"
         /\ c.doPeng # "None" /\ c.peng \in Seats => status[c.peng] # "AlreadyHu"
BY DEF AskedGood, AskStates, InPlay

LEMMA ClaimActGood ==
  ASSUME TypeInv, NEW c, AskedGood(c), c.doPeng # "None" => c.peng \in Seats, ClaimAct(c)
  PROVE  Good
<1>1. CASE DoDianPao(c.doHu, c.invoke, FALSE)
  BY <1>1, AskedParts, DianPaoGood
<1>2. CASE /\ c.doPeng # "None" /\ UNCHANGED status
           /\ DoPeng(c.peng, c.invoke) \/ DoMingGang(c.peng, c.invoke)
  BY <1>2, AskedParts, ActGood
<1> QED
  BY <1>1, <1>2 DEF ClaimAct

LEMMA AskOverGood ==
  ASSUME BloodEnd, TypeInv, NEW c, AskedGood(c), c.doPeng # "None" => c.peng \in Seats, AskOver(c)
  PROVE  Good
<1>1. CASE EnterGameEnd(out, status)
  BY <1>1, GameEndGood
<1>2. CASE ClaimAct(c)
  BY <1>2, ClaimActGood
<1>3. CASE /\ ~GameOver(wall, status) /\ DoMo(NextIn(c.invoke, Active(status)))
           /\ UNCHANGED status
  <2> DEFINE next == NextIn(c.invoke, Active(status))
  <2>1. Active(status) # {}
    BY <1>3, GameGoesOn DEF TwoLeft
  <2>2. next \in Seats /\ status[next] # "AlreadyHu"
    BY <2>1, AskedParts, NextActive
  <2> HIDE DEF next
  <2> QED
    BY <1>3, <2>2, ActGood DEF next
<1> QED
  BY <1>1, <1>2, <1>3 DEF AskOver

LEMMA AnsweredGood ==
  ASSUME BloodEnd, TypeInv, NEW c0, AskedGood(c0), c0.doPeng # "None" => c0.peng \in Seats,
         NEW i, Answered(c0, i)
  PROVE  Good
<1> DEFINE c == [c0 EXCEPT !.waitHu = @ \ {i}, !.waitPeng = @ \ {i}]
<1>1. /\ c \in AskStates /\ c.doPeng = c0.doPeng /\ c.peng = c0.peng /\ c.invoke = c0.invoke
      /\ c.waitHu = c0.waitHu \ {i} /\ c.waitPeng = c0.waitPeng \ {i} /\ c.st = "AskForHuAndPeng"
  BY DEF AskedGood, AskStates
<1>2. \/ cur' = c /\ UNCHANGED <<status, tableVars>>
      \/ ClaimAct(c) \/ AskOver(c)
  BY DEF Answered
<1> HIDE DEF c
<1>3. AskedGood(c)
  BY <1>1, AskedParts DEF AskedGood, InPlay
<1>4. CASE cur' = c /\ UNCHANGED <<status, tableVars>>
  BY <1>1, <1>3, <1>4, UntouchedStill DEF AskedGood, tableVars, Good, FrozenInv, InPlay
<1> QED
  BY <1>1, <1>2, <1>3, <1>4, ClaimActGood, AskOverGood

LEMMA AskedGoodNow ==
  ASSUME TypeInv, FrozenInv, cur.st = "AskForHuAndPeng"
  PROVE  AskedGood(cur) /\ (cur.doPeng # "None" => cur.peng \in Seats)
BY AskStateOf DEF AskedGood, FrozenInv, TypeInv, CurOK

LEMMA ClaimsGood ==
  ASSUME BloodEnd, TypeInv, FrozenInv,
         \/ \E i \in Seats : ClaimHu(i) \/ ClaimPass(i)
         \/ \E i \in Seats, act \in {"Peng", "MingGang"} : ClaimPeng(i, act)
         \/ AskTimeUp
  PROVE  Good
<1>1. AskedGood(cur) /\ (cur.doPeng # "None" => cur.peng \in Seats)
  BY AskedGoodNow DEF ClaimHu, ClaimPeng, ClaimPass, Asked, AskTimeUp
<1>2. cur \in AskStates
  BY <1>1 DEF AskedGood
<1>3. ASSUME NEW i \in Seats, ClaimHu(i) PROVE Good
  <2> DEFINE q  == Append(cur.doHu, i)
             c0 == [cur EXCEPT !.doHu = q]
  <2>1. q \in Seq(Seats)
    BY <1>2 DEF AskStates
  <2>2. Answered(c0, i)
    BY <1>3 DEF ClaimHu
  <2> HIDE DEF q
  <2>3. c0 \in AskStates /\ c0.doPeng = cur.doPeng /\ c0.peng = cur.peng /\ c0.invoke = cur.invoke
        /\ c0.waitHu = cur.waitHu /\ c0.waitPeng = cur.waitPeng /\ c0.st = cur.st
    BY <1>2, <2>1 DEF AskStates
  <2> HIDE DEF c0
  <2>4. InPlay(c0) \subseteq InPlay(cur)
    BY <1>1, <2>3, AskedParts DEF InPlay
  <2>5. AskedGood(c0)
    BY <1>1, <2>3, <2>4 DEF AskedGood
  <2> QED
    BY <1>1, <2>2, <2>3, <2>5, AnsweredGood
<1>4. ASSUME NEW i \in Seats, ClaimPass(i) PROVE Good
  BY <1>1, <1>4, AnsweredGood DEF ClaimPass
<1>5. ASSUME NEW i \in Seats, NEW act \in {"Peng", "MingGang"}, ClaimPeng(i, act) PROVE Good
  <2> DEFINE c0 == [cur EXCEPT !.doPeng = act]
  <2>1. Answered(c0, i) /\ cur.peng = i /\ i \in cur.waitHu \cup cur.waitPeng
    BY <1>5 DEF ClaimPeng, Asked
  <2>2. c0 \in AskStates /\ c0.peng = i /\ c0.invoke = cur.invoke
        /\ c0.waitHu = cur.waitHu /\ c0.waitPeng = cur.waitPeng /\ c0.st = cur.st
    BY <1>2, <2>1 DEF AskStates
  <2> HIDE DEF c0
  <2>3. InPlay(c0) \subseteq InPlay(cur)
    BY <1>1, <2>1, <2>2, AskedParts DEF InPlay
  <2>4. AskedGood(c0)
    BY <1>1, <2>2, <2>3 DEF AskedGood
  <2> QED
    BY <2>1, <2>2, <2>4, AnsweredGood
<1>6. ASSUME AskTimeUp PROVE Good
  BY <1>1, <1>6, AskOverGood DEF AskTimeUp
<1> QED
  BY <1>3, <1>4, <1>5, <1>6

LEMMA RobotGood ==
  ASSUME TypeInv, FrozenInv, RobotTimeUp \/ \E i \in Seats : RobotHu(i) \/ RobotPass(i)
  PROVE  Good
<1>1. cur \in RobotStates /\ cur.invoke \in Seats /\ cur.st = "AskForRobotGang"
  BY RobotStateOf DEF RobotTimeUp, RobotHu, RobotPass, Robbed, RobotStates
<1>2. status[cur.invoke] # "AlreadyHu"
  BY <1>1 DEF FrozenInv, InPlay
<1>3. ASSUME DoBuGang(cur.invoke), UNCHANGED status PROVE Good
  BY <1>1, <1>2, <1>3, ActGood
<1>4. ASSUME NEW i \in Seats, NEW q, RobotAnswered(q, i) PROVE Good
  <2>1. CASE cur' = [cur EXCEPT !.wait = @ \ {i}, !.doHu = q] /\ UNCHANGED <<status, tableVars>>
    <3>1. cur'.st = "AskForRobotGang" /\ cur'.invoke = cur.invoke
      BY <1>1, <2>1 DEF RobotStates
    <3> QED
      BY <1>2, <2>1, <3>1, UntouchedStill DEF tableVars, Good, FrozenInv, InPlay
  <2>2. CASE DoDianPao(q, cur.invoke, TRUE)
    BY <1>1, <1>2, <2>2, DianPaoGood
  <2> QED
    BY <1>3, <1>4, <2>1, <2>2 DEF RobotAnswered
<1> QED
  BY <1>3, <1>4 DEF RobotTimeUp, RobotHu, RobotPass

LEMMA ActDoneGood ==
  ASSUME TypeInv, FrozenInv, MoDone \/ PengDone \/ GangDone
  PROVE  Good
<1>1. /\ cur.st = "DoPlayerAct" /\ cur.act # "Hu" /\ UNCHANGED <<status, handVars>>
      /\ cur.idx \in Seats
  BY DoStateOf DEF MoDone, PengDone, GangDone, Doing, Gangs, tableVars
<1>2. status'[cur.idx] # "AlreadyHu"
  BY <1>1 DEF FrozenInv, InPlay
<1>3. \/ EnterWaitAct(cur.idx, status) \/ cur' = WaitChuSt(cur.idx)
      \/ \E w, t : cur' = SupplySt(w, t, cur.idx)
  BY DEF MoDone, PengDone, GangDone
<1> QED
  BY <1>1, <1>2, <1>3, WaitActGood, WaitChuGood, SupplyGood

LEMMA HuDoneGood ==
  ASSUME BloodEnd, TypeInv, FrozenInv, HuDone
  PROVE  Good
<1>1. CASE EnterGameEnd(out, status)
  BY <1>1, GameEndGood
<1>2. CASE ~EnterGameEnd(out, status)
  <2> DEFINE winners == SeqRange(cur.huIdxs)
             last    == CHOOSE i \in winners : \A j \in winners : j <= i
             rest    == Active(status) \ winners
             next    == NextIn(last, rest)
             w       == Penniless(out, status)
  <2>1. /\ IF w = {} THEN DoMo(next)
           ELSE cur' = SupplySt(w, "DoPlayerAct", next) /\ UNCHANGED tableVars
        /\ rest # {} /\ UNCHANGED status
    BY <1>2 DEF HuDone
  <2>2. winners \subseteq Seats /\ winners # {}
    <3>1. cur.huIdxs \in Seq(Seats) /\ cur.huIdxs # <<>>
      BY DoStateOf DEF HuDone, Doing, TypeInv, CurOK
    <3>2. \A n \in DOMAIN cur.huIdxs : cur.huIdxs[n] \in Seats
      BY <3>1
    <3>3. cur.huIdxs[1] \in winners
      BY <3>1 DEF SeqRange
    <3> QED
      BY <3>2, <3>3 DEF SeqRange
  <2>3. rest \subseteq Active(status)
    OBVIOUS
  <2> HIDE DEF winners, w
  <2>4. last \in Seats
    BY <2>2, HighestSeat
  <2> HIDE DEF last, rest
  <2>5. next \in Seats /\ status[next] # "AlreadyHu"
    BY <2>1, <2>3, <2>4, NextActive
  <2> HIDE DEF next
  <2> QED
    BY <2>1, <2>5, ActGood, SupplyGood DEF tableVars
<1> QED
  BY <1>1, <1>2

LEMMA ChuDoneGood ==
  ASSUME BloodEnd, TypeInv, FrozenInv, ChuDone
  PROVE  Good
<1>1. /\ cur.st = "DoPlayerAct" /\ cur.act = "Chu" /\ UNCHANGED status /\ cur.idx \in Seats
  BY DoStateOf DEF ChuDone, Doing
<1>2. status[cur.idx] # "AlreadyHu"
  BY <1>1 DEF FrozenInv, InPlay
<1>3. PICK huers \in SUBSET Winners(cur.idx) : \E pair \in Pairs(cur.idx, huers) :
        LET p == pair[1]
            waitPeng == {i \in {p} \ {NoSeat} : status[i] # "AlreadyHu"}
        IN  \/ /\ cur' = AskSt(cur.idx, huers, waitPeng, p, pair[2])
               /\ UNCHANGED tableVars
            \/ EnterGameEnd(out, status)
            \/ /\ ~GameOver(wall, status)
               /\ DoMo(NextIn(cur.idx, Active(status)))
  BY DEF ChuDone
<1>4. ASSUME NEW p, NEW g,
             cur' = AskSt(cur.idx, huers, {i \in {p} \ {NoSeat} : status[i] # "AlreadyHu"}, p, g),
             UNCHANGED tableVars
      PROVE  Good
  <2> DEFINE waitPeng == {i \in {p} \ {NoSeat} : status[i] # "AlreadyHu"}
  <2>1. \A i \in huers \cup waitPeng : status[i] # "AlreadyHu"
    BY ActiveIn DEF Winners
  <2>2. /\ cur'.st = "AskForHuAndPeng" /\ cur'.invoke = cur.idx /\ cur'.waitHu = huers
        /\ cur'.waitPeng = waitPeng /\ cur'.doPeng = "None"
    BY <1>4 DEF AskSt
  <2> HIDE DEF waitPeng
  <2>3. FrozenInv'
    BY <1>1, <1>2, <2>1, <2>2 DEF FrozenInv, InPlay
  <2> QED
    BY <1>4, <2>3, UntouchedStill DEF tableVars, Good
<1>5. ASSUME ~GameOver(wall, status), DoMo(NextIn(cur.idx, Active(status))) PROVE Good
  <2> DEFINE next == NextIn(cur.idx, Active(status))
  <2>1. Active(status) # {}
    BY <1>5, GameGoesOn DEF TwoLeft
  <2>2. next \in Seats /\ status[next] # "AlreadyHu"
    BY <1>1, <2>1, NextActive
  <2> HIDE DEF next
  <2> QED
    BY <1>1, <1>5, <2>2, ActGood DEF next
<1> QED
  BY <1>3, <1>4, <1>5, GameEndGood

(* Those who give up have not won, and the seat to go on with is passed over if *)
(* it has given up.                                                             *)
LEMMA SupplyOverGood ==
  ASSUME BloodEnd, TypeInv, FrozenInv, cur.st = "WaitSupplyCoin", NEW s, NEW o, SupplyOver(s, o),
         status' = s, \A j \in Seats : s[j] \in {status[j], "DecideLose"}
  PROVE  Good
<1>1. cur.idx \in Seats /\ status[cur.idx] # "AlreadyHu" /\ s[cur.idx] # "AlreadyHu"
  BY SupplyStateOf DEF FrozenInv, InPlay, SupplyStates
<1>2. CASE EnterGameEnd(o, s)
  BY <1>2, GameEndGood
<1>3. CASE /\ ~GameOver(wall, s)
           /\ DoMo(IF s[cur.idx] = "DecideLose" THEN NextIn(cur.idx, Active(s)) ELSE cur.idx)
  <2> DEFINE next == IF s[cur.idx] = "DecideLose" THEN NextIn(cur.idx, Active(s)) ELSE cur.idx
  <2>1. Active(s) # {}
    BY <1>3, GameGoesOn DEF TwoLeft
  <2>2. /\ NextIn(cur.idx, Active(s)) \in Seats
        /\ s[NextIn(cur.idx, Active(s))] \notin {"AlreadyHu", "DecideLose"}
    BY <1>1, <2>1, NextActive
  <2>3. next \in Seats /\ s[next] # "AlreadyHu" /\ status[next] # "AlreadyHu"
    BY <1>1, <2>2
  <2> HIDE DEF next
  <2> QED
    BY <1>3, <2>3, ActGood DEF next
<1>4. CASE EnterWaitAct(cur.idx, s) /\ UNCHANGED tableVars
  BY <1>1, <1>4, WaitActGood DEF tableVars
<1>5. CASE cur' = WaitChuSt(cur.idx) /\ UNCHANGED tableVars
  BY <1>1, <1>5, WaitChuGood DEF tableVars
<1> QED
  BY <1>2, <1>3, <1>4, <1>5 DEF SupplyOver

LEMMA SupplyLeftGood ==
  ASSUME BloodEnd, TypeInv, FrozenInv, cur.st = "WaitSupplyCoin", NEW w, NEW s, NEW o,
         SupplyLeft(w, s, o), status' = s, \A j \in Seats : s[j] \in {status[j], "DecideLose"}
  PROVE  Good
<1>1. CASE w = {}
  BY <1>1, SupplyOverGood DEF SupplyLeft
<1>2. CASE w # {}
  <2>1. cur' = [cur EXCEPT !.wait = w] /\ UNCHANGED tableVars
    BY <1>2 DEF SupplyLeft
  <2>2. cur'.st = "WaitSupplyCoin" /\ cur'.idx = cur.idx
    BY <2>1, SupplyStateOf DEF SupplyStates
  <2>3. \A i \in InPlay(cur) : status'[i] # "AlreadyHu"
    BY DEF FrozenInv, InPlay
  <2> QED
    BY <2>1, <2>2, <2>3, UntouchedStill DEF tableVars, Good, FrozenInv, InPlay
<1> QED
  BY <1>1, <1>2

LEMMA SupplyStepsGood ==
  ASSUME BloodEnd, TypeInv, FrozenInv,
         SupplyTimeUp \/ \E i \in Seats : AddCoin(i) \/ DecideLose(i)
  PROVE  Good
<1>0. status \in [Seats -> Statuses]
  BY DEF TypeInv, PlayerType
<1>1. CASE SupplyTimeUp
  BY <1>0, <1>1, SupplyOverGood DEF SupplyTimeUp
<1>2. ASSUME NEW i \in Seats, AddCoin(i) PROVE Good
  <2>1. CASE i \in cur.wait
    BY <1>2, <2>1, SupplyLeftGood DEF AddCoin
  <2>2. CASE i \notin cur.wait
    BY <1>2, <2>2, SameStateGood DEF AddCoin, tableVars
  <2> QED
    BY <2>1, <2>2
<1>3. ASSUME NEW i \in Seats, DecideLose(i) PROVE Good
  BY <1>0, <1>3, SupplyLeftGood DEF DecideLose
<1> QED
  BY <1>1, <1>2, <1>3

LEMMA ClockGood ==
  ASSUME TypeInv, FrozenInv, Clock
  PROVE  Good
<1>1. cur'.st = cur.st /\ cur'.idx = cur.idx
  BY ClockState
<1>2. cur.st \in {"WaitPlayerAct", "WaitSupplyCoin"} /\ UNCHANGED <<status, handVars>>
  BY DEF Clock, tableVars
<1> QED
  BY <1>1, <1>2, UntouchedStill DEF Good, FrozenInv, InPlay

LEMMA GameEndTimeUpGood == GameEndTimeUp => Good
BY DEF GameEndTimeUp, WaitReady, Good, FrozenInv, InPlay, InGame

LEMMA FrozenStep ==
  ASSUME BloodEnd, TypeInv, FrozenInv, [Next]_vars
  PROVE  Good
<1>1. CASE TimeUp
  BY <1>1, QueGood, ClockSteps, ClockGood, TurnTimeUpsGood, ClaimsGood, RobotGood, ActDoneGood, HuDoneGood, ChuDoneGood,
     SupplyStepsGood, GameEndTimeUpGood DEF TimeUp
<1>2. ASSUME NEW i \in Seats, Message(i) PROVE Good
  BY <1>2, BeforeGood, QueGood, TurnGood, AddedGangGood, ClaimsGood, RobotGood, SupplyStepsGood,
     ClockSteps, ClockGood DEF Message
<1>3. CASE UNCHANGED vars
  BY <1>3, SameStateGood DEF vars, handVars
<1> QED
  BY <1>1, <1>2, <1>3 DEF Next

(* At a XZMJRoom nothing a winner holds changes during the game, at public and  *)
(* private tables: no turn, question, robbery or kong reaches him.              *)
THEOREM WinnersHandFrozenCorrect == Spec => WinnersHandFrozen
<1> DEFINE Inv == TypeInv /\ (BloodEnd => FrozenInv)
<1>1. Init => Inv
  BY InitType DEF Init, WaitReady, FrozenInv, InPlay
<1>2. Inv /\ [Next]_vars => Inv'
  BY TypeInvStep, FrozenStep DEF Good
<1>3. Inv /\ [Next]_vars =>
        [InGame /\ InGame' =>
           \A i \in Seats : status[i] = "AlreadyHu" /\ BloodEnd =>
             Size(i)' = Size(i) /\ hold'[i] = hold[i]]_vars
  BY FrozenStep DEF Good, Still, Kept, Size
<1> HIDE DEF Inv
<1> QED
  BY <1>1, <1>2, <1>3, PTL DEF Spec, WinnersHandFrozen
==============================================================================
