------------------------------ MODULE XLMJRoom ------------------------------
(***************************************************************************)
(* One mahjong table of MJServer: XLMJRoom ("blood flows to the river", a  *)
(* player goes on after winning) and XZMJRoom ("blood fights to the end",  *)
(* a winner is out of the game), with the room states that drive it        *)
(* (IMJRoomState and its sub-classes).                                     *)
(*                                                                         *)
(* The server is a single-threaded loop, so each network message and each  *)
(* timer expiry is one atomic action, together with the goToState and the  *)
(* enterState it triggers.  What interleaves is the order of the players'  *)
(* messages and of the time-ups.                                           *)
(*                                                                         *)
(* Cards are abstracted to COUNTS: how many a seat holds and how many      *)
(* melds it has laid.  Whether a seat can win, pong or kong on a card is a *)
(* question to the hand algorithms of MJPlayerCard; here the answer is a   *)
(* free choice among those the counts allow.  Coins are abstracted to who  *)
(* has none left.                                                          *)
(***************************************************************************)
EXTENDS Integers, Sequences, FiniteSets

CONSTANTS
  SeatCnt,      \* seats at the table (4 in the deployed configuration)
  DealCnt,      \* cards dealt to each seat (13 in the code)
  WallSize,     \* cards left in the wall once every hand is dealt
  BloodEnd,     \* TRUE: XZMJRoom, FALSE: XLMJRoom
  HasDelegate   \* TRUE: table of a MJPrivateRoom, FALSE: public table

ASSUME TableAssumption ==
  /\ SeatCnt \in Nat /\ SeatCnt >= 2
  /\ DealCnt \in Nat \ {0} /\ WallSize \in Nat \ {0}
  /\ BloodEnd \in BOOLEAN /\ HasDelegate \in BOOLEAN

Seats  == 0 .. SeatCnt - 1
NoSeat == SeatCnt

(* eRoomPeerState, as far as haveState() can tell them apart *)
Statuses == {"Empty", "WaitNext", "Ready", "CanAct", "AlreadyHu", "DecideLose"}

VARIABLES
  cur,          \* the current room state with its members (m_pCurState)
  banker,       \* m_nBankerIdx
  wall,         \* CMJCard::getLeftCardCount
  status,       \* MJPlayer::m_eState per seat, "Empty" for a null player
  out,          \* seats whose coin is <= 0
  hold,         \* number of cards in MJPlayerCard::m_vCards per seat
  penged,       \* number of pongs, m_vPenged
  ganged,       \* number of kongs, m_vGanged and m_vAnGanged
  phantom,      \* how many of these are card number 0, drawn from an empty wall
  gangFlag,     \* seats with MJPlayer::m_isHaveGang
  declareFlag,  \* seats with MJPlayer::m_isDeclareBuGang
  afterGang,    \* history: seats whose last draw or meld was a kong
  lost          \* history: cards taken from a seat for a kong it never declared

handVars  == <<hold, penged, ganged, phantom, lost>>
flagVars  == <<gangFlag, declareFlag, afterGang>>
tableVars == <<wall, handVars, flagVars>>
vars == <<cur, banker, wall, status, out, hold, penged, ganged, phantom,
          gangFlag, declareFlag, afterGang, lost>>

-----------------------------------------------------------------------------
(* The room states and the members each of them keeps *)

Gangs == {"MingGang", "AnGang", "BuGang"}
Acts  == Gangs \cup {"Mo", "Chu", "Peng", "Hu", "BuGang_Declare"}
SelfActs == {"Hu", "AnGang", "BuGang"}

WaitReady        == [st |-> "WaitReady"]
StartGame        == [st |-> "StartGame"]
GameEnd          == [st |-> "GameEnd"]
DecideQueSt(w,d) == [st |-> "WaitDecideQue", wait |-> w, doing |-> d]
WaitActSt(i,a,p) ==
  [st |-> "WaitPlayerAct", idx |-> i, able |-> a, canPass |-> p, late |-> FALSE]
WaitChuSt(i)     == [st |-> "WaitPlayerChu", idx |-> i]
DoSt(a,i,v,h)    == [st |-> "DoPlayerAct", act |-> a, idx |-> i, invoke |-> v, huIdxs |-> h]
AskSt(v,wh,wp,p,g) ==
  [st |-> "AskForHuAndPeng", invoke |-> v, waitHu |-> wh, waitPeng |-> wp,
   peng |-> p, gang |-> g, doHu |-> <<>>, doPeng |-> "None"]
RobotSt(v,w)     == [st |-> "AskForRobotGang", invoke |-> v, wait |-> w, doHu |-> <<>>]
SupplySt(w,t,i)  ==
  [st |-> "WaitSupplyCoin", wait |-> w, target |-> t, idx |-> i, late |-> FALSE]

(* Seats that still take part: XL drops the losers, XZ the winners too.    *)
(* The same filter guards the turn order, the questions and the payers.    *)
Active(s) == {i \in Seats : s[i] # "DecideLose" /\ (BloodEnd => s[i] # "AlreadyHu")}

(* isGameOver *)
GameOver(w, s) == w = 0 \/ \A i, j \in Active(s) : i = j

(* Faulty: the turn goes to the neighbour whoever he is *)
NextIn_Neighbour(i, S) == (i + 1) % SeatCnt

(* getNextActPlayerIdx: the first seat of S after seat i, 0 if there is none *)
NextIn(i, S) ==
  LET ks == {k \in i + 1 .. 2 * SeatCnt - 1 : k % SeatCnt \in S}
  IN  IF ks = {} THEN 0 ELSE (CHOOSE k \in ks : \A m \in ks : k <= m) % SeatCnt

(* getWaitSupplyCoinPlayerIdxs *)
Penniless(o, s) == {i \in o : s[i] # "DecideLose"}

(* Number of cards a seat answers for: in hand, and three per meld *)
Size(i) == hold[i] + 3 * (penged[i] + ganged[i])

(* Cards of the hand that isHaveCard() can find: number 0 is not a card *)
Real(i) == hold[i] - phantom[i]

SeqRange(q) == {q[k] : k \in DOMAIN q}

-----------------------------------------------------------------------------
(* Drawing a card and the effect of each act (MJRoomStateDoPlayerAct::doAct).  *)
(* Each operator says what becomes of cur, the wall, the hands and the flags;  *)
(* those that move coins or decide the winners also give out and status.       *)

(* Faulty: the poker does not notice that it is empty *)
Draw_NoEmptyCheck(i) == wall' = wall - 1 /\ UNCHANGED phantom

(* CMJCard::getCard returns 0 and moves nothing once the wall is empty *)
Draw(i) ==
  /\ wall' = IF wall = 0 THEN 0 ELSE wall - 1
  /\ phantom' = [phantom EXCEPT ![i] = IF wall = 0 THEN @ + 1 ELSE @]

(* IMJRoom::onPlayerMo *)
DoMo(i) ==
  /\ Draw(i)
  /\ hold' = [hold EXCEPT ![i] = @ + 1]
  /\ gangFlag' = gangFlag \ {i}
  /\ declareFlag' = declareFlag \ {i}
  /\ afterGang' = afterGang \ {i}
  /\ cur' = DoSt("Mo", i, i, <<>>)
  /\ UNCHANGED <<penged, ganged, lost>>

(* IMJRoom::onPlayerChu; a card the seat does not have is not discarded *)
DoChu(i, discarded) ==
  /\ hold' = [hold EXCEPT ![i] = IF discarded THEN @ - 1 ELSE @]
  /\ cur' = DoSt("Chu", i, i, <<>>)
  /\ UNCHANGED <<wall, penged, ganged, phantom, lost, flagVars>>

(* IMJRoom::onPlayerPeng: neither flag of the player is touched *)
DoPeng(i, v) ==
  /\ hold' = [hold EXCEPT ![i] = @ - 2]
  /\ penged' = [penged EXCEPT ![i] = @ + 1]
  /\ afterGang' = afterGang \ {i}
  /\ cur' = DoSt("Peng", i, v, <<>>)
  /\ UNCHANGED <<wall, ganged, phantom, lost, gangFlag, declareFlag>>

(* What the three kongs have in common: n cards of the hand become a kong *)
LayGang(i, a, v, n) ==
  /\ Draw(i)
  /\ hold' = [hold EXCEPT ![i] = @ - n + 1]
  /\ ganged' = [ganged EXCEPT ![i] = @ + 1]
  /\ gangFlag' = gangFlag \cup {i}
  /\ afterGang' = afterGang \cup {i}
  /\ cur' = DoSt(a, i, v, <<>>)
  /\ UNCHANGED lost

(* Seats payers each pay seat i up to what they have *)
Pay(payers, i) ==
  \E ruined \in SUBSET (payers \ out) :
    out' = (IF payers \subseteq out THEN out ELSE out \ {i}) \cup ruined

(* XLMJRoom::onPlayerMingGang *)
DoMingGang(i, v) ==
  /\ LayGang(i, "MingGang", v, 3)
  /\ Pay({v}, i)
  /\ UNCHANGED <<penged, declareFlag>>

(* XLMJRoom::onPlayerAnGang *)
DoAnGang(i) ==
  /\ LayGang(i, "AnGang", i, 4)
  /\ Pay(Active(status) \ {i}, i)
  /\ UNCHANGED <<penged, declareFlag>>

(* XLMJRoom::onPlayerBuGang *)
DoBuGang(i) ==
  /\ LayGang(i, "BuGang", i, 1)
  /\ penged' = [penged EXCEPT ![i] = @ - 1]
  /\ declareFlag' = declareFlag \ {i}
  /\ Pay(Active(status) \ {i}, i)

(* XLMJRoom::onPlayerZiMo: the winning card leaves the hand (onDoHu) *)
DoZiMo(i) ==
  /\ hold' = [hold EXCEPT ![i] = @ - 1]
  /\ status' = [status EXCEPT ![i] = "AlreadyHu"]
  /\ Pay(Active(status) \ {i}, i)
  /\ cur' = DoSt("Hu", i, i, <<i>>)
  /\ UNCHANGED <<wall, penged, ganged, phantom, lost, flagVars>>

(* Faulty: the robbed player keeps the card *)
RobCard_Keep(v, declared) == UNCHANGED <<hold, lost>>

(* onGangCardBeRobot: the card leaves the payer's hand if it is there.  A card *)
(* on which the payer declared a kong is; of a discard it may hold another.    *)
RobCard(v, declared) ==
  IF v \notin declareFlag THEN UNCHANGED <<hold, lost>>
  ELSE \E has \in BOOLEAN :
         /\ declared => has
         /\ has => Real(v) > 0
         /\ hold' = [hold EXCEPT ![v] = IF has THEN @ - 1 ELSE @]
         /\ lost' = [lost EXCEPT ![v] = IF has /\ ~declared THEN @ + 1 ELSE @]

(* Seat v pays the winners in the order they answered; the loop ends at the    *)
(* first one who takes his last coin, and the others have not won              *)
PayWinners(q, v) ==
  \E k \in 1 .. Len(q), ruined \in BOOLEAN :
    LET paid == {q[n] : n \in 1 .. k} IN
    /\ v \in out => k = 1 /\ ~ruined
    /\ k < Len(q) => v \in out \/ ruined
    /\ status' = [i \in Seats |-> IF i \in paid THEN "AlreadyHu" ELSE status[i]]
    /\ out' = IF v \in out THEN out ELSE (out \ paid) \cup (IF ruined THEN {v} ELSE {})

(* XLMJRoom::onPlayerHu                                                        *)
DoDianPao(q, v, declared) ==
  /\ RobCard(v, declared)
  /\ PayWinners(q, v)
  /\ cur' = DoSt("Hu", q[1], v, q)
  /\ UNCHANGED <<wall, penged, ganged, phantom, flagVars>>

-----------------------------------------------------------------------------
(* Entering the states that ask a question *)

(* What isHoldCardCanHu, canAnGangWithCard and canBuGangWithCard can answer *)
Able(i) ==
  {a \in SUBSET SelfActs :
     /\ "Hu" \in a => Size(i) = DealCnt + 1 /\ phantom[i] = 0
     /\ "AnGang" \in a => Real(i) >= 4
     /\ "BuGang" \in a => penged[i] > 0 /\ Real(i) > 0}

(* IMJRoom::onWaitPlayerAct, s being the statuses: a kong is offered only while *)
(* the wall lasts, and a winner is not offered a kong that changes his hand     *)
EnterWaitAct(i, s) ==
  \E a \in Able(i), p \in BOOLEAN :
    LET offers == {x \in a : x = "Hu" \/ wall > 0} IN
    /\ offers = {} => ~p
    /\ offers \cap {"Hu", "AnGang"} # {} => p
    /\ offers # {} /\ s[i] # "AlreadyHu" => p
    /\ cur' = WaitActSt(i, a, p)

(* Faulty: losers and winners are asked like everybody else *)
Winners_AnySeat(v) == {i \in Seats \ {v} : Size(i) = DealCnt /\ phantom[i] = 0}

(* Who can win on a card of seat v: canHuWitCard for the seats the scan keeps *)
Winners(v) == {i \in Active(status) \ {v} : Size(i) = DealCnt /\ phantom[i] = 0}

(* Who can pong a discard of v, and whether also kong it.  The other three      *)
(* copies are in one hand at most.  The scan ignores the pairs of a seat that   *)
(* has already won, the answer of one that is asked for a win is not filtered.  *)
Pairs(v, huers) ==
  {<<NoSeat, FALSE>>} \cup
  {p \in (Active(status) \ {v}) \X BOOLEAN :
     /\ status[p[1]] = "AlreadyHu" => p[1] \in huers
     /\ Real(p[1]) >= IF p[2] THEN 3 ELSE 2}

(* Who may be broke after doChaHuaZhu, doChaDaJiao and giveBackGangWin, which   *)
(* move coins between those who are still in                                    *)
Settled(o, s) ==
  {n \in SUBSET Seats : \A i \in Seats : s[i] = "DecideLose" => (i \in n <=> i \in o)}

(* XLMJRoom::onGameEnd settles, MJPlayer::onGameEnd clears both flags           *)
EnterGameEnd(o, s) ==
  /\ cur' = GameEnd
  /\ out' \in Settled(o, s)
  /\ gangFlag' = {} /\ declareFlag' = {}
  /\ UNCHANGED <<wall, handVars, afterGang>>

-----------------------------------------------------------------------------
(* WaitReady: players come, get ready and, at a public table, leave *)

Init ==
  /\ cur = WaitReady /\ banker = SeatCnt - 1 /\ wall = 0
  /\ status = [i \in Seats |-> "Empty"]
  /\ out = {} /\ gangFlag = {} /\ declareFlag = {} /\ afterGang = {}
  /\ hold = [i \in Seats |-> 0] /\ penged = hold /\ ganged = hold
  /\ phantom = hold /\ lost = hold

(* IMJRoom::onPlayerEnter takes the first empty seat, whatever the room state *)
Enter(i) ==
  /\ status[i] = "Empty" /\ \A j \in 0 .. i - 1 : status[j] # "Empty"
  /\ status' = [status EXCEPT ![i] = "WaitNext"]
  /\ out' = out \ {i}
  /\ UNCHANGED <<cur, banker, tableVars>>

(* XLMJRoom::onPlayerApplyLeave before or after a game: the player stands up *)
Leave(i) ==
  /\ ~HasDelegate /\ cur.st \in {"WaitReady", "GameEnd"} /\ status[i] # "Empty"
  /\ status' = [status EXCEPT ![i] = "Empty"]
  /\ hold' = [hold EXCEPT ![i] = 0] /\ penged' = [penged EXCEPT ![i] = 0]
  /\ ganged' = [ganged EXCEPT ![i] = 0] /\ phantom' = [phantom EXCEPT ![i] = 0]
  /\ lost' = [lost EXCEPT ![i] = 0] /\ afterGang' = afterGang \ {i}
  /\ out' = out \ {i}
  /\ UNCHANGED <<cur, banker, wall, gangFlag, declareFlag>>

(* MSG_PLAYER_SET_READY; the last one starts the game: willStartGame moves the  *)
(* banker, startGame deals DealCnt cards to each and one more to the banker          *)
SetReady(i) ==
  /\ cur.st = "WaitReady" /\ status[i] = "WaitNext"
  /\ LET s == [status EXCEPT ![i] = "Ready"]
         b == (banker + 1) % SeatCnt
     IN  IF \E j \in Seats : s[j] # "Ready"
         THEN status' = s /\ UNCHANGED <<cur, banker, tableVars>>
         ELSE /\ cur' = StartGame /\ banker' = b
              /\ status' = [j \in Seats |-> "CanAct"]
              /\ wall' = WallSize
              /\ hold' = [j \in Seats |-> hold[j] + IF j = b THEN DealCnt + 1 ELSE DealCnt]
              /\ gangFlag' = {} /\ declareFlag' = {}
              /\ UNCHANGED <<penged, ganged, phantom, lost, afterGang>>
  /\ UNCHANGED out

(* XLRoomStateStartGame::onStateTimeUp *)
StartGameTimeUp ==
  /\ cur.st = "StartGame"
  /\ cur' = DecideQueSt(Seats, FALSE)
  /\ UNCHANGED <<banker, status, out, tableVars>>

-----------------------------------------------------------------------------
(* WaitDecideQue: everyone names the suit he will do without.  Which suit is    *)
(* the business of module XLDecideQue; here only who is still awaited counts.   *)

(* XLRoomStateWaitDecideQue::onStateTimeUp *)
QueOver(w) ==
  IF cur.doing THEN EnterWaitAct(banker, status) ELSE cur' = DecideQueSt(w, TRUE)

(* MSG_PLAYER_DECIDE_QUE: an unknown suit counts as an answer, but is not one   *)
(* that can end the wait                                                        *)
DecideQue(i) ==
  /\ cur.st = "WaitDecideQue" /\ i \in cur.wait
  /\ \E valid \in BOOLEAN :
       IF valid /\ cur.wait = {i} THEN QueOver({})
       ELSE cur' = DecideQueSt(cur.wait \ {i}, cur.doing)
  /\ UNCHANGED <<banker, status, out, tableVars>>

QueTimeUp ==
  /\ cur.st = "WaitDecideQue"
  /\ QueOver(cur.wait)
  /\ UNCHANGED <<banker, status, out, tableVars>>

-----------------------------------------------------------------------------
(* WaitPlayerAct and WaitPlayerChu: seat cur.idx has a card to get rid of *)

MyTurn(i) == cur.st \in {"WaitPlayerAct", "WaitPlayerChu"} /\ cur.idx = i

(* XLRoomStateWaitPlayerAct::onMsg: a winner may only discard what he just drew *)
FreeToDiscard(i) == cur.st = "WaitPlayerAct" /\ status[i] = "AlreadyHu" => phantom[i] = 0

(* MSG_PLAYER_ACT, eMJAct_Chu: isHaveCard *)
Discard(i) ==
  /\ MyTurn(i) /\ Real(i) > 0 /\ FreeToDiscard(i)
  /\ DoChu(i, TRUE)
  /\ UNCHANGED <<banker, status, out>>

(* eMJAct_Hu on the own draw *)
SelfHu(i) ==
  /\ MyTurn(i) /\ cur.st = "WaitPlayerAct" /\ "Hu" \in cur.able
  /\ DoZiMo(i)
  /\ UNCHANGED banker

(* eMJAct_AnGang: whether the wall has a card left is not asked *)
ConcealedGang(i) ==
  /\ MyTurn(i) /\ cur.st = "WaitPlayerAct" /\ "AnGang" \in cur.able
  /\ DoAnGang(i)
  /\ UNCHANGED <<banker, status>>

(* eMJAct_BuGang and eMJAct_BuGang_Declare: the flag is raised first, then the  *)
(* others are asked; when none can win, "declare" is an act doAct() ignores     *)
AddedGang(i, act) ==
  /\ MyTurn(i) /\ cur.st = "WaitPlayerAct" /\ "BuGang" \in cur.able
  /\ \E robbers \in SUBSET Winners(i) :
       IF robbers = {} /\ act = "BuGang"
       THEN DoBuGang(i) /\ UNCHANGED <<banker, status>>
       ELSE /\ cur' = IF robbers = {} THEN DoSt(act, i, i, <<>>) ELSE RobotSt(i, robbers)
            /\ declareFlag' = declareFlag \cup {i}
            /\ UNCHANGED <<banker, status, out, wall, handVars, gangFlag, afterGang>>

(* The timer: at a private table it runs 10^8 seconds, for winners one second   *)
TurnTimer == ~HasDelegate \/ (cur.st = "WaitPlayerAct" /\ status[cur.idx] = "AlreadyHu")

(* The timers of WaitPlayerAct and WaitSupplyCoin can be restarted by messages. *)
(* `late': the timer is about to expire (IMJRoomState::update), but a message    *)
(* that restarts it may still come first.  Every other timer only runs once, so *)
(* that its time-up needs no such phase.                                        *)
TimeRunsDown ==
  /\ \/ cur.st = "WaitPlayerAct" /\ TurnTimer
     \/ cur.st = "WaitSupplyCoin"
  /\ ~cur.late /\ cur' = [cur EXCEPT !.late = TRUE]
  /\ UNCHANGED <<banker, status, out, tableVars>>

(* eMJAct_Pass on the own turn: nothing but a new term for the same turn *)
PassTurn(i) ==
  /\ MyTurn(i) /\ cur.st = "WaitPlayerAct"
  /\ cur' = [cur EXCEPT !.late = FALSE]
  /\ UNCHANGED <<banker, status, out, tableVars>>

(* MJRoomStateWaitPlayerAct::onStateTimeUp: a first time-up withdraws the offer *)
(* (a winner's own acts are taken for him, see WinnerTimeUp), the next discards *)
TurnTimeUp ==
  /\ cur.st = "WaitPlayerAct" /\ cur.late
  /\ status[cur.idx] = "AlreadyHu" /\ cur.canPass => "Hu" \notin cur.able
  /\ IF cur.canPass
     THEN cur' = [cur EXCEPT !.canPass = FALSE, !.late = FALSE] /\ UNCHANGED tableVars
     ELSE \E real \in BOOLEAN : (phantom[cur.idx] = 0 => real) /\ DoChu(cur.idx, real)
  /\ UNCHANGED <<banker, status, out>>

(* XLRoomStateWaitPlayerAct::onStateTimeUp: what it does for a winner *)
WinnerTimeUp ==
  /\ cur.st = "WaitPlayerAct" /\ cur.late
  /\ status[cur.idx] = "AlreadyHu" /\ cur.canPass
  /\ IF "Hu" \in cur.able THEN SelfHu(cur.idx)
     ELSE ConcealedGang(cur.idx) \/ AddedGang(cur.idx, "BuGang")

(* MJRoomStateWaitPlayerChu::onStateTimeUp *)
ChuTimeUp ==
  /\ cur.st = "WaitPlayerChu" /\ TurnTimer
  /\ DoChu(cur.idx, TRUE)
  /\ UNCHANGED <<banker, status, out>>

-----------------------------------------------------------------------------
(* AskForHuAndPeng: the others may claim the discard of seat cur.invoke *)

(* Faulty: the pong or kong goes before the win *)
ClaimAct_PengFirst(c) ==
  \/ /\ c.doPeng = "None"
     /\ DoDianPao(c.doHu, c.invoke, FALSE)
  \/ /\ c.doPeng = "Peng"
     /\ DoPeng(c.peng, c.invoke)
     /\ UNCHANGED <<status, out>>
  \/ /\ c.doPeng = "MingGang"
     /\ DoMingGang(c.peng, c.invoke)
     /\ UNCHANGED status

(* MJRoomStateAskForPengOrHu::doAct: a win goes before a pong or kong *)
ClaimAct(c) ==
  \/ /\ c.doHu # <<>>
     /\ DoDianPao(c.doHu, c.invoke, FALSE)
  \/ /\ c.doHu = <<>> /\ c.doPeng = "Peng"
     /\ DoPeng(c.peng, c.invoke)
     /\ UNCHANGED <<status, out>>
  \/ /\ c.doHu = <<>> /\ c.doPeng = "MingGang"
     /\ DoMingGang(c.peng, c.invoke)
     /\ UNCHANGED status

Claimed(c) == c.doHu # <<>> \/ c.doPeng # "None"

(* onStateTimeUp: with an empty wall the game is over before any claim is done *)
AskOver(c) ==
  \/ /\ GameOver(wall, status)
     /\ EnterGameEnd(out, status)
     /\ UNCHANGED status
  \/ ~GameOver(wall, status) /\ Claimed(c) /\ ClaimAct(c)
  \/ /\ ~GameOver(wall, status) /\ ~Claimed(c)
     /\ DoMo(NextIn(c.invoke, Active(status)))
     /\ UNCHANGED <<status, out>>

(* Faulty: a seat that answers the win is still awaited for its pong *)
Answered_StillPeng(c0, i) ==
  LET c == [c0 EXCEPT !.waitHu = @ \ {i},
                      !.waitPeng = IF i \in c0.waitHu THEN @ ELSE @ \ {i}] IN
  /\ UNCHANGED banker
  /\ \/ /\ c.waitHu # {} \/ c.waitPeng # {}
        /\ cur' = c
        /\ UNCHANGED <<status, out, tableVars>>
     \/ /\ c.waitHu = {} /\ c.waitPeng = {}
        /\ IF Claimed(c) THEN ClaimAct(c) ELSE AskOver(c)

(* The end of onMsg, c being the state after the answer of seat i is noted *)
Answered(c0, i) ==
  LET c == [c0 EXCEPT !.waitHu = @ \ {i}, !.waitPeng = @ \ {i}] IN
  /\ UNCHANGED banker
  /\ \/ /\ c.waitHu # {} \/ (c.doHu = <<>> /\ c.waitPeng # {})
        /\ cur' = c
        /\ UNCHANGED <<status, out, tableVars>>
     \/ /\ c.waitHu = {} /\ (c.doHu # <<>> \/ c.waitPeng = {})
        /\ IF Claimed(c) THEN ClaimAct(c) ELSE AskOver(c)

Asked(i) == cur.st = "AskForHuAndPeng" /\ i \in cur.waitHu \cup cur.waitPeng

ClaimHu(i) ==
  /\ Asked(i) /\ i \in cur.waitHu
  /\ Answered([cur EXCEPT !.doHu = Append(@, i)], i)

(* A pong needs canPengWithCard, a kong canMingGangWithCard and nothing else *)
ClaimPeng(i, act) ==
  /\ Asked(i) /\ i = cur.peng /\ (act = "MingGang" => cur.gang)
  /\ Answered([cur EXCEPT !.doPeng = act], i)

ClaimPass(i) == Asked(i) /\ Answered(cur, i)

AskTimeUp ==
  /\ cur.st = "AskForHuAndPeng" /\ ~HasDelegate
  /\ AskOver(cur)
  /\ UNCHANGED banker

-----------------------------------------------------------------------------
(* AskForRobotGang: the others may win on the card of a declared kong *)

Robbed(i) == cur.st = "AskForRobotGang" /\ i \in cur.wait

(* The end of onMsg: only the last answer decides *)
RobotAnswered(q, i) ==
  \/ /\ cur.wait # {i}
     /\ cur' = [cur EXCEPT !.wait = @ \ {i}, !.doHu = q]
     /\ UNCHANGED <<banker, status, out, tableVars>>
  \/ cur.wait = {i} /\ q = <<>> /\ DoBuGang(cur.invoke) /\ UNCHANGED <<banker, status>>
  \/ cur.wait = {i} /\ q # <<>> /\ DoDianPao(q, cur.invoke, TRUE) /\ UNCHANGED banker

RobotHu(i)   == Robbed(i) /\ RobotAnswered(Append(cur.doHu, i), i)
RobotPass(i) == Robbed(i) /\ RobotAnswered(cur.doHu, i)

(* onStateTimeUp: the kong goes ahead, whoever has declared a win *)
RobotTimeUp ==
  /\ cur.st = "AskForRobotGang" /\ ~HasDelegate
  /\ DoBuGang(cur.invoke)
  /\ UNCHANGED <<banker, status>>

-----------------------------------------------------------------------------
(* DoPlayerAct: the act is done, its animation time runs out *)

Doing(acts) == cur.st = "DoPlayerAct" /\ cur.act \in acts

MoDone ==
  /\ Doing({"Mo"})
  /\ EnterWaitAct(cur.idx, status)
  /\ UNCHANGED <<banker, status, out, tableVars>>

PengDone ==
  /\ Doing({"Peng"})
  /\ cur' = WaitChuSt(cur.idx)
  /\ UNCHANGED <<banker, status, out, tableVars>>

(* XLRoomStateDoPlayerAct::onStateTimeUp: after a kong somebody may be broke;   *)
(* then a melded kong goes on to a discard, the other kongs to an act           *)
GangDone ==
  /\ Doing(Gangs \cup {"BuGang_Declare"})
  /\ LET w == Penniless(out, status) IN
     IF w = {} THEN EnterWaitAct(cur.idx, status)
     ELSE cur' = SupplySt(w, IF cur.act = "MingGang" THEN "WaitPlayerChu" ELSE "WaitPlayerAct", cur.idx)
  /\ UNCHANGED <<banker, status, out, tableVars>>

(* Faulty: the search for the next one passes over all who have ever won, and   *)
(* finds nobody when everyone has                                               *)
HuDone_PassesWinners ==
  /\ Doing({"Hu"})
  /\ UNCHANGED <<banker, status>>
  /\ \/ GameOver(wall, status) /\ EnterGameEnd(out, status)
     \/ /\ ~GameOver(wall, status)
        /\ LET winners == SeqRange(cur.huIdxs)
               last    == CHOOSE i \in winners : \A j \in winners : j <= i
               rest    == {i \in Active(status) \ winners : status[i] # "AlreadyHu"}
               next    == NextIn(last, rest)
               w       == Penniless(out, status)
           IN  /\ rest # {}
               /\ IF w = {} THEN DoMo(next)
                  ELSE cur' = SupplySt(w, "DoPlayerAct", next) /\ UNCHANGED tableVars
        /\ UNCHANGED out

(* After a win the next to draw is the first seat still in the game behind the  *)
(* winner with the highest index, the winners of this card excepted             *)
HuDone ==
  /\ Doing({"Hu"})
  /\ UNCHANGED <<banker, status>>
  /\ \/ GameOver(wall, status) /\ EnterGameEnd(out, status)
     \/ /\ ~GameOver(wall, status)
        /\ LET winners == SeqRange(cur.huIdxs)
               last    == CHOOSE i \in winners : \A j \in winners : j <= i
               rest    == Active(status) \ winners
               next    == NextIn(last, rest)
               w       == Penniless(out, status)
           IN  /\ rest # {}
               /\ IF w = {} THEN DoMo(next)
                  ELSE cur' = SupplySt(w, "DoPlayerAct", next) /\ UNCHANGED tableVars
        /\ UNCHANGED out

(* isAnyPlayerPengOrHuThisCard, and onAskForPengOrHuThisCard when it says yes *)
ChuDone ==
  /\ Doing({"Chu"})
  /\ UNCHANGED <<banker, status>>
  /\ \E huers \in SUBSET Winners(cur.idx) : \E pair \in Pairs(cur.idx, huers) :
       LET p == pair[1]
           waitPeng == {i \in {p} \ {NoSeat} : status[i] # "AlreadyHu"}
       IN  \/ /\ huers \cup waitPeng # {}
              /\ cur' = AskSt(cur.idx, huers, waitPeng, p, pair[2])
              /\ UNCHANGED <<out, tableVars>>
           \/ /\ huers \cup waitPeng = {}
              /\ \/ GameOver(wall, status) /\ EnterGameEnd(out, status)
                 \/ /\ ~GameOver(wall, status)
                    /\ DoMo(NextIn(cur.idx, Active(status)))
                    /\ UNCHANGED out

-----------------------------------------------------------------------------
(* WaitSupplyCoin: the broke buy coins or give up *)

(* Faulty: the end of the game is only looked for when somebody wins *)
SupplyOver_GoOn(s, o) ==
  /\ out' = o
  /\ \/ /\ cur.target = "DoPlayerAct"
        /\ DoMo(IF s[cur.idx] = "DecideLose" THEN NextIn(cur.idx, Active(s)) ELSE cur.idx)
     \/ cur.target = "WaitPlayerAct" /\ EnterWaitAct(cur.idx, s) /\ UNCHANGED tableVars
     \/ cur.target = "WaitPlayerChu" /\ cur' = WaitChuSt(cur.idx) /\ UNCHANGED tableVars

(* The end of onStateTimeUp, s and o being the statuses and the broke after it. *)
(* Only the target DoPlayerAct looks whether its seat gave up.                  *)
SupplyOver(s, o) ==
  \/ GameOver(wall, s) /\ EnterGameEnd(o, s)
  \/ /\ ~GameOver(wall, s) /\ out' = o
     /\ \/ /\ cur.target = "DoPlayerAct"
           /\ DoMo(IF s[cur.idx] = "DecideLose" THEN NextIn(cur.idx, Active(s)) ELSE cur.idx)
        \/ cur.target = "WaitPlayerAct" /\ EnterWaitAct(cur.idx, s) /\ UNCHANGED tableVars
        \/ cur.target = "WaitPlayerChu" /\ cur' = WaitChuSt(cur.idx) /\ UNCHANGED tableVars

(* Faulty: the first answer ends the wait *)
SupplyLeft_First(w, s, o) == SupplyOver(s, o)

(* onMsg and onMessage: the last answer ends the wait *)
SupplyLeft(w, s, o) ==
  IF w = {} THEN SupplyOver(s, o)
  ELSE cur' = [cur EXCEPT !.wait = w] /\ out' = o /\ UNCHANGED tableVars

(* Faulty: who has paid up is still awaited *)
AddCoin_StillAwaited(i) ==
  /\ cur.st = "WaitSupplyCoin" /\ status[i] # "Empty" /\ ~HasDelegate
  /\ SupplyLeft(cur.wait, status, out \ {i})
  /\ UNCHANGED <<banker, status>>

(* MSG_SYNC_IN_GAME_ADD_COIN, which a private table does not process; whoever is *)
(* not awaited gets his coins all the same                                      *)
AddCoin(i) ==
  /\ cur.st = "WaitSupplyCoin" /\ status[i] # "Empty" /\ ~HasDelegate
  /\ IF i \in cur.wait THEN SupplyLeft(cur.wait \ {i}, status, out \ {i})
     ELSE out' = out \ {i} /\ UNCHANGED <<cur, tableVars>>
  /\ UNCHANGED <<banker, status>>

(* A payment that leaves the player without a coin starts the wait anew *)
PaysTooLittle(i) ==
  /\ cur.st = "WaitSupplyCoin" /\ i \in cur.wait /\ ~HasDelegate
  /\ cur' = [cur EXCEPT !.late = FALSE]
  /\ UNCHANGED <<banker, status, out, tableVars>>

(* MSG_PLAYER_DECIDE_LOSE *)
DecideLose(i) ==
  /\ cur.st = "WaitSupplyCoin" /\ i \in cur.wait
  /\ status' = [status EXCEPT ![i] = "DecideLose"]
  /\ SupplyLeft(cur.wait \ {i}, status', out)
  /\ UNCHANGED banker

SupplyTimeUp ==
  /\ cur.st = "WaitSupplyCoin" /\ cur.late
  /\ status' = [i \in Seats |-> IF i \in cur.wait THEN "DecideLose" ELSE status[i]]
  /\ SupplyOver(status', out)
  /\ UNCHANGED banker

-----------------------------------------------------------------------------
(* GameEnd *)

(* XLMJRoom::onGameDidEnd: a public table sends everybody away and deletes the  *)
(* players, at a private one they stay for the next game                        *)
GameEndTimeUp ==
  /\ cur.st = "GameEnd"
  /\ cur' = WaitReady
  /\ hold' = [i \in Seats |-> 0] /\ penged' = hold' /\ ganged' = hold'
  /\ phantom' = hold' /\ lost' = hold' /\ afterGang' = {}
  /\ IF HasDelegate
     THEN status' = [i \in Seats |-> IF status[i] = "Empty" THEN "Empty" ELSE "WaitNext"] /\ UNCHANGED out
     ELSE status' = [i \in Seats |-> "Empty"] /\ out' = {}
  /\ UNCHANGED <<banker, wall, gangFlag, declareFlag>>

TimeUp ==
  \/ StartGameTimeUp \/ QueTimeUp \/ TimeRunsDown \/ TurnTimeUp \/ WinnerTimeUp \/ ChuTimeUp
  \/ AskTimeUp \/ RobotTimeUp \/ MoDone \/ PengDone \/ GangDone \/ HuDone
  \/ ChuDone \/ SupplyTimeUp \/ GameEndTimeUp

Message(i) ==
  \/ Enter(i) \/ Leave(i) \/ SetReady(i) \/ DecideQue(i)
  \/ Discard(i) \/ SelfHu(i) \/ ConcealedGang(i) \/ PassTurn(i)
  \/ AddedGang(i, "BuGang") \/ AddedGang(i, "BuGang_Declare")
  \/ ClaimHu(i) \/ ClaimPeng(i, "Peng") \/ ClaimPeng(i, "MingGang") \/ ClaimPass(i)
  \/ RobotHu(i) \/ RobotPass(i)
  \/ AddCoin(i) \/ PaysTooLittle(i) \/ DecideLose(i)

Next == TimeUp \/ \E i \in Seats : Message(i)

Spec == Init /\ [][Next]_vars

-----------------------------------------------------------------------------
(* What makes the table correct *)

InGame == cur.st \notin {"WaitReady", "GameEnd"}

(* The seat that holds one card more than the others, NoSeat if none does: it   *)
(* has drawn or melded and not discarded yet                                    *)
Burdened ==
  CASE cur.st \in {"StartGame", "WaitDecideQue"} -> banker
    [] cur.st \in {"WaitPlayerAct", "WaitPlayerChu"} -> cur.idx
    [] cur.st = "AskForRobotGang" -> cur.invoke
    [] cur.st = "DoPlayerAct" /\ cur.act \notin {"Chu", "Hu"} -> cur.idx
    [] cur.st = "WaitSupplyCoin" /\ cur.target # "DoPlayerAct" -> cur.idx
    [] OTHER -> NoSeat

(* The seats the table is waiting for a decision of *)
AskedSeats ==
  CASE cur.st \in {"WaitPlayerAct", "WaitPlayerChu"} -> {cur.idx}
    [] cur.st = "AskForHuAndPeng" -> cur.waitHu \cup cur.waitPeng
    [] cur.st = "AskForRobotGang" -> cur.wait
    [] OTHER -> {}

(* The values of cur: one set of records per room state *)
DecideQueStates == [st : {"WaitDecideQue"}, wait : SUBSET Seats, doing : BOOLEAN]
WaitActStates   ==
  [st : {"WaitPlayerAct"}, idx : Seats, able : SUBSET SelfActs,
   canPass : BOOLEAN, late : BOOLEAN]
WaitChuStates   == [st : {"WaitPlayerChu"}, idx : Seats]
DoStates        ==
  [st : {"DoPlayerAct"}, act : Acts, idx : Seats, invoke : Seats, huIdxs : Seq(Seats)]
AskStates       ==
  [st : {"AskForHuAndPeng"}, invoke : Seats, waitHu : SUBSET Seats, waitPeng : SUBSET Seats,
   peng : Seats \cup {NoSeat}, gang : BOOLEAN, doHu : Seq(Seats),
   doPeng : {"None", "Peng", "MingGang"}]
RobotStates     ==
  [st : {"AskForRobotGang"}, invoke : Seats, wait : SUBSET Seats, doHu : Seq(Seats)]
SupplyStates    ==
  [st : {"WaitSupplyCoin"}, wait : SUBSET Seats, idx : Seats,
   target : {"DoPlayerAct", "WaitPlayerAct", "WaitPlayerChu"}, late : BOOLEAN]

RoomStates ==
  {WaitReady, StartGame, GameEnd} \cup DecideQueStates \cup WaitActStates
  \cup WaitChuStates \cup DoStates \cup AskStates \cup RobotStates \cup SupplyStates

(* Every member of the current room state and of the players has its type: in   *)
(* particular every turn belongs to a seat and every list of winners to seats.  *)
TypeOK ==
  /\ cur \in RoomStates
  /\ banker \in Seats /\ wall \in 0 .. WallSize
  /\ status \in [Seats -> Statuses] /\ out \subseteq Seats
  /\ hold \in [Seats -> Int] /\ penged \in [Seats -> Int]
  /\ ganged \in [Seats -> Nat] /\ phantom \in [Seats -> Nat] /\ lost \in [Seats -> Nat]
  /\ gangFlag \subseteq Seats /\ declareFlag \subseteq Seats /\ afterGang \subseteq Seats

(* Cards a seat has beyond a hand of DealCnt, the cards it was robbed of after  *)
(* a discard (lost, see the README) included; a burdened seat may have one.     *)
Surplus(i) == Size(i) + lost[i] - DealCnt
Excess(i)  == Surplus(i) - (IF i = Burdened THEN 1 ELSE 0)

(* Every hand has its size at every moment of a game, whoever drew, melded, won *)
(* or was robbed: a draw too many or a card not taken away leaves a player who  *)
(* can never win.  Only the number 0 drawn from an empty wall, which cannot be  *)
(* discarded, may stay behind as an excess card.                                *)
HandSizes == InGame => \A i \in Seats : Excess(i) \in 0 .. phantom[i]

(* Only players who are still in the game are asked for an act or an answer: a  *)
(* loser (and at a XZMJRoom a winner) between the turn and the question would   *)
(* hold up the table.                                                           *)
OnlyActiveAsked == AskedSeats \subseteq Active(status)

(* Nobody goes on playing without a coin: whoever was ruined by a kong or a win *)
(* has paid up or given up before the next decision.                            *)
NobodyPlaysBroke == AskedSeats # {} => Penniless(out, status) = {}

(* The wait for coins is a wait for exactly those who are broke and have not    *)
(* given up, and for at least one: an answer out of turn changes both sides.    *)
SupplyWaitsForBroke ==
  cur.st = "WaitSupplyCoin" => cur.wait = Penniless(out, status) /\ cur.wait # {}

(* A decision is only asked for while two players are left to play.             *)
EnoughPlayers ==
  AskedSeats # {} => \E i, j \in Active(status) : i # j

(* A seat answers a discard or a declared kong once: it is never both awaited   *)
(* and among the winners, never there twice, and never the one who played it.   *)
ClaimOnce ==
  cur.st \in {"AskForHuAndPeng", "AskForRobotGang"} =>
    LET q == cur.doHu IN
    /\ AskedSeats \cap SeqRange(q) = {} /\ cur.invoke \notin AskedSeats \cup SeqRange(q)
    /\ \A m, n \in DOMAIN q : q[m] = q[n] => m = n
    /\ cur.st = "AskForHuAndPeng" /\ cur.doPeng # "None" => cur.peng \notin AskedSeats

AskLeft == cur.st \in {"AskForHuAndPeng", "AskForRobotGang"} /\ cur'.st # cur.st
WinNext == cur'.st = "DoPlayerAct" /\ cur'.act = "Hu"

(* While the wall lasts a win declared on a discard is carried out, whatever    *)
(* the others answer and even when some of them never answer.                   *)
WinBeforeClaims ==
  [][AskLeft /\ cur.st = "AskForHuAndPeng" /\ cur.doHu # <<>> /\ wall > 0 => WinNext]_vars

(* The stronger promise of MJRoomStateAskForPengOrHu.h:50 ("some body time out, *)
(* but have player do act"): a declared win is never dropped.                   *)
DeclaredWinIsDone == [][AskLeft /\ cur.doHu # <<>> => WinNext]_vars

(* XLMJRoom.cpp:383 doubles a win for robbing a kong or for the discard after a *)
(* kong.  The discard of a seat whose last draw or meld was no kong is neither. *)
DoubledOnlyAfterGang ==
  [][AskLeft /\ cur.st = "AskForHuAndPeng" /\ WinNext
       => (cur.invoke \in gangFlag \cup declareFlag => cur.invoke \in afterGang)]_vars

(* At a XZMJRoom a winner is out of the game: nothing he holds changes again.   *)
WinnersHandFrozen ==
  [][InGame /\ InGame' =>
       \A i \in Seats : status[i] = "AlreadyHu" /\ BloodEnd =>
         Size(i)' = Size(i) /\ hold'[i] = hold[i]]_vars

(* What a player can do without an end: declare a kong that he never lays, pass *)
(* on his own turn and pay too little to go on; the last two restart a timer.   *)
Stalling ==
  \E i \in Seats : AddedGang(i, "BuGang_Declare") \/ PassTurn(i) \/ PaysTooLittle(i)

(* Every game comes to its end at a public table, where every wait has a timer, *)
(* provided nobody stalls for ever: it cannot be held up in any other way.      *)
GameEnds  == <>[][~Stalling]_vars => (cur.st = "StartGame" ~> cur.st = "GameEnd")

LiveSpec == Spec /\ WF_vars(TimeUp)
=============================================================================
