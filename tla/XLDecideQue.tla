---------------------------- MODULE XLDecideQue -----------------------------
(***************************************************************************)
(* The room state XLRoomStateWaitDecideQue in detail: before the first act *)
(* each player names the suit he will do without, the suits are announced, *)
(* and play starts when the time of the announcement is over.  XLMJRoom    *)
(* has this state too, but there only the seats still awaited count; here  *)
(* the suits do, and a seat's choice can be followed from the message to   *)
(* the announcement and beyond it.                                         *)
(***************************************************************************)
EXTENDS Integers, FiniteSets

CONSTANTS
  SeatCnt,    \* seats at the table
  Weights     \* the weights getAutoQueType can give the cards of one suit

ASSUME QueAssumption ==
  /\ SeatCnt \in Nat \ {0}
  /\ Weights \subseteq Nat /\ Weights # {}

Seats == 0 .. SeatCnt - 1
Suits == {"Wan", "Tong", "Tiao"}

(* The types a client may send: a suit, eCT_None, or one beyond eCT_Tiao *)
Types == Suits \cup {"None", "Feng"}

VARIABLES
  phase,    \* "Wait", "Doing" (m_isDoingDingQue) or "Play" once the state is left
  wait,     \* vWaitIdx
  weight,   \* what getAutoQueType computes from the hand, per seat and suit
  que,      \* XLMJPlayerCard::m_nQueType per seat, "Max" while there is none
  told,     \* history: the suits MSG_ROOM_FINISH_DECIDE_QUE announced
  said      \* history: the first answer of each seat, "Max" while there is none

vars == <<phase, wait, weight, que, told, said>>

NoQue == [i \in Seats |-> "Max"]

(* XLMJPlayerCard::getAutoQueType: the lightest suit, ties by the order of tests *)
AutoQue(i) ==
  LET w == weight[i] IN
  IF w["Wan"] <= w["Tiao"] /\ w["Wan"] <= w["Tong"] THEN "Wan"
  ELSE IF w["Tong"] <= w["Wan"] /\ w["Tong"] <= w["Tiao"] THEN "Tong" ELSE "Tiao"

-----------------------------------------------------------------------------
(* enterState; the hands have been dealt and do not change in this state *)
Init ==
  /\ phase = "Wait" /\ wait = Seats
  /\ weight \in [Seats -> [Suits -> Weights]]
  /\ que = NoQue /\ told = NoQue /\ said = NoQue

(* Faulty: only the suits of those who answered are announced, nobody is given one *)
QueOver_NoAuto(w, q) ==
  IF phase = "Doing" THEN phase' = "Play" /\ que' = q /\ UNCHANGED told
  ELSE phase' = "Doing" /\ que' = q /\ told' = que'

(* Faulty: the suits are announced before the silent seats are given theirs *)
QueOver_ToldFirst(w, q) ==
  IF phase = "Doing" THEN phase' = "Play" /\ que' = q /\ UNCHANGED told
  ELSE /\ phase' = "Doing"
       /\ que' = [i \in Seats |-> IF i \in w THEN AutoQue(i) ELSE q[i]]
       /\ told' = q

(* onStateTimeUp, w and q being the seats still awaited and the suits named *)
QueOver(w, q) ==
  IF phase = "Doing" THEN phase' = "Play" /\ que' = q /\ UNCHANGED told
  ELSE /\ phase' = "Doing"
       /\ que' = [i \in Seats |-> IF i \in w THEN AutoQue(i) ELSE q[i]]
       /\ told' = que'

Answer(i, t) == said' = [said EXCEPT ![i] = IF @ = "Max" THEN t ELSE @]

(* Faulty: a seat that has answered is still awaited *)
Decide_KeepWaiter(i, t) ==
  /\ phase # "Play" /\ i \in wait
  /\ Answer(i, t)
  /\ IF t \in Suits
     THEN que' = [que EXCEPT ![i] = t]
     ELSE UNCHANGED que
  /\ UNCHANGED <<phase, wait, told, weight>>

(* onMsg of MSG_PLAYER_DECIDE_QUE: the waiter is struck off before the type is  *)
(* looked at, and an unknown type returns before the end of the wait is noticed *)
Decide(i, t) ==
  /\ phase # "Play" /\ i \in wait
  /\ wait' = wait \ {i}
  /\ Answer(i, t)
  /\ IF t \notin Suits THEN UNCHANGED <<phase, que, told>>
     ELSE LET q == [que EXCEPT ![i] = t] IN
          IF wait' = {} THEN QueOver(wait', q)
          ELSE que' = q /\ UNCHANGED <<phase, told>>
  /\ UNCHANGED weight

(* Faulty: the time-up waits for the answers, like the messages do *)
TimeUp_WaitsForAll ==
  phase # "Play" /\ wait = {} /\ QueOver(wait, que) /\ UNCHANGED <<wait, weight, said>>

(* The timer of the wait or of the announcement, set whenever either begins.    *)
(* vWaitIdx is not cleared: who did not answer in time is still in it.          *)
TimeUp == phase # "Play" /\ QueOver(wait, que) /\ UNCHANGED <<wait, weight, said>>

(* In "Play" the state is left: XLMJRoom goes on from there *)
Next == TimeUp \/ \E i \in Seats, t \in Types : Decide(i, t)

Spec     == Init /\ [][Next]_vars
LiveSpec == Spec /\ WF_vars(TimeUp)

-----------------------------------------------------------------------------
(* Every variable has its type *)
TypeOK ==
  /\ phase \in {"Wait", "Doing", "Play"} /\ wait \subseteq Seats
  /\ weight \in [Seats -> [Suits -> Weights]]
  /\ que \in [Seats -> Suits \cup {"Max"}] /\ told \in [Seats -> Suits \cup {"Max"}]
  /\ said \in [Seats -> Types \cup {"Max"}]

(* Once the suits are announced a seat is without one only if it sent a type    *)
(* that is no suit: whoever said nothing in time was given one.  A seat without *)
(* a suit counts as hua zhu and getQueTypeCardForChu reads past m_vCards.       *)
OnlyBadAnswerHasNoQue ==
  phase # "Wait" => \A i \in Seats : que[i] = "Max" => said[i] \in Types \ Suits

(* A suit a player named is his whatever he and the others send afterwards, and *)
(* whenever the time runs out: his first answer counts.                         *)
FirstAnswerStands == \A i \in Seats : said[i] \in Suits => que[i] = said[i]

(* What the clients were told is what the server plays with, but for a seat     *)
(* that was given a suit, and then answered during the announcement.            *)
ToldUnlessLate ==
  phase # "Wait" => \A i \in Seats : told[i] # que[i] => told[i] = AutoQue(i) /\ said[i] = que[i]

(* Play starts, though nobody need ever answer *)
PlayStarts == <>(phase = "Play")

(* The inductive invariant behind the four: exactly the seats still awaited     *)
(* have not answered, and after the announcement they have the suit given them. *)
QueInv ==
  /\ TypeOK
  /\ \A i \in Seats : i \in wait <=> said[i] = "Max"
  /\ phase # "Wait" => \A i \in wait : que[i] = AutoQue(i) /\ told[i] = AutoQue(i)
  /\ OnlyBadAnswerHasNoQue /\ FirstAnswerStands /\ ToldUnlessLate
=============================================================================
