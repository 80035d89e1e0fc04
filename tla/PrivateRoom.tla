----------------------------- MODULE PrivateRoom -----------------------------
(***************************************************************************)
(* The life of one private (VIP) room of MJServer, from its creation to    *)
(* its deletion: MJPrivateRoom around a table (IMJRoom), the part of       *)
(* MJRoomManager that lets players in and deletes closed rooms, and the    *)
(* loop of IServerApp::run that drives them: a batch of messages, then the *)
(* timers, then the update of the modules, then again.                     *)
(*                                                                         *)
(* Of the hand played at the table only its start and its end are kept     *)
(* (XLMJRoom models the rest).  m_bDoDismissRoom is not modelled: it is    *)
(* set only together with m_eState = Close, and a closed room is not       *)
(* updated, so no hand can end in it.  `stays' is what DataServer has been *)
(* told last of each player.                                               *)
(***************************************************************************)
EXTENDS Integers, FiniteSets

CONSTANTS
  Players,         \* the players who may come to this room
  Owner,           \* m_nOwnerUID
  SeatCnt,         \* nMaxSeat of the room's configuration
  Circles,         \* m_nInitCircle, the hands the room was created for
  CirclesPerCard   \* ROOM_CIRCLES_PER_VIP_ROOM_CARDS

ASSUME PlayersAssumption == IsFiniteSet(Players)
ASSUME OwnerAssumption   == Owner \in Players
ASSUME SeatsAssumption   == SeatCnt \in Nat \ {0}
\* Circles is kept in a byte; zero is refused by DataServer, which also
\* refuses a room that costs no card
ASSUME CirclesAssumption == Circles \in 1..255
ASSUME CardAssumption    == CirclesPerCard \in Nat \ {0}

VARIABLES
  phase,     \* where the main loop is: "receive", "timers" or "update"
  room,      \* "open", "closed" (m_eState Close, to be deleted) or "none"
  seated,    \* the players with a seat (m_vMJPlayers)
  recs,      \* the players with a record (m_vAllPlayers)
  ready,     \* the seated players who have set themselves ready
  playing,   \* the table has left its WaitReady state
  left,      \* m_nLeftCircle
  consumed,  \* m_bComsumedRoomCards
  charged,   \* room cards DataServer has been told to take from the owner
  billed,    \* a bill of the room has been made
  reply,     \* m_mapRecievedReply
  waiting,   \* m_bWaitDismissReply
  timer,     \* m_tWaitRepklyTimer runs
  stays      \* the players of whom DataServer heard last that they are in

table == <<seated, recs, ready>>
hands == <<playing, left, consumed, charged>>
vote  == <<reply, waiting, timer>>
vars  == <<phase, room, table, hands, billed, vote, stays>>

Replies == {"none", "agree", "disagree"}
NoReply == [p \in Players |-> "none"]

TypeOK ==
  /\ phase \in {"receive", "timers", "update"}
  /\ room \in {"open", "closed", "none"}
  /\ seated \subseteq Players /\ recs \subseteq Players
  /\ ready \subseteq seated /\ stays \subseteq Players
  /\ playing \in BOOLEAN /\ consumed \in BOOLEAN /\ billed \in BOOLEAN
  /\ left \in 0..255 /\ charged \in Nat
  /\ reply \in [Players -> Replies] /\ waiting \in BOOLEAN /\ timer \in BOOLEAN

Init ==
  /\ phase = "receive" /\ room = "open"
  /\ seated = {} /\ recs = {} /\ ready = {} /\ stays = {}
  /\ playing = FALSE /\ left = Circles /\ consumed = FALSE /\ charged = 0
  /\ billed = FALSE /\ reply = NoReply /\ waiting = FALSE /\ timer = FALSE

IsFull  == Cardinality(seated) >= SeatCnt
NotOpen == ~consumed /\ ~playing

-----------------------------------------------------------------------------
(* Coming and going.  A closed room stays in the manager's map until the   *)
(* next update and can still be entered.                                   *)

\* Faulty: checkPlayerCanEnter lets a player into a full room
Enter_Unchecked(p) ==
  /\ phase = "receive" /\ room # "none"
  /\ seated' = IF IsFull THEN seated ELSE seated \cup {p}
  /\ recs' = recs \cup {p} /\ stays' = stays \cup {p}
  /\ UNCHANGED <<phase, room, ready, hands, billed, vote>>

Enter(p) ==
  /\ phase = "receive" /\ room # "none"
  /\ p \in seated \/ ~IsFull
  /\ seated' = seated \cup {p} /\ recs' = recs \cup {p}
  /\ stays' = stays \cup {p}
  /\ UNCHANGED <<phase, room, ready, hands, billed, vote>>

\* A player who asks for a seat and gets none, and a player whom DataServer
\* takes to be in the room and who has no seat in it, is let go
LetGo(p) ==
  /\ phase = "receive" /\ p \notin seated
  /\ stays' = stays \ {p}
  /\ UNCHANGED <<phase, room, table, hands, billed, vote>>

\* Faulty: the seat is cleared and its ready flag is not
LeaveSeat_StaysReady(p) ==
  /\ phase = "receive" /\ p \in seated /\ NotOpen
  /\ seated' = seated \ {p} /\ recs' = recs \ {p}
  /\ stays' = stays \ {p}
  /\ UNCHANGED <<phase, room, ready, hands, billed, vote>>

\* Faulty: the table's state is tested and not whether a hand has been played
LeaveSeat_BetweenHands(p) ==
  /\ phase = "receive" /\ p \in seated /\ ~playing
  /\ seated' = seated \ {p} /\ recs' = recs \ {p} /\ ready' = ready \ {p}
  /\ stays' = stays \ {p}
  /\ UNCHANGED <<phase, room, hands, billed, vote>>

\* Only before the first hand does a player who leaves give up his seat;
\* afterwards he is only marked as away.  His reply is kept.
LeaveSeat(p) ==
  /\ phase = "receive" /\ p \in seated /\ NotOpen
  /\ seated' = seated \ {p} /\ recs' = recs \ {p} /\ ready' = ready \ {p}
  /\ stays' = stays \ {p}
  /\ UNCHANGED <<phase, room, hands, billed, vote>>

SetReady(p) ==
  /\ phase = "receive" /\ p \in seated \ ready /\ ~playing
  /\ playing' = (Cardinality(ready \cup {p}) = SeatCnt)
  /\ ready' = IF playing' THEN {} ELSE ready \cup {p}
  /\ UNCHANGED <<phase, room, seated, recs, left, consumed, charged, billed, vote, stays>>

-----------------------------------------------------------------------------
(* Closing the room.                                                       *)

\* onRoomGameOver: the players at the table are reported to have left, the
\* bill is made unless no hand was ever started
CloseRoom ==
  /\ stays' = stays \ (seated \cap recs)
  /\ billed' = (billed \/ ~NotOpen)

Agreeing(r) == {p \in Players : r[p] = "agree"}

\* The agreements among the replies r, an empty seat counted as one
Agreements(r) == Cardinality(Agreeing(r)) + SeatCnt - Cardinality(seated)

\* Faulty: the owner keeps his privilege between hands
OwnerDismisses_BetweenHands(r) == ~playing /\ r[Owner] = "agree"

OwnerDismisses(r) == NotOpen /\ r[Owner] = "agree"

\* The vote closes the room
Dismissed(r) == OwnerDismisses(r) \/ 2 * Agreements(r) > SeatCnt

Refused(r) == \E p \in Players : r[p] = "disagree"

\* Faulty: the timer is not cancelled
VoteOver_TimerRuns == reply' = NoReply /\ waiting' = FALSE /\ UNCHANGED timer

VoteOver == reply' = NoReply /\ waiting' = FALSE /\ timer' = FALSE

\* Faulty: the timer of the vote is set and never started
CheckReplies_NoTimer(r) ==
  \/ /\ Dismissed(r)
     /\ room' = "closed" /\ CloseRoom /\ VoteOver
  \/ /\ ~Dismissed(r) /\ Refused(r)
     /\ VoteOver /\ UNCHANGED <<room, billed, stays>>
  \/ /\ ~Dismissed(r) /\ ~Refused(r)
     /\ reply' = r /\ waiting' = TRUE
     /\ UNCHANGED <<room, billed, stays, timer>>

\* onCheckDismissReply(false) on the replies r
CheckReplies(r) ==
  \/ /\ Dismissed(r)
     /\ room' = "closed" /\ CloseRoom /\ VoteOver
  \/ /\ ~Dismissed(r) /\ Refused(r)
     /\ VoteOver /\ UNCHANGED <<room, billed, stays>>
  \/ /\ ~Dismissed(r) /\ ~Refused(r)
     /\ reply' = r /\ waiting' = TRUE
     /\ timer' = (timer \/ ~waiting)
     /\ UNCHANGED <<room, billed, stays>>

Apply(p) ==
  /\ phase = "receive" /\ p \in seated
  /\ CheckReplies([reply EXCEPT ![p] = "agree"])
  /\ UNCHANGED <<phase, table, hands>>

Reply(p) ==
  /\ phase = "receive" /\ p \in seated /\ waiting
  /\ \E a \in {"agree", "disagree"} : CheckReplies([reply EXCEPT ![p] = a])
  /\ UNCHANGED <<phase, table, hands>>

-----------------------------------------------------------------------------
(* The main loop.                                                          *)

EndReceive ==
  /\ phase = "receive" /\ phase' = "timers"
  /\ UNCHANGED <<room, table, hands, billed, vote, stays>>

\* onCheckDismissReply(true): the room is closed whatever the replies are
TimeOut ==
  /\ phase = "timers" /\ timer
  /\ phase' = "update" /\ room' = "closed" /\ CloseRoom /\ VoteOver
  /\ UNCHANGED <<table, hands>>

EndTimers ==
  /\ phase = "timers" /\ phase' = "update"
  /\ UNCHANGED <<room, table, hands, billed, vote, stays>>

\* The deletion of a closed room, with its table and its timer
Delete ==
  /\ room' = "none" /\ VoteOver
  /\ seated' = {} /\ recs' = {} /\ ready' = {} /\ playing' = FALSE

\* Faulty: the circle is counted before the cards are
CountCircle_First ==
  /\ consumed' = TRUE
  /\ left' = (left + 255) % 256
  /\ charged' = IF consumed THEN charged ELSE charged + left' \div CirclesPerCard

\* onDidGameOver counts the circle; the first one costs the room cards
CountCircle ==
  /\ consumed' = TRUE
  /\ charged' = IF consumed THEN charged ELSE charged + left \div CirclesPerCard
  /\ left' = (left + 255) % 256

\* MJRoomManager::update: the table is updated if the room is open, then the
\* room is deleted if it is closed
GameOver ==
  /\ phase = "update" /\ room = "open" /\ playing
  /\ phase' = "receive" /\ CountCircle
  /\ \/ /\ left' > 0 /\ playing' = FALSE
        /\ UNCHANGED <<room, table, billed, vote, stays>>
     \/ left' = 0 /\ CloseRoom /\ Delete

DeleteClosed ==
  /\ phase = "update" /\ room = "closed"
  /\ phase' = "receive" /\ Delete
  /\ UNCHANGED <<left, consumed, charged, billed, stays>>

\* Faulty: the list of closed rooms may be dropped before it is used
Idle_Forgets ==
  /\ phase = "update" /\ phase' = "receive"
  /\ UNCHANGED <<room, table, hands, billed, vote, stays>>

Idle ==
  /\ phase = "update" /\ room # "closed" /\ phase' = "receive"
  /\ UNCHANGED <<room, table, hands, billed, vote, stays>>

Message ==
  \E p \in Players :
     Enter(p) \/ LetGo(p) \/ LeaveSeat(p) \/ SetReady(p) \/ Apply(p) \/ Reply(p)

MainLoop == EndReceive \/ EndTimers \/ GameOver \/ DeleteClosed \/ Idle

Next == Message \/ TimeOut \/ MainLoop

Spec == Init /\ [][Next]_vars

\* A batch of messages ends and the loop goes on; the five minutes of the
\* timer run out however often the loop turns before
LiveSpec == Spec /\ WF_vars(MainLoop) /\ SF_vars(TimeOut)

-----------------------------------------------------------------------------
(* Correctness.                                                            *)

\* A player has a seat exactly when the room keeps his record (the bill and
\* the reports to DataServer are made from the records), and while the room is
\* open DataServer's last word of a player says whether he sits here.
SeatsRecorded ==
  /\ room = "none" => seated = {}
  /\ room # "none" => recs = seated
  /\ room = "open" => stays = seated

\* There are never more players than seats, and from the start of the first hand
\* until the room is deleted every seat stays taken: no departure, between hands
\* or in a vote, leaves a hole at the table.
SeatsHeld ==
  /\ Cardinality(seated) <= SeatCnt
  /\ room # "none" /\ ~NotOpen => Cardinality(seated) = SeatCnt

\* A vote waits exactly while its timer runs and somebody's agreement is kept;
\* the agreements kept are no majority and no refusal is kept, so that no vote
\* hangs that its replies have decided; it goes when the room goes.
VoteInOrder ==
  /\ timer = waiting
  /\ waiting <=> reply # NoReply
  /\ ~Refused(reply)
  /\ 2 * Cardinality(Agreeing(reply)) <= SeatCnt
  /\ room = "none" => ~waiting

\* The circles are counted once per hand and never below zero, the owner pays
\* for the whole room once, when the first hand is over, and a room he paid for
\* is not deleted without a bill, nor billed before it is closed.
BooksBalance ==
  /\ left <= Circles /\ (consumed <=> left < Circles)
  /\ charged = IF consumed THEN Circles \div CirclesPerCard ELSE 0
  /\ room = "open" => left > 0 /\ ~billed
  /\ room # "open" /\ consumed => billed

\* A message closes a room whose first hand has started only if it completes
\* a majority of agreements: the owner has no privilege any more and no empty
\* seat helps.  (The replies of players who left before the start do count.)
MajorityRules ==
  [][phase = "receive" /\ room = "open" /\ room' = "closed" /\ ~NotOpen
     => \E p \in seated : 2 * Cardinality(Agreeing(reply) \cup {p}) > SeatCnt]_vars

\* A closed room is deleted whatever its players still do in it.
ClosedRoomGoes == room = "closed" ~> room = "none"

\* Every vote comes to an end, by the replies or by the timer.
VoteEnds == waiting ~> ~waiting
=============================================================================
