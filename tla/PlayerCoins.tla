------------------------------ MODULE PlayerCoins ------------------------------
(***************************************************************************)
(* The coins of one player, kept twice: by DataServer (CPlayerBaseData)    *)
(* and, while he sits there, by a public table of MJServer (MJPlayer).  A  *)
(* private table plays for points of its own, and its room keeps the coins *)
(* he came with (MJPrivateRoom).                                           *)
(*                                                                         *)
(* DataServer sends a player to a table with his coins and passes coins he *)
(* gets there on to the table.  The table tells it of every settlement by  *)
(* a request that is repeated until it is answered (AsyncRequest), and of  *)
(* his last coins when he leaves.  Everything else is sent once and taken  *)
(* to arrive; XLSettle has the settlements, Seats the sessions and the     *)
(* disconnections, which are left out: this player stays connected.        *)
(***************************************************************************)
EXTENDS Integers, Sequences

CONSTANTS
  NoRoom,      \* no room; in a request to enter, any public table
  StartCoin,   \* the coins of the player in the beginning
  Points,      \* m_nInitCoin, the points he is given in a private room
  DeskFee,     \* nDeskFee of the public table
  MaxGifts,    \* bound: coins got and spent outside the games
  MaxSettles,  \* bound: settlements
  MaxLosses,   \* bound: lost requests and answers
  MaxQueue     \* bound: the player acts while fewer messages of his are under way

Rooms == {"public", "private"}
MaybeRoom == Rooms \cup {NoRoom}

ASSUME CoinsAssumption ==
  /\ NoRoom \notin Rooms
  /\ {StartCoin, Points, DeskFee, MaxGifts, MaxSettles, MaxLosses, MaxQueue} \subseteq Nat

VARIABLES
  coin,      \* DataServer: m_stBaseData.nCoin
  game,      \* DataServer: m_ePlayerGameState
  at,        \* DataServer: m_nStateInRoomID
  toMJ, toDS,
  seat,      \* m_nCoin of the player at each table, Empty if he has no seat
  loser,     \* at the public table: "no", "lost", or "gone" (lost and left)
  real,      \* nRealCoin of his record in the private room
  running,   \* the numbers and coins of the requests not yet answered
  settles,   \* the number of the last of them
  due,       \* history: what he would have if every coin arrived
  vanished,  \* history: the coins he got that did not
  flaw,      \* history: what has gone wrong, see CoinsDue
  heard,     \* history: the requests that DataServer has newer news than
  gifts, losses   \* history: for the bounds

server == <<coin, game, at>>
tables == <<seat, loser, real, running, settles>>
bounds == <<gifts, losses>>
vars == <<server, tables, toMJ, toDS, due, vanished, flaw, heard, bounds>>

Empty == -1

Init ==
  /\ coin = StartCoin /\ game = "NotIn" /\ at = NoRoom
  /\ toMJ = <<>> /\ toDS = <<>>
  /\ seat = [r \in Rooms |-> Empty] /\ loser = "no" /\ real = 0
  /\ running = {} /\ settles = 0
  /\ due = StartCoin /\ vanished = 0 /\ flaw = {} /\ heard = 0
  /\ gifts = 0 /\ losses = 0

Slack == Len(toMJ) + Len(toDS) < MaxQueue

\* The player is in no room, and nothing that concerns him is on its way
Quiet == game = "NotIn" /\ toMJ = <<>> /\ toDS = <<>>

\* Nor does he sit at a table that has not reported him yet
Settled == Quiet /\ (seat["public"] = Empty \/ loser = "gone") /\ seat["private"] = Empty

-----------------------------------------------------------------------------
(* DataServer: the player's own doing.                                     *)

\* MSG_REQ_ENTER_ROOM: the table is told his coins
AskEnter ==
  /\ game # "Entering" /\ Slack
  /\ \E r \in MaybeRoom :
       /\ game = "StayIn" => r = at
       /\ toMJ' = Append(toMJ, [kind |-> "enter", room |-> r, n |-> coin])
  /\ game' = "Entering" /\ at' = NoRoom
  /\ UNCHANGED <<coin, toDS, tables, due, vanished, flaw, heard, bounds>>

\* AddMoney: to a player who is in a room, or is entering one, the coins are sent
\* after him
AddMoney(n) ==
  IF game = "NotIn" THEN coin' = coin + n /\ UNCHANGED toMJ
  ELSE /\ toMJ' = Append(toMJ, [kind |-> "add", room |-> at, n |-> n])
       /\ UNCHANGED coin

\* He buys or is given a coin
Gift ==
  /\ gifts < MaxGifts /\ Slack /\ AddMoney(1)
  /\ gifts' = gifts + 1 /\ due' = due + 1
  /\ flaw' = IF game = "NotIn" /\ ~Settled THEN flaw \cup {"changed while forgotten"} ELSE flaw
  /\ UNCHANGED <<game, at, toDS, tables, vanished, heard, losses>>

\* decressMoney: he pays a coin of those DataServer has, also while he is in a room
Spend ==
  /\ gifts < MaxGifts /\ coin > 0
  /\ coin' = coin - 1 /\ due' = due - 1 /\ gifts' = gifts + 1
  /\ flaw' = CASE game # "NotIn" -> flaw \cup {"spent in a room"}
             [] game = "NotIn" /\ ~Settled -> flaw \cup {"changed while forgotten"}
             [] OTHER -> flaw
  /\ UNCHANGED <<game, at, toMJ, toDS, tables, vanished, heard, losses>>

-----------------------------------------------------------------------------
(* MJServer: the tables.                                                   *)

\* num and as are no part of the message, they are there for heard and flaw: as is "gone"
\* in the reports of a loser after the first
Report(r, n) == [kind |-> "doLeave", room |-> r, n |-> n, num |-> settles,
                 as |-> IF r = "public" THEN loser ELSE "no"]

\* One who has a seat comes back to it, with the coins it has; the record of the
\* private room gets those he comes with
ComeBack(msg) ==
  \E r \in Rooms :
    /\ seat[r] # Empty /\ msg.room = r
    /\ r = "public" => loser = "no"
    /\ real' = IF r = "private" THEN msg.n ELSE real
    /\ flaw' = IF r = "private" /\ msg.n # real
               THEN flaw \cup {"came back to a private table"} ELSE flaw
    /\ toDS' = Append(toDS, [kind |-> "answer", room |-> r])
    /\ UNCHANGED seat

SitDown(msg) ==
  \E r \in Rooms :
    /\ seat[r] = Empty
    /\ msg.room = r \/ (msg.room = NoRoom /\ r = "public")
    /\ seat' = [seat EXCEPT ![r] = IF r = "private" THEN Points ELSE msg.n]
    /\ real' = IF r = "private" THEN msg.n ELSE real
    /\ toDS' = Append(toDS, [kind |-> "answer", room |-> r])
    /\ UNCHANGED flaw

\* Refused for his coins, or because the room is full or there is none, and always
\* when he has lost the hand of the table
Refuse(msg) ==
  /\ msg.room \in Rooms => seat[msg.room] = Empty \/ (msg.room = "public" /\ loser # "no")
  /\ toDS' = Append(toDS, [kind |-> "answer", room |-> NoRoom])
  /\ UNCHANGED <<seat, real, flaw>>

ServeEnter ==
  /\ toMJ # <<>> /\ Head(toMJ).kind = "enter"
  /\ ComeBack(Head(toMJ)) \/ SitDown(Head(toMJ)) \/ Refuse(Head(toMJ))
  /\ toMJ' = Tail(toMJ)
  /\ UNCHANGED <<server, loser, running, settles, due, vanished, heard, bounds>>

\* MSG_SYNC_IN_GAME_ADD_COIN.  A public table takes the coins only if it is waiting
\* for somebody's coins, in every other state they are dropped without a word.
\* A private room sends them back, unless it has been deleted.
ServeAdd ==
  /\ toMJ # <<>> /\ Head(toMJ).kind = "add"
  /\ LET msg == Head(toMJ) IN
     \/ /\ msg.room = "public" /\ seat["public"] # Empty
        /\ seat' = [seat EXCEPT !["public"] = @ + msg.n]
        /\ vanished' = IF loser = "gone" THEN vanished + msg.n ELSE vanished
        /\ UNCHANGED toDS
     \/ /\ msg.room = "private"
        /\ toDS' = Append(toDS, [kind |-> "back", room |-> "private", n |-> msg.n])
        /\ UNCHANGED <<seat, vanished>>
     \/ /\ msg.room = "private" => seat["private"] = Empty
        /\ vanished' = vanished + msg.n
        /\ UNCHANGED <<seat, toDS>>
  /\ toMJ' = Tail(toMJ)
  /\ UNCHANGED <<server, loser, real, running, settles, due, flaw, heard, bounds>>

\* startGame: the desk fee is taken, which DataServer is not told; there is none in
\* a private room
StartGame ==
  /\ seat["public"] # Empty /\ loser = "no" /\ seat["public"] >= DeskFee
  /\ seat' = [seat EXCEPT !["public"] = @ - DeskFee]
  /\ due' = due - DeskFee
  /\ UNCHANGED <<server, toMJ, toDS, loser, real, running, settles, vanished, flaw, heard, bounds>>

Request(c) == [kind |-> "sync", num |-> settles + 1, n |-> c]

\* addOffsetCoin at one of the tables.  The points of a private table are told to
\* DataServer just as the coins of a public one.
AddOffset(r, n) ==
  /\ seat[r] # Empty /\ seat[r] + n >= 0 /\ (r = "public" => loser = "no")
  /\ settles < MaxSettles /\ settles' = settles + 1
  /\ seat' = [seat EXCEPT ![r] = @ + n]
  /\ due' = IF r = "public" THEN due + n ELSE due
  /\ running' = running \cup {Request(seat[r] + n)}
  /\ toDS' = Append(toDS, Request(seat[r] + n))
  /\ UNCHANGED <<server, toMJ, loser, real, vanished, flaw, heard, bounds>>

\* A broke player is a loser for the rest of the hand
DecideLose ==
  /\ seat["public"] = 0 /\ loser = "no" /\ loser' = "lost"
  /\ UNCHANGED <<server, toMJ, toDS, seat, real, running, settles, due, vanished, flaw, heard, bounds>>

\* onPlayerApplyLeave of a loser: reported every time, his seat stays
LoserLeaves ==
  /\ loser \in {"lost", "gone"} /\ Slack
  /\ loser' = "gone"
  /\ toDS' = Append(toDS, Report("public", seat["public"]))
  /\ UNCHANGED <<server, toMJ, seat, real, running, settles, due, vanished, flaw, heard, bounds>>

\* He leaves between two hands, or with everyone at the end of one: a loser who has
\* left is reported again
LeavePublic ==
  /\ seat["public"] # Empty
  /\ toDS' = Append(toDS, Report("public", seat["public"]))
  /\ seat' = [seat EXCEPT !["public"] = Empty] /\ loser' = "no"
  /\ UNCHANGED <<server, toMJ, real, running, settles, due, vanished, flaw, heard, bounds>>

\* He leaves a private room before its first hand, or the room is closed
LeavePrivate ==
  /\ seat["private"] # Empty
  /\ toDS' = Append(toDS, Report("private", real))
  /\ seat' = [seat EXCEPT !["private"] = Empty]
  /\ UNCHANGED <<server, toMJ, loser, real, running, settles, due, vanished, flaw, heard, bounds>>

-----------------------------------------------------------------------------
(* Requests that are lost and repeated.                                    *)

OnTheWay(req) == \E i \in DOMAIN toDS : toDS[i] = req

\* A broken link: the request is lost
Lose ==
  /\ losses < MaxLosses /\ losses' = losses + 1
  /\ \E i \in DOMAIN toDS :
       /\ toDS[i].kind = "sync"
       /\ toDS' = SubSeq(toDS, 1, i - 1) \o SubSeq(toDS, i + 1, Len(toDS))
  /\ UNCHANGED <<server, toMJ, tables, due, vanished, flaw, heard, gifts>>

\* The timer of the queue, when a request is not answered for ten seconds: by then
\* it is no longer on its way
Resend ==
  /\ Slack
  /\ \E req \in running : ~OnTheWay(req) /\ toDS' = Append(toDS, req)
  /\ UNCHANGED <<server, toMJ, tables, due, vanished, flaw, heard, bounds>>

-----------------------------------------------------------------------------
(* DataServer: what it hears.                                              *)

HearAnswer ==
  /\ toDS # <<>> /\ Head(toDS).kind = "answer"
  /\ at' = Head(toDS).room
  /\ game' = IF Head(toDS).room = NoRoom THEN "NotIn" ELSE "StayIn"
  /\ toDS' = Tail(toDS)
  /\ UNCHANGED <<coin, toMJ, tables, due, vanished, flaw, heard, bounds>>

\* MSG_SVR_DO_LEAVE_ROOM: the coins are those of the report
HearDoLeave ==
  /\ toDS # <<>> /\ Head(toDS).kind = "doLeave"
  /\ LET msg == Head(toDS) IN
     /\ coin' = msg.n /\ heard' = msg.num
     /\ flaw' = IF \/ msg.as # "gone" /\ game = "StayIn" /\ at = msg.room
                   \/ msg.as = "gone" /\ game = "NotIn" /\ coin = msg.n
                THEN flaw ELSE flaw \cup {"reported from elsewhere"}
  /\ game' = "NotIn" /\ at' = NoRoom
  /\ toDS' = Tail(toDS)
  /\ UNCHANGED <<toMJ, tables, due, vanished, bounds>>

\* eAsync_SyncPlayerRoomCoin, whose answer may be lost
HearSync ==
  /\ toDS # <<>> /\ Head(toDS).kind = "sync"
  /\ LET req == Head(toDS) IN
     /\ coin' = req.n
     /\ flaw' = IF req.num <= heard THEN flaw \cup {"an old request repeated"} ELSE flaw
     /\ heard' = IF req.num <= heard THEN heard ELSE req.num - 1
     /\ \/ running' = running \ {req} /\ UNCHANGED losses
        \/ losses < MaxLosses /\ losses' = losses + 1 /\ UNCHANGED running
  /\ toDS' = Tail(toDS)
  /\ UNCHANGED <<game, at, toMJ, seat, loser, real, settles, due, vanished, gifts>>

\* Faulty: coins that come back are always the player's own again
HearBack_Own ==
  /\ toDS # <<>> /\ Head(toDS).kind = "back"
  /\ coin' = coin + Head(toDS).n
  /\ toDS' = Tail(toDS)
  /\ UNCHANGED <<game, at, toMJ, tables, due, vanished, flaw, heard, bounds>>

\* The answer to MSG_SYNC_IN_GAME_ADD_COIN: the coins are his own again, or are sent
\* after him to the room he is in now.  Those of one who is still in the room that
\* has sent them back are lost when he leaves it.
HearBack ==
  /\ toDS # <<>> /\ Head(toDS).kind = "back"
  /\ LET msg == Head(toDS) IN
     \/ game # "NotIn" /\ at # msg.room /\ AddMoney(msg.n) /\ UNCHANGED vanished
     \/ game = "NotIn" /\ coin' = coin + msg.n /\ UNCHANGED <<toMJ, vanished>>
     \/ /\ game # "NotIn" /\ at = msg.room
        /\ coin' = coin + msg.n /\ vanished' = vanished + msg.n
        /\ UNCHANGED toMJ
  /\ toDS' = Tail(toDS)
  /\ UNCHANGED <<game, at, tables, due, flaw, heard, bounds>>

Player  == AskEnter \/ Gift \/ Spend
Table   ==
  \/ ServeEnter \/ ServeAdd \/ StartGame \/ DecideLose
  \/ \E r \in Rooms, n \in {-1, 1} : AddOffset(r, n)
  \/ LoserLeaves \/ LeavePublic \/ LeavePrivate
Network == Lose \/ Resend
Hear    == HearAnswer \/ HearDoLeave \/ HearSync \/ HearBack

Next == Player \/ Table \/ Network \/ Hear

Spec == Init /\ [][Next]_vars

-----------------------------------------------------------------------------
(* Correctness.                                                            *)

\* The coins DataServer has of a player who is in no room are those he is due, but for
\* coins that were sent after him to a table and dropped there, as long as he has not
\* spent coins in a room ("spent in a room"), has not got or spent any while DataServer
\* took him to be in no room and a table thought otherwise ("changed while forgotten"),
\* has not come back to a private table after DataServer was told its points ("came back
\* to a private table"), has not been reported by a table he was not known to be at, nor
\* again, as a loser is, with other coins or from elsewhere ("reported from elsewhere"),
\* and no lost request was repeated when there was newer news ("an old request repeated").
\* There is no other way in which settlements, desk fees, gifts, points and reports make a
\* coin or lose one.
CoinsDue == Settled /\ flaw = {} => coin = due - vanished
=============================================================================
