-------------------------------- MODULE Seats --------------------------------
(***************************************************************************)
(* Who sits where: the seats of the public tables of MJServer              *)
(* (MJRoomManager, IMJRoom, XLMJRoom) against what DataServer remembers of *)
(* each player (CPlayerManager, CPlayer, CPlayerGameData).                 *)
(*                                                                         *)
(* DataServer passes the requests of a player on through `toMJ' and hears  *)
(* of him through `toDS'.  Each is one connection by way of CenterServer,  *)
(* so what concerns one player arrives in order; between players the order *)
(* is left open.  Messages are not lost: AsyncRequest models the loss and  *)
(* the repetition of requests, and a restart of MJServer, which empties    *)
(* its tables, is not modelled.  Of a hand only its beginning, its losers  *)
(* and its end are kept (XLMJRoom models the rest); coins are left out.    *)
(*                                                                         *)
(* A session is the connection of a client.  A player may log in on any of *)
(* them, also on one where another player is (he switches the account), or *)
(* where he was before.  Who is found by a session is whoever has it then. *)
(***************************************************************************)
EXTENDS Integers, Sequences, FiniteSets

CONSTANTS
  Players,      \* user ids
  Rooms,        \* the public tables
  NoRoom,       \* no room; in a request, any table that has a free seat
  SeatCnt,      \* getSeatCnt of each table
  Sessions,     \* the sessions that a player may come to have
  MaxQueue      \* bound: a player acts while of everybody fewer messages are under way

ASSUME NoRoomAssumption  == NoRoom \notin Rooms
ASSUME SessionAssumption == Sessions \in [Players -> SUBSET (Nat \ {0})]
ASSUME QueueAssumption   == MaxQueue \in Nat

VARIABLES
  obj,     \* the player's CPlayer: "none", "online" or "offline"
  sess,    \* m_nSessionID, 0 before the first login
  game,    \* m_ePlayerGameState
  at,      \* m_nStateInRoomID
  toMJ,    \* requests on their way to MJServer
  toDS,    \* answers and reports on their way to DataServer
  seat,    \* m_vMJPlayers: the session a player sits with, 0 if he does not
  hand,    \* the state of the table: "wait", "play" or "end"
  lost,    \* the players of a table in state eRoomPeer_DecideLose
  gone,    \* those of them who have left it, eRoomPeer_LoserLeave
  forgot,  \* history: see Forget
  misled   \* history: players whose room was told in the answer to another player

data == <<obj, sess, game, at>>
tables == <<seat, hand, lost, gone>>
history == <<forgot, misled>>
vars == <<data, toMJ, toDS, tables, history>>

MaybeRoom == Rooms \cup {NoRoom}
ToMJ == [kind : {"enter", "leave"}, room : MaybeRoom, sess : Nat]
ToDS == [kind : {"answer", "doLeave", "applied"}, room : MaybeRoom, sess : Nat]

TypeOK ==
  /\ obj \in [Players -> {"none", "online", "offline"}]
  /\ sess \in [Players -> Nat]
  /\ game \in [Players -> {"NotIn", "Entering", "StayIn"}]
  /\ at \in [Players -> MaybeRoom]
  /\ \A p \in Players : (game[p] = "StayIn") <=> (at[p] \in Rooms)
  /\ toMJ \in [Players -> Seq(ToMJ)] /\ toDS \in [Players -> Seq(ToDS)]
  /\ seat \in [Rooms -> [Players -> Nat]]
  /\ hand \in [Rooms -> {"wait", "play", "end"}]
  /\ lost \in [Rooms -> SUBSET Players] /\ gone \in [Rooms -> SUBSET Players]
  /\ \A r \in Rooms : gone[r] \subseteq lost[r]
  /\ forgot \subseteq Players /\ misled \subseteq Players

Init ==
  /\ obj = [p \in Players |-> "none"] /\ sess = [p \in Players |-> 0]
  /\ game = [p \in Players |-> "NotIn"] /\ at = [p \in Players |-> NoRoom]
  /\ toMJ = [p \in Players |-> <<>>] /\ toDS = [p \in Players |-> <<>>]
  /\ seat = [r \in Rooms |-> [p \in Players |-> 0]]
  /\ hand = [r \in Rooms |-> "wait"]
  /\ lost = [r \in Rooms |-> {}] /\ gone = [r \in Rooms |-> {}]
  /\ forgot = {} /\ misled = {}

Seated(r)    == {p \in Players : seat[r][p] # 0}
InRoom(p, r) == seat[r][p] # 0 /\ p \notin gone[r]
IsFull(r)    == Cardinality(Seated(r)) >= SeatCnt[r]

\* The bound on the messages under way
Slack == \A p \in Players : Len(toMJ[p]) + Len(toDS[p]) < MaxQueue

\* An entry of p that DataServer has asked for, or has not yet heard of
Coming(mj, ds) ==
  \/ \E i \in 1..Len(mj) : mj[i].kind = "enter"
  \/ \E i \in 1..Len(ds) : ds[i].kind = "answer" /\ ds[i].room # NoRoom

\* What DataServer has of p is wrong, or will be: he sits in a room, or is on his way
\* into one.  The history notes him when he is taken to be elsewhere.
Forget(p, mj, ds) ==
  forgot' = IF (\E r \in Rooms : InRoom(p, r)) \/ Coming(mj, ds)
            THEN forgot \cup {p} ELSE forgot

\* Faulty: the state is reset and the room is not
Reset_KeepsRoom(p, mj, ds) ==
  /\ game' = [game EXCEPT ![p] = "NotIn"] /\ at' = at
  /\ Forget(p, mj, ds) /\ misled' = misled \ {p}

\* DataServer takes p to be in no room
Reset(p, mj, ds) ==
  /\ game' = [game EXCEPT ![p] = "NotIn"] /\ at' = [at EXCEPT ![p] = NoRoom]
  /\ Forget(p, mj, ds) /\ misled' = misled \ {p}

-----------------------------------------------------------------------------
(* DataServer: logging in and out.                                         *)

LeaveCall(p) == [kind |-> "leave", room |-> at[p], sess |-> 0]

\* OnPlayerOffline.  doApplyLeaveRoom asks the room to let a player go who stays in
\* one.
GoOffline(Q) ==
  toMJ' = [q \in Players |-> IF q \in Q /\ game[q] = "StayIn"
                            THEN Append(toMJ[q], LeaveCall(q)) ELSE toMJ[q]]

\* The first login, one from another device, and one after a disconnection: the
\* player object is kept, with what it remembers, under the session of the login.
\* Another player who is online under that session goes offline.
Login(p) ==
  \E s \in Sessions[p] :
    LET others == {q \in Players \ {p} : obj[q] = "online" /\ sess[q] = s} IN
    /\ ~(obj[p] = "online" /\ sess[p] = s)
    /\ (\E q \in others : game[q] = "StayIn") => Slack
    /\ obj' = [q \in Players |-> IF q = p THEN "online"
                                ELSE IF q \in others THEN "offline" ELSE obj[q]]
    /\ sess' = [sess EXCEPT ![p] = s]
    /\ GoOffline(others)
    /\ UNCHANGED <<game, at, toDS, tables, history>>

\* The client logs out, or its connection breaks
Disconnect(p) ==
  /\ obj[p] = "online" /\ (game[p] = "StayIn" => Slack)
  /\ obj' = [obj EXCEPT ![p] = "offline"]
  /\ GoOffline({p})
  /\ UNCHANGED <<sess, game, at, toDS, tables, history>>

\* The object of a disconnected player is deleted when its time is up; the answer
\* to a leave request, whose callback holds the object, comes within that time
Delete(p) ==
  /\ obj[p] = "offline"
  /\ \A i \in 1..Len(toMJ[p]) : toMJ[p][i].kind # "leave"
  /\ \A i \in 1..Len(toDS[p]) : toDS[p][i].kind # "applied"
  /\ obj' = [obj EXCEPT ![p] = "none"] /\ sess' = [sess EXCEPT ![p] = 0]
  /\ Reset(p, toMJ[p], toDS[p])
  /\ UNCHANGED <<toMJ, toDS, tables>>

-----------------------------------------------------------------------------
(* DataServer: entering.                                                   *)

EnterMsg(p, r) == [kind |-> "enter", room |-> r, sess |-> sess[p]]

\* Faulty: a player who stays in a room may ask for another one
AskEnter_Elsewhere(p) ==
  /\ obj[p] = "online" /\ game[p] # "Entering" /\ Slack
  /\ \E r \in MaybeRoom : toMJ' = [toMJ EXCEPT ![p] = Append(@, EnterMsg(p, r))]
  /\ game' = [game EXCEPT ![p] = "Entering"] /\ at' = [at EXCEPT ![p] = NoRoom]
  /\ misled' = misled \ {p}
  /\ UNCHANGED <<obj, sess, toDS, tables, forgot>>

\* MSG_REQ_ENTER_ROOM: into a given table, or any; a player who stays in a room
\* is sent back to that room
AskEnter(p) ==
  /\ obj[p] = "online" /\ game[p] # "Entering" /\ Slack
  /\ \E r \in MaybeRoom :
       /\ game[p] = "StayIn" => r = at[p]
       /\ toMJ' = [toMJ EXCEPT ![p] = Append(@, EnterMsg(p, r))]
  /\ game' = [game EXCEPT ![p] = "Entering"] /\ at' = [at EXCEPT ![p] = NoRoom]
  /\ misled' = misled \ {p}
  /\ UNCHANGED <<obj, sess, toDS, tables, forgot>>

-----------------------------------------------------------------------------
(* MJServer: entering and leaving a table.                                 *)

Answer(r, s) == [kind |-> "answer", room |-> r, sess |-> s]
Refusal(s)   == Answer(NoRoom, s)

SitDown(p, r, s) ==
  /\ seat' = [seat EXCEPT ![r][p] = s]
  /\ toDS' = [toDS EXCEPT ![p] = Append(@, Answer(r, s))]

\* checkPlayerCanEnter lets in a player who has a seat unless he has lost his
\* hand, any other one if there is a free seat
CanEnter(p, r) ==
  \/ seat[r][p] # 0 /\ p \notin lost[r]
  \/ seat[r][p] = 0 /\ ~IsFull(r)

\* Faulty: a request that is refused is not answered
ServeEnter_Silent(p) ==
  /\ toMJ[p] # <<>> /\ Head(toMJ[p]).kind = "enter"
  /\ LET msg == Head(toMJ[p]) IN
     \/ \E r \in Rooms :
          /\ IF msg.room = NoRoom THEN ~IsFull(r) ELSE r = msg.room
          /\ CanEnter(p, r) /\ SitDown(p, r, msg.sess)
     \/ /\ \A r \in Rooms : msg.room = r => seat[r][p] = 0 \/ p \in lost[r]
        /\ UNCHANGED <<toDS, seat>>
  /\ toMJ' = [toMJ EXCEPT ![p] = Tail(@)]
  /\ UNCHANGED <<data, hand, lost, gone, history>>

\* processEnterRoomMsg.  The answer is sent before the player sits down.  A
\* player without a seat in the table may be refused for his coins, or for an
\* unknown table, whatever the seats are; a loser of the hand always is.
ServeEnter(p) ==
  /\ toMJ[p] # <<>> /\ Head(toMJ[p]).kind = "enter"
  /\ LET msg == Head(toMJ[p]) IN
     \/ \E r \in Rooms :
          /\ IF msg.room = NoRoom THEN ~IsFull(r) ELSE r = msg.room
          /\ CanEnter(p, r) /\ SitDown(p, r, msg.sess)
     \/ /\ \A r \in Rooms : msg.room = r => seat[r][p] = 0 \/ p \in lost[r]
        /\ toDS' = [toDS EXCEPT ![p] = Append(@, Refusal(msg.sess))]
        /\ UNCHANGED seat
  /\ toMJ' = [toMJ EXCEPT ![p] = Tail(@)]
  /\ UNCHANGED <<data, hand, lost, gone, history>>

DoLeave(r) == [kind |-> "doLeave", room |-> r, sess |-> 0]

\* onPlayerApplyLeave of a player with a seat, with the reports it makes to
\* DataServer: between hands he stands up, a loser leaves his seat occupied (and
\* is reported every time he asks), anyone else only is away for a while
LeaveTable(p, r, reports) ==
  \/ /\ hand[r] # "play"
     /\ seat' = [seat EXCEPT ![r][p] = 0]
     /\ lost' = [lost EXCEPT ![r] = @ \ {p}] /\ gone' = [gone EXCEPT ![r] = @ \ {p}]
     /\ toDS' = [toDS EXCEPT ![p] = @ \o <<DoLeave(r)>> \o reports]
  \/ /\ hand[r] = "play" /\ p \in lost[r]
     /\ gone' = [gone EXCEPT ![r] = @ \cup {p}]
     /\ toDS' = [toDS EXCEPT ![p] = @ \o <<DoLeave(r)>> \o reports]
     /\ UNCHANGED <<seat, lost>>
  \/ /\ hand[r] = "play" /\ p \notin lost[r]
     /\ toDS' = [toDS EXCEPT ![p] = @ \o reports]
     /\ UNCHANGED <<seat, lost, gone>>

\* The result of eAsync_ApplyLeaveRoom: 2 (no room) if the player had a seat,
\* else 0, which DataServer ignores and which is left out
Applied == [kind |-> "applied", room |-> NoRoom, sess |-> 0]

ServeLeave(p) ==
  /\ toMJ[p] # <<>> /\ Head(toMJ[p]).kind = "leave"
  /\ LET r == Head(toMJ[p]).room IN
     \/ seat[r][p] # 0 /\ LeaveTable(p, r, <<Applied>>)
     \/ seat[r][p] = 0 /\ UNCHANGED <<toDS, seat, lost, gone>>
  /\ toMJ' = [toMJ EXCEPT ![p] = Tail(@)]
  /\ UNCHANGED <<data, hand, history>>

\* MSG_PLAYER_LEAVE_ROOM, from a client straight to the table, which takes him for a
\* player who sits there under the session of the client
ClientLeaves(p) ==
  /\ Slack
  /\ \E r \in Rooms :
       /\ seat[r][p] # 0
       /\ \E q \in Players : obj[q] = "online" /\ sess[q] = seat[r][p]
       /\ LeaveTable(p, r, <<>>)
  /\ UNCHANGED <<data, toMJ, hand, history>>

-----------------------------------------------------------------------------
(* MJServer: the hands.                                                    *)

HandStarts(r) ==
  /\ hand[r] = "wait" /\ Cardinality(Seated(r)) = SeatCnt[r]
  /\ hand' = [hand EXCEPT ![r] = "play"]
  /\ UNCHANGED <<data, toMJ, toDS, seat, lost, gone, history>>

\* eRoomPeer_DecideLose, for want of coins
Loses(p, r) ==
  /\ hand[r] = "play" /\ seat[r][p] # 0 /\ p \notin lost[r]
  /\ lost' = [lost EXCEPT ![r] = @ \cup {p}]
  /\ UNCHANGED <<data, toMJ, toDS, seat, hand, gone, history>>

HandEnds(r) ==
  /\ hand[r] = "play" /\ hand' = [hand EXCEPT ![r] = "end"]
  /\ UNCHANGED <<data, toMJ, toDS, seat, lost, gone, history>>

\* Faulty: every loser is taken to have been reported already, also one who has
\* stayed to watch
ClearTable_Losers(r) ==
  /\ hand[r] = "end" /\ hand' = [hand EXCEPT ![r] = "wait"]
  /\ toDS' = [p \in Players |-> IF p \in Seated(r) \ lost[r]
                                THEN Append(toDS[p], DoLeave(r)) ELSE toDS[p]]
  /\ seat' = [seat EXCEPT ![r] = [p \in Players |-> 0]]
  /\ lost' = [lost EXCEPT ![r] = {}] /\ gone' = [gone EXCEPT ![r] = {}]
  /\ UNCHANGED <<data, toMJ, history>>

\* onGameDidEnd: everyone at the table is sent away, whenever he sat down.  The
\* players' states are reset first, so a loser who has left is reported again.
ClearTable(r) ==
  /\ hand[r] = "end" /\ hand' = [hand EXCEPT ![r] = "wait"]
  /\ toDS' = [p \in Players |-> IF p \in Seated(r)
                                THEN Append(toDS[p], DoLeave(r)) ELSE toDS[p]]
  /\ seat' = [seat EXCEPT ![r] = [p \in Players |-> 0]]
  /\ lost' = [lost EXCEPT ![r] = {}] /\ gone' = [gone EXCEPT ![r] = {}]
  /\ UNCHANGED <<data, toMJ, history>>

-----------------------------------------------------------------------------
(* DataServer: what it hears.                                              *)

Hear(p, kind) ==
  /\ toDS[p] # <<>> /\ Head(toDS[p]).kind = kind
  /\ toDS' = [toDS EXCEPT ![p] = Tail(@)]
  /\ UNCHANGED <<obj, sess, toMJ, tables>>

\* GetPlayerBySessionID: the player who is online under s, if there is none one of
\* those who have gone offline under it and still have an object
Found(s) ==
  LET online == {q \in Players : obj[q] = "online" /\ sess[q] = s} IN
  IF online # {} THEN online ELSE {q \in Players : obj[q] = "offline" /\ sess[q] = s}

\* The answer to an entry of p goes to whoever is found under the session that p asked
\* with, and is dropped if there is nobody
HearAnswer(p) ==
  /\ Hear(p, "answer")
  /\ LET msg == Head(toDS[p]) IN
     \/ Found(msg.sess) = {} /\ UNCHANGED <<game, at, history>>
     \/ /\ msg.room = NoRoom
        /\ \E q \in Found(msg.sess) : Reset(q, toMJ[q], toDS'[q])
     \/ /\ msg.room # NoRoom
        /\ \E q \in Found(msg.sess) :
             /\ game' = [game EXCEPT ![q] = "StayIn"] /\ at' = [at EXCEPT ![q] = msg.room]
             /\ IF q = p THEN misled' = misled \ {p} /\ UNCHANGED forgot
                ELSE misled' = misled \cup {q} /\ Forget(q, toMJ[q], toDS'[q])

\* A report finds him by his user id, and is believed whichever room it is from
HearDoLeave(p) ==
  /\ Hear(p, "doLeave")
  /\ \/ obj[p] # "none" /\ Reset(p, toMJ[p], toDS'[p])
     \/ obj[p] = "none" /\ UNCHANGED <<game, at, history>>

HearApplied(p) ==
  /\ Hear(p, "applied") /\ Reset(p, toMJ[p], toDS'[p])

Client(p) == Login(p) \/ Disconnect(p) \/ AskEnter(p) \/ ClientLeaves(p)
Servers(p) ==
  ServeEnter(p) \/ ServeLeave(p) \/ HearAnswer(p) \/ HearDoLeave(p) \/ HearApplied(p)
Table(r) ==
  HandStarts(r) \/ HandEnds(r) \/ ClearTable(r) \/ \E p \in Players : Loses(p, r)

Next ==
  \/ \E p \in Players : Client(p) \/ Servers(p) \/ Delete(p)
  \/ \E r \in Rooms : Table(r)

Spec == Init /\ [][Next]_vars

\* Both servers go on reading their connections
LiveSpec == Spec /\ \A p \in Players : WF_vars(Servers(p))

-----------------------------------------------------------------------------
(* Correctness.                                                            *)

\* A room in which DataServer takes a player to stay is one he sits in, unless the
\* report that he has left it is on its way: a player is never sent back, by every
\* request to enter, to a table that has forgotten him.  The exception is the answer to
\* another player, who asked under the same session before this one switched to it.
StayInIsSeated ==
  \A p \in Players \ misled : game[p] = "StayIn" =>
     \/ InRoom(p, at[p])
     \/ \E i \in 1..Len(toDS[p]) : toDS[p][i] = DoLeave(at[p])

\* A player comes to sit at two tables at once only after DataServer has taken him to be
\* in no room, or has heard the answer to another player, while he sat in a room or was
\* entering one: the redirection of AskEnter, the state Entering and the tables' own
\* checks leave no other way.
OneRoomWhileRemembered ==
  \A p \in Players \ forgot : \A r, q \in Rooms : InRoom(p, r) /\ InRoom(p, q) => r = q

\* A player who waits to enter hears how it ended, as long as he is the one to be found
\* under the session he asked with.  If he logs in again under another session, or
\* somebody else under his, he may wait for ever.
EnteringEnds ==
  \A p \in Players : \A s \in Sessions[p] :
     /\ game[p] = "Entering" /\ Found(s) = {p}
     /\ \E i \in 1..Len(toMJ[p]) : toMJ[p][i].kind = "enter" /\ toMJ[p][i].sess = s
     ~> game[p] # "Entering" \/ Found(s) # {p}
=============================================================================
