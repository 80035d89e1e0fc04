# A TLA+ model of the MJGame servers

MJGame is a cluster of C++ server processes for mahjong and poker games. This
directory holds TLA+ modules that model its core, TLC configurations that check
them on small instances, and TLAPS proofs of what holds for every instance.

* [The system](#the-system): components, state, operations, what is hard
* [The modules](#the-modules): what is modelled and how it corresponds to the code
* [The runs](#the-runs): what TLC checks, the bounds, the fairness
* [Disagreements with the code](#disagreements-with-the-code)
* [The proofs](#the-proofs)
* [What is not modelled](#what-is-not-modelled)
* [The plan](#the-plan)

Paths below are relative to `src/`; `MJ/` stands for `Server/MJServer/src/`,
`SC/` for `Server/ServerCommon/`, `DS/` for `Server/DataServer/src/`.

## The system

Every server is one process with one loop (`SC/ISeverApp.cpp:202`): receive
messages, run the timers, update the modules, sleep 10 ms. A message handler, a
timer or an update therefore runs to its end before anything else in that
process: in the models it is one atomic action. Concurrency is between the
processes, which exchange messages through CenterServer, between the players,
whose messages meet the timers in any order, and in the one pool of threads.

| Component | State | Operations | Interacts with |
|---|---|---|---|
| Table: `MJ/XLMJRoom`, `XZMJRoom`, `IMJRoom` and the room states `MJ/*RoomState*.h` | current room state and its members, hands, wall, player states, coins, kong flags | enter, leave, ready, discard, win, pong, three kongs, pass, add coin, give up, one time-up per state | players through the gates; DataServer for coins; a private room as its delegate |
| Void suit: `MJ/XLRoomStateWaitDecideQue.h` | who has still to choose, the suits | choose, two time-ups | part of a table |
| Settlement: `MJ/XLMJSettle.h`, `XLFanXingChecker.h` | payments of a hand, multipliers | pay for kong and win, refund, tax | the table |
| Hand algorithms: `MJ/MJPlayerCard.cpp`, `XLMJPlayerCard.cpp`, `MJCard.cpp` | cards by suit, melds | can win / pong / kong, waiting cards | pure functions of the table |
| Private rooms and bills: `MJ/MJPrivateRoom.cpp`, `MJRoomManager.cpp` | circles left, dismissal votes, members and their coins, bill numbers | enter, leave, vote, timer, game over, delete | the table, DataServer, DBServer |
| Room manager, robots: `MJ/MJRoomManager.cpp`, `SC/RobotDispatchStrategy.cpp` | rooms, waiting robots | create, find a seat, dispatch a robot | DataServer |
| Requests: `SC/AsyncRequestQuene.cpp` | serial number, running requests | push, cancel, answer, 10 s timer | every server, through CenterServer |
| Task pool: `SC/TaskPool.cpp`, `WorkThread.cpp` | idle and busy threads, waiting and finished tasks | post, update, close; the threads | VerifyServer |
| Timers: `SC/Timer.cpp` | running timers, deferred starts and cancels | start, cancel, update | every server |
| CenterServer | connections of servers, gate slots | register, route, disconnect | all |
| Gates (`GateServer`, `Html5GateServer`) | clients, sessions, clients waiting to reconnect | connect, verify, reconnect, time out | clients, CenterServer |
| DataServer | players, their coins, rooms and mails | log in, log out, enter and leave rooms | MJServer, DBServer |
| DBServer, LogServer, LoginServer, VerifyServer, PushNotificationServer, GoldenServer | connections, queues of SQL text or HTTP calls | translate messages to SQL, HTTP and back | CenterServer |

What makes each part correct, and what is hard about it:

* **Table.** Every hand has its size at every moment; only players who are still
  in the game are asked, and the game goes on only while there are two of them;
  a win goes before the pongs and kongs declared on the same card; nobody plays
  without coins; a game ends. Hard are the answers that arrive in any order and
  race the time-ups, the flags and next states that are chosen before a wait and
  used after it, and the empty wall, from which "card number 0" is drawn.
* **Void suit.** The first answer counts, who does not answer is given a suit,
  what was announced is what is played. Hard: late, repeated and invalid answers.
* **Requests.** A callback runs at most once, with the answer to its own request,
  and every request is answered in the end. Hard: lost, repeated and late
  messages, restarts; a request may be executed several times.
* **Task pool.** A posted task is performed and called back once. Hard: the
  interleavings between the three mutexes, and the closing.
* **Private rooms.** Seats, records and DataServer's view agree; a started table
  keeps its players; a vote ends and dismisses a started room only by a majority or
  by time; circles, room cards and the bill match; a closed room is deleted. Hard
  are the messages between the closing and the deletion, and replies whose authors
  have left.
* **Settlement.** No coin is made or lost, whoever cannot pay pays what he has, and the
  bills explain every coin. Hard are the payers who run out of coins between two
  payees, the multiplier kept in a byte, and the refunds of kongs when a hand ends.
* **Seats.** DataServer and the tables agree on where a player sits, he sits at one
  table at most, and who waits to enter hears how it ended. Hard are the sessions that
  change, or pass to another player, while an answer is under way, the leaves that cross
  an entry, and the losers who leave in the middle of a hand and are reported again when
  it ends.
* **A player's coins.** They are kept by DataServer and, while he plays, by the table.
  Hard are coins got or spent while he is in a room or on his way into one, settlements
  that are repeated later, and the points of private tables, which are told to
  DataServer as coins.
* **Gates, CenterServer, timers, bills**: see the plan and the `hazards` of
  `PROJECT.json`, which name each danger at its line.

## The modules

| Module | Models | Extends |
|---|---|---|
| `XLMJRoom` | a table, with the room states that drive it | |
| `XLDecideQue` | the choice of the void suit | |
| `AsyncRequest` | the request queue, CenterServer's routing, the serving process | |
| `RemoteCall` | abstract: what a caller may rely on | |
| `TaskPool` | the pool, its main thread and its work threads | |
| `JobPool` | abstract: what becomes of a posted job | |
| `PrivateRoom` | the life of a private room around its table, in the server loop | |
| `Seats` | the seats of public tables against what DataServer remembers of the players: logging in and out, entering, leaving, losing | |
| `XLFanXing` | operators: the pattern of a winning hand and its multiplier | |
| `XLSettle` | the coins of a table during a hand and at its end; composed with `XLMJRoom` | `XLFanXing` |
| `PlayerCoins` | the coins of one player at DataServer, a public and a private table, with lost and repeated settlements | |
| `MC` and the name of a module | root for TLC | that module |
| the name of a module and `_proofs` | theorems | that module and TLAPS |

Definitions whose name ends in a fault (`Draw_NoEmptyCheck`, `Queue_Front`, ...)
are plausible errors, each preceded by a comment `Faulty: ...`. Nothing uses them;
replacing the definition that follows by one of them must break a property, which
shows that the property depends on that code.

### XLMJRoom

`cur` is the current room state with its members: one record shape per sub-class
of `IMJRoomState`. An action is a message (`Discard`, `SelfHu`, `ConcealedGang`,
`AddedGang`, `ClaimHu`, `ClaimPeng`, `ClaimPass`, `RobotHu`, `RobotPass`, `AddCoin`,
`PaysTooLittle`, `PassTurn`, `DecideLose`, `Enter`, `Leave`, `SetReady`, `DecideQue`) or
the time-up of a state
(`TurnTimeUp`, `ChuTimeUp`, `AskTimeUp`, `RobotTimeUp`, `SupplyTimeUp`, `MoDone`, ...),
together with the `goToState`, the `enterState` and the `doAct` it causes. So
`Discard` ends in `DoPlayerAct`, and the time-up of `DoPlayerAct` (`ChuDone`) asks
the others or lets the next one draw. `BloodEnd` chooses between XLMJRoom and
XZMJRoom, `HasDelegate` between a public table and that of a private room.

What is abstracted:

* Cards are counts: `hold`, `penged`, `ganged` per seat. Whether a seat can win,
  pong or kong is a free choice within what the counts allow (`Able`, `Pairs`,
  `Winners`), which covers every deal. Card number 0, drawn when a kong is laid on
  an empty wall (the handlers accept it though the clients are not offered it), is
  counted in `phantom`; `isHaveCard` does not find it, so it cannot be discarded.
* Coins are "has none" (`out`). Who is ruined by a payment is a free choice among
  the payers; a payee gets coins if some payer had any.
* Timers are not measured: whichever state waits, its time-up may happen at any moment.
  Two timers can be restarted by messages that change nothing else: a pass on one's own
  turn (`PassTurn`, `MJ/MJRoomStateWaitPlayerAct.h:155`) and a payment that leaves a
  player without coins (`PaysTooLittle`, `MJ/XLRoomStateWaitSupplyCoin.h:98`). In these
  two states `late` says that the timer is about to expire: `TimeRunsDown` sets it, the
  two messages clear it, the time-up needs it. So whoever goes on sending them keeps the
  time-up off for ever, as in the code. The automatic messages for players in trustee
  mode and for winners are the same messages as the players' own.
* A claim on a discard that failed (a seat has no card it can discard) is
  allowed like any other: more than the code does.

Two history variables carry what the code forgets: `afterGang` (whose last draw
or meld was a kong) and `lost` (cards taken from a seat for a kong it did not
declare, see below).

### XLDecideQue

The room state refined: `que` is `m_nQueType`, `weight` what `getAutoQueType`
computes from the hand. `Decide` is the handler with its three early returns (not
waited for, no suit, valid), `TimeUp` the two meanings of `onStateTimeUp`.
`XLMJRoom` keeps of all this only that play starts.

### AsyncRequest and RemoteCall

`num` is `m_mapRunningRequest` (0: not running), `toServer` and `toClient` the ways
through CenterServer and back. `Push`, `Receive`, `Cancel`, `Check` (the 10 s timer,
`aged` says who is due), `Serve`, the losses (`ClientDown`, `ServerDown`,
`DropRequest`, `DropAnswer`), reconnections and `Restart` are the actions. A link
that breaks loses the part of a channel on its side of CenterServer. `life` marks
which life of the process a message belongs to, which the code does not know.
`QuickRestart = FALSE` is an assumption: a restarted process does not reconnect
while answers to its former life are still under way (it reconnects after seconds,
messages take milliseconds). With `TRUE` the answer to an old request can complete
a new one with the same number, because `init` sets the number to 0
(`SC/AsyncRequestQuene.cpp:11`).

`RemoteCall` is what is left for a caller: a request is executed *at least* once
before its callback runs, the callback runs at most once and never after a cancel.
That an executed request may be executed again is part of it: the code resends
without a way to recognise repetitions.

### TaskPool and JobPool

What a thread does between two mutexes is one action. `postTask` is `Post` (under
`m_tThread`) and then `Assign` or `Queue`; `update` is `Collect` and one `Callback`
per task; `closeAll` is `CloseAll`, `Close(w)` per thread, `Closed`. A work thread is
`Wake`, `Finish` (performing and the push on the finished list), `Clear`, `TakeNext`
or `NoneWaiting` and `Leave`, `End`. Task objects return to `reserve` and are posted
again. `JobPool` has one stage per task: free, pending, done, dropped.

### PrivateRoom

One private room from its creation to its deletion, in the order of
`IServerApp::run` (`phase`): any number of messages, then the timers, then the update.
A message to the room is one action: `Enter`, `LeaveSeat`, `LetGo` (a player who asks
for a seat or for leave and has none), `SetReady`, `Apply` and `Reply`, which both end
in `onCheckDismissReply` (`CheckReplies`). `TimeOut` is the callback of the vote's
timer. `MJRoomManager::update` is `GameOver` (the hand's end counts a circle, and the
last one closes and deletes the room in the same update), `DeleteClosed` or `Idle`.
A closed room is not updated but still takes messages until it is deleted, and may
even be closed again: the model allows it, because the code does not test `m_eState`.

Of the hand only its start and end are left, of the coins and sessions nothing.
`stays` is what DataServer was told last of each player; the messages that tell it
(`stMsgSvrEnterRoomRet`, `stMsgSvrDoLeaveRoom`, the answers to `eAsync_ApplyLeaveRoom`)
travel in order on one connection. What is left of `left`, `consumed`, `charged` and
`billed` after the deletion is history. `charged` counts the room cards asked for.

### Seats

`obj`, `sess`, `game` and `at` are DataServer's player: whether he has an object and is
online, `m_nSessionID`, `m_ePlayerGameState`, `m_nStateInRoomID`. `seat`, `hand`, `lost`,
`gone` are the tables of MJServer: who sits there under which session, the stage of the
hand, the losers, and those of them who have left. `toMJ` and `toDS` are the messages
between the two servers; what concerns one player is in order, and between players the
order is left open, which is more than one connection allows. `Login`, `Disconnect`,
`AskEnter`, `ClientLeaves` are what a player does; `Delete` what `CPlayerManager::Update`
does; `ServeEnter`, `ServeLeave` the two requests at MJServer; `HandStarts`, `Loses`,
`HandEnds`, `ClearTable` the hand; `HearAnswer`, `HearDoLeave`, `HearApplied` what
DataServer makes of the answers and reports.

A session is the connection of a client, and `Sessions` says which ones a player may come
to have. Players may share them: a client that is logged in as one player may log in as
another one (`DS/PlayerManager.cpp:653`, "switch account in main scene"). `Login` then
puts the former player offline, with the request to let him go from the room he stays in
(`GoOffline`), and gives the session to the new one, who may have been online under
another, offline, or unknown. Who is found by a session (`Found`) is the player online
under it, if there is none one who went offline under it; which one, where there are
several, depends on the order of a map and is left open.

What the code does, and the model has as it is:

* The answer to an entry goes to whoever is found under the session of the request, and
  is dropped if there is nobody. A player who has logged in again under another session
  is not found: he is `Entering`, and cannot ask again, until his object is deleted. If
  another player has logged in on the session meanwhile, it is he who is taken to stay
  in that room, or to have been refused, wherever he sits himself and whatever he has
  asked for; and if the first one comes back on it after that, he still waits.
* `eAsync_ApplyLeaveRoom` is answered with 2, "not in room", when the player *had* a
  seat (`MJ/MJRoomManager.cpp:209`), and DataServer then forgets the room, although
  in the middle of a hand he keeps his seat. It ignores the answer 0 for one without.
* A report of leaving is believed whichever room it is from.
* A loser who has left is reported at each further request, and again when the hand
  ends: `IMJRoom::onGameDidEnd` wipes the flag (`MJ/IMJRoom.cpp:668`) that
  `XLMJRoom::onGameDidEnd` tests afterwards.
* A loser who asks to come back is refused and thereby forgotten by DataServer.
* A player who sits down while a hand has just ended is sent away with the others.

`forgot` and `misled` are history. `forgot`: the players whom DataServer took to be in no
room, or in the room of another player's answer, while they sat in one or were on their
way into one. `misled`: those whose room DataServer has from the answer to another player,
until they enter or leave one of their own. Left out are coins, lost messages (`AsyncRequest` has
them) and a restart of MJServer, which empties its tables. The callback of a leave
request holds the player's object by pointer; that the object outlives it (two minutes
against a request that is answered in seconds) is assumed in `Delete`.

### XLFanXing and XLSettle

A hand in `XLFanXing` is the record of what the pattern checkers ask of it. `Pattern`
is the first of the sorted checkers that agrees, `HuGen` the `gen` of the hand,
`BeiShu` the multiplier: a byte, doubled first and cut to 32 afterwards. So with eight
doublings or more it is zero: of the 1488 realizable shapes of a hand 86 reach that by
pattern and `gen` alone, and those winners are paid nothing. The test for seven pairs
does not look at concealed kongs, so that it accepts hands with an even number of them.

`XLSettle` is the other side of `XLMJRoom`: the coins are numbers, and who makes a kong
or wins with what is a free choice. `MingGang`, `AnGang`, `BuGang`, `DianPao`, `ZiMo`
pay and record a settlement; `EndHand` is `onGameEnd` with `HuaZhu`, `Refunded`,
`DaJiao` in the order of the code; `AddCoin`, `DecideLose`, `Supplied` are the wait for
coins. Who holds his void suit and who waits for a card at the end is a free choice too
(winners may be said to hold theirs), which is more than the cards allow. Payments and
books that a step computes on the way are bound by `\E b1 \in {...}`, because TLC
evaluates a definition at every use and a bound value once. `TableCoins` is the
composition: with the other variables of `XLMJRoom` fixed, what a settlement does to who
is broke is a choice of `Pay`, `PayWinners` or `Settled` there.

### PlayerCoins

One player, connected all the time. `coin`, `game`, `at` are DataServer's; `seat` his coins
at each of two tables, `real` the coins that the private room remembers, `running` the
settlements that are not answered yet. `AskEnter`, `Gift`, `Spend` are his doing; `ServeEnter`
(coming back, sitting down, refused), `ServeAdd`, `StartGame` (the desk fee), `AddOffset`,
`DecideLose`, `LoserLeaves`, `LeavePublic`, `LeavePrivate` the tables'; `Lose` and `Resend`
the request queue's; the rest what DataServer hears. `due` follows every coin as it should
be, `vanished` counts the coins that a public table has dropped, `flaw` names the things the
code does that lose or make coins:

* spending at DataServer while in a room: the next settlement or report restores the coin;
* a change of the coins while DataServer has forgotten that he sits in a room;
* coming back to a private table after it has told its points as coins
  (`MJ/MJPlayer.cpp:93`): they become his real coins (`MJ/MJPrivateRoom.cpp:98`);
* a report of his leaving from a table at which DataServer does not know him: its coins
  overwrite what he has got or won since. A loser who has left reports every time he leaves
  again, and once more when the hand ends: such a report counts unless it finds him in no
  room and with exactly its coins, so that nothing changes;
* the repetition of an old settlement after newer news.

`CoinsDue` says that these are all.

## The runs

| Run | Instance | Distinct states |
|---|---|---|
| `xl_public` | 3 seats, hands of 4, 2 cards in the wall, XLMJRoom | 424 thousand |
| `xz_private` | the same, XZMJRoom, table of a private room | 107 thousand |
| `decide_que` | 3 seats, 2 weights | 1.0 million |
| `async_request` | 2 requests, 3 messages per way, 1 restart | 94 thousand |
| `task_pool` | 2 threads, 3 task objects | 46 thousand |
| `private_room` | 4 players, 3 seats, 2 circles, 1 card per circle | 9 thousand |
| `seats` | 2 players with 2 sessions, one of them shared, tables of 1 and of 3 seats | 540 thousand |
| `xl_settle` | 4 seats with 1, 3, 4 and 40 coins, 2 hands, 2 settlements, 2 winners | 242 thousand |
| `player_coins` | 2 coins, 5 points, 2 gifts or purchases, 2 settlements, 1 loss, 2 messages under way | 8.0 million |

Why the bounds are enough. Three seats are the least for which one seat acts, one
answers and one lets its time run out, and for which one may lose and the game goes
on. Four cards let a seat lay a concealed kong from its first hand, and pong and
add to it later. Two cards in the wall let the wall run empty both by drawing and
by a kong, with a full turn between; phantom cards follow. `DealCnt`, `WallSize`,
`SeatCnt` are constants, not bounds on behaviours: games repeat without end. Two
requests are enough for a wrong number to reach the wrong callback, three messages
for a request, its repetition and another one; `ChanCap` and `MaxCrash` are the
bounds. Two threads and three tasks let one task wait while two are performed.
Three seats make a majority two, so that one reply and one empty seat, or the replies
of a player who left and of his successor, decide a vote; a fourth player finds the
room full or takes a seat given up; two circles have a hand that is the first and one
that is the last.

In `Seats` two players share a session and one has another beside it, so that accounts are
switched on a session in both directions, also by a player who is online elsewhere, and
sessions change and come back. Hands are played at the table of one seat; the other one
has always a free seat, and both players can be at it at once. `MaxQueue` is a bound on
the players, never on the servers: a player acts only when nothing is under way
(`MaxQueue` = 1), and his logging in or out adds no bound unless it makes a request, so
that any number of them falls between the steps of an entry. The reports that tables make
of their own accord are not bounded and cross an entry; that a leave request or its answer
crosses one is beyond this bound, and left to the proofs, which have every bound.
The proofs have any number of all of them. In `XLSettle` one
coin, three and four are not enough for a kong, two kongs or a dear win, and 40 are; one of
the two hands is plain and the other worth more than eight fan with its four concealed
kongs, one settlement makes a player broke and the next finds him so, and two winners are
paid by one who can pay one. In `PlayerCoins` one settlement is lost while the next
arrives, and a gift meets every stage of entering and leaving. Two are needed for one to
make up by chance for a coin that another flow has lost, and so to hide a flaw from whoever
compares only the coins. `player_coins` stops at a
flaw (`BeforeFlaws`), after which `CoinsDue` promises nothing.

What each property says is in the comment before it. The table:

* `HandSizes`: between a start and an end each seat answers for the cards it was
  dealt, and one more if it is the one to act. Excess cards can only be phantoms.
* `OnlyActiveAsked`, `EnoughPlayers`: losers (and under XZ winners) are not asked,
  and nobody is asked once a single player is left.
* `SupplyWaitsForBroke`, `NobodyPlaysBroke`: the wait for coins waits for exactly
  the broke; play goes on when none is left. The second is checked at public tables,
  where players enter with more than the desk fee (`MJ/XLMJRoom.cpp:86`,
  `MJ/MJRoomManager.cpp:366`) and so nobody starts broke; at private tables it is
  false, because coins persist from game to game.
* `ClaimOnce`, `WinBeforeClaims`: every seat answers a card once; a declared win
  is carried out before any pong or kong while the wall lasts.
* `WinnersHandFrozen` (XZ): nothing in a winner's hand changes until the game ends.
* `GameEnds`: a started game ends, if players do not stall for ever (`Stalling`): declare
  kongs that they never lay, pass on their own turn, pay too little. Each of these
  restarts the timer of the state, so whoever repeats it in time holds up the table.

`decide_que` checks `OnlyBadAnswerHasNoQue`, `FirstAnswerStands`, `ToldUnlessLate`
and `PlayStarts`; `async_request` checks `OwnAnswer`, `ImplementsRemoteCall` and
`EveryCallEnds`; `task_pool` checks `ThreadsAccounted`, `ImplementsJobPool`,
`KeepsUp` and `EveryThreadStops`.

`private_room` checks that seats, records and DataServer agree (`SeatsRecorded`), that
a started table has no hole (`SeatsHeld`), that flag, timer and replies of a vote agree
and no decided vote waits (`VoteInOrder`), that circles, cards and bill match
(`BooksBalance`), that a message dismisses a started room only by a majority
(`MajorityRules`), and that closed rooms and votes come to their end
(`ClosedRoomGoes`, `VoteEnds`). Not claimed, since the code does otherwise: that a room
closes only once, that nobody enters a closed room, and that before the first hand
the reply of a player who left does not count beside his empty seat.

`seats` checks that a room in which DataServer has a player is one he sits in
(`StayInIsSeated`, but for the `misled`), that nobody comes to sit at two tables who was
not forgotten first (`OneRoomWhileRemembered`), and that an entry comes to its end as long
as the player is the one to be found under the session he asked with (`EnteringEnds`). The
three exceptions are what a switch of account does in the code, and TLC refutes each
property without its exception; they are stated so narrowly that nothing else may go
wrong. `xl_settle` checks that coins are neither made nor lost (`BooksBalance`),
that the bills explain every coin unless a refund was cut short (`BillsAddUp`), that only
the wrapped multiplier makes a win pay nothing (`VoidOnlyFromEightFan`), and the
composition (`TableCoins`). `player_coins` checks `CoinsDue`.

Deadlock is checked in all passing runs but three. It is off in `xz_private`, as in the
violation run `xl_loser_turn`, since a private table has no turn timer (its states last
10^8 s) and can really stop: a seat whose only card is the phantom has no act left. It
is off in `decide_que`, whose last state leaves the module, and in `task_pool`, which
ends closed.

Fairness. `XLMJRoom` and `XLDecideQue`: weak fairness of the time-ups only. Each room
state sets a timer on entry and `IMJRoomState::update` (`MJ/IMJRoomState.h:21`)
counts it down in every turn of the server loop; players need never send anything.
Where a message can restart the timer, fairness is that of `TimeRunsDown` and of a
time-up that stays due (`late`), and no more: the restart takes it away again.
`AsyncRequest`: weak fairness of the timer, of serving and receiving, and of the
reconnections that `IServerApp::update` tries for ever; `EveryCallEnds` is claimed
only if links stop breaking. `PrivateRoom`: weak fairness of the main loop, which
never stops, and strong fairness of the vote's timer, which is tried once per turn and
runs out after five minutes. `TaskPool`: the operating system runs every thread, the
main loop turns for ever; nothing is assumed of the posting. `KeepsUp` is claimed
only if posting goes on, since a task that is queued just as the last thread goes
idle waits for the next posting (`SC/TaskPool.cpp:48`). `Seats`: weak fairness, per
player, of what the two servers do with a message or an answer that has arrived
(`ServeEnter`, `ServeLeave` and the `Hear` actions): both servers read their
connections in every turn of the loop. Players and hands need never move.

## Disagreements with the code

Three runs show that the code does not do what a comment in it says.

* `xl_stale_flag` (`DoubledOnlyAfterGang`). A win is doubled when it robs a kong or
  follows one (`MJ/XLMJRoom.cpp:383`), but the flags asked for are cleared only when
  the player draws (the declare flag also when the kong is laid). A player who
  declares an added kong that nobody can rob gets his turn back
  (`BuGang_Declare` has no effect in `doAct`) and may discard another card; or he
  pongs and discards without drawing. The win on that discard is doubled, and
  `onGangCardBeRobot` may take a second copy of the card from his hand (`lost`).
* `xl_dropped_win` (`DeclaredWinIsDone`). When the time of one player runs out after
  another has declared a win, the win is dropped if the wall is empty
  (`MJ/MJRoomStateAskForPengOrHu.h:44`, before the comment of line 50 that wants the
  declared acts done), and always if it was to rob a kong
  (`MJ/MJRoomStateAskForRobotGang.h:26`).
* `xl_loser_turn` (`OnlyActiveAsked`). After the wait for coins the turn of a new
  loser is passed on only if he was to draw; at a private table a player without
  coins who declared a kong becomes a loser and is then given the turn
  (`MJ/XLRoomStateWaitSupplyCoin.h:145`).

## The proofs

Checked with TLAPS 1.4.5 for all values of the constants that satisfy the named
assumptions of each module.

* `TypeCorrect`, `HandSizesCorrect` (`XLMJRoom_proofs`). Assumption:
  `TableAssumption`. `TypeInv` says per room state what its members are; it is
  inductive alone. `HandSizes` is not inductive: after a win the surplus of the
  winner depends on how he drew, in `WaitReady` hands are empty, and a robbed
  declaration must find its declare flag. `HandInv` adds that phantoms exist only
  once the wall is empty, that the hands are empty before a start, that the flag of
  the robbed seat stands, and that a seat which has just drawn a real card has no
  missing one (`FreshHand`). One lemma per act (`DoMo`, `DoPeng`, `LayGang`, ...)
  gives its effect on the sizes, and each action follows from the lemmas of the acts
  it can end in.
* `OnlyActiveAskedCorrect`, `NobodyPlaysBrokeCorrect`, `SupplyWaitsForBrokeCorrect`,
  `EnoughPlayersCorrect` (`XLMJRoom_proofs`), for public tables only
  (`~HasDelegate`): at a private table coins persist from hand to hand and cannot be
  bought (`AddCoin` is not processed there), so that a player may start a hand broke, and
  the first of them is refuted by `xl_loser_turn`. `PublicInv` ties
  each room state to who may be without coins in it. The turn that follows a kong
  needs the strengthening: that its maker has not given up is known only because he
  has coins. `WinBeforeClaimsCorrect`, for all tables, is a step property: an answer
  does the win without asking whether the game is over; the time-up asks, but it
  exists at public tables only, where `PublicInv` keeps two players in the game.
* `ClaimOnceCorrect` (`XLMJRoom_proofs`), for all tables. `ClaimInv` says that
  the seats still asked, the seats that have won and the seat the card is from are
  disjoint, and that nobody is twice among the winners (`Once`).
* `WinnersHandFrozenCorrect` (`XLMJRoom_proofs`), for all tables. `FrozenInv`: the seats
  whose cards the next step may change (`InPlay`: the turn's, the asked, the claimant's,
  that of the card) have not won; one lemma per act bounds what it changes to one of them.
  No use is made of the coins, so it holds where `OnlyActiveAsked` does not.
* `QueTypeCorrect`, `QueGivenCorrect`, `FirstAnswerCorrect`, `QueToldCorrect`
  (`XLDecideQue_proofs`). `QueInv` adds that the seats still waited for are exactly
  those that have not answered, and that after the announcement these have the suit
  they were given. The third is a step property.
* `AsyncTypeCorrect`, `AnswersMatch`, `CallsImplementRemoteCall`
  (`AsyncRequest_proofs`). `QueueInv` says that running requests have different
  numbers, that a message of the current life has a number already given which, if
  it is the number of a running request, belongs to that request, and that answers
  under way are to executed requests. The last two theorems assume
  `~QuickRestart`; the third shows every step to be a step of `RemoteCall` or a stutter.
* `PoolTypeCorrect`, `ThreadsAccountedCorrect`, `PoolImplementsJobPool`
  (`TaskPool_proofs`). Assumption: `PoolAssumption` (the null task is not a task).
  `PoolInv` adds two things. `ThreadInv`: a thread that was not told to close has its
  semaphore at 1 exactly while it sleeps with a task assigned, and a thread that is
  between two tasks, idle or just taken by `postTask` has none. `PlaceInv`: no list
  holds a task twice, and every task is on one list, in reserve, with one thread or
  in the hand of `postTask`. So the three stages of a task are disjoint, and each
  step moves at most one task from a stage to the next (`OneMoves`, `StagesKept`);
  only `Close` and `TakeNext` of a closed thread drop one.
* `RoomTypeCorrect`, `SeatsRecordedCorrect`, `SeatsHeldCorrect`, `VoteInOrderCorrect`,
  `BooksBalanceCorrect`, `MajorityRulesCorrect` (`PrivateRoom_proofs`). Assumptions:
  finitely many players, the owner among those who may come, at least one seat, 1 to
  255 circles. The invariants are inductive together (`IInv`) and none alone: that a
  vote belongs to a living room needs the seats, that the cards are right needs the
  circles, that a start fills the table needs that it is never overfull. One lemma
  per message; `CheckLemma` serves both messages of the vote. `DismissedLemma` is
  the step property: with no empty seat, a dismissal has the agreements it counted.
* `TypeCorrect`, `StayInIsSeatedCorrect`, `OneRoomCorrect` (`Seats_proofs`).
  Assumptions: the null room is no room, sessions are positive numbers, the bound is a
  number. Players may share any sessions. `IInv` has two parts beside the types.
  `HeardAll`: a room in which DataServer has a player who is not misled (`Known`), or of
  which an answer under way to him says so, is one he sits in, or the report of his
  leaving follows. `TrackedAll`, of players not forgotten: at most one entry is under way,
  and only while DataServer has him `Entering`; wherever he sits, DataServer has him there
  or he is on his way back to there. An answer that another player hears changes what
  DataServer has of both: of the one who hears it as `Reset` or `misled` say, of the one
  who asked nothing but that it is no longer under way (`TakenKeeps`).

* `MultiplierCorrect`, `BooksBalanceCorrect`, `BillsAddUpCorrect`,
  `VoidOnlyFromEightFanCorrect`, `TableCoinsCorrect` (`XLSettle_proofs`). Assumption:
  `SettleAssumption` (a bet of at least 1, hands that exist, starts with coins); the table
  has four seats, as in the code. `BillsAddUp` claims nothing of hands in which a refund
  was cut short (`cut`). `Inv`
  says of the books that they balance, that the bills explain the offsets unless a refund
  was cut short, that nobody is among those he pays or is paid by (`AllFair`), and which
  wins brought nothing (`WinsPaid`). Nobody can be made to pay more than he has
  (`PayProperties`, `PaidProperties`), so the branch of `addOffsetCoin` for who has too
  little is never taken. Each settlement at the end of a hand is shown to be a step of
  `Ends`, which says what may happen to books then, and `Ends` is transitive. `Billed` and
  `Refunded` are recursive functions over the settlements: that they exist, and what they
  compute, is shown step by step with `UpTo`, induction up to a number by way of a least
  counterexample. The byte of the multiplier is zero exactly from eight fan on because no
  hand is worth more than 14. `TableCoinsCorrect` is the composition with `XLMJRoom` as a
  step property: whoever acts has coins, so only those who pay can be broke afterwards; the
  winners on a card are the first of the list, and a payer with whom not everyone wins is
  broke (`WinnersPaid`); and nobody who has left the game loses or gets a coin at the end
  of the hand (`Keeps`).
* `CoinsInvCorrect`, `CoinsDueCorrect` (`PlayerCoins_proofs`). Assumption:
  `CoinsAssumption` (numbers; the null room is no room). `CoinsInv` has three cases: a
  flaw has been met; or one is bound to be, because a message under way will be heard
  where it counts as one (`Doomed`); or the state is `Good`: at most one entry is under
  way (`OneEnter`), an answer is heard before any report and the first report before a
  loser's later ones (`Ordered`), where DataServer has him is where he sits or what it
  is about to hear (`Placed`), it has newer news than any request of one who is away
  (`Numbered`), and the coins of the side that counts, with those that messages carry
  (`Carries`, a sum over the sequence) and those that have vanished, are what he is due
  (`Balanced`). An attempt at this proof showed an earlier form of `CoinsDue` to be
  false with two gifts: it told a loser's later report by its coins alone, and these may
  by chance be those he has. The message now tells (`as`, no part of the real one), and
  the run has two gifts.

All safety and step properties of the passing runs are proved. Only model-checked is
liveness (`GameEnds`, `PlayStarts`, `EveryCallEnds`, `KeepsUp`, `EveryThreadStops`,
`ClosedRoomGoes`, `VoteEnds`, `EnteringEnds`), which TLAPS does not prove.

## What is not modelled

* Of the table: which cards make a winning hand (the win and its type are choices of
  the model), statistics of a player's hands (`updateFanXingAndFanShu`), messages that
  only show state. In `XLMJRoom` a player's seat is all there is of him; who it is, and
  his leaving and coming back during a hand, is in `Seats`.
* Of seats: a restart of MJServer, robots, creation of a room, and the choice of a
  number for it.
* Of requests: the content, the reuse of request objects, requests too long for the
  buffer (refused for ever, `SC/ISeverApp.cpp:262`), the database thread behind
  DBServer. Cancel is never called by the repository but for `onMsg`; it is modelled
  as the public operation it is.
* Of private rooms: their creation by `eAsync_CreateRoom`, sessions, the numbers and
  the cache of bills.
* Of a player's coins: those of robots; what he gets and spends outside the games is
  one action each (`Gift`, `Spend`), whatever it is for. His session stays his own: a
  switch of account, by which another player's answer is believed of him, is in `Seats`
  only. Nor is the second report that a private room makes when it is closed twice.
* Of the pool: what a task does, and which of the idle threads is taken.
* The hand algorithms (`MJ/MJPlayerCard.cpp`): a search over the fourteen cards of a
  hand; the sequences of moves around them do not depend on its result, which the
  models leave open.
* `CenterServer`, the gates and the timers: left for later, as the plan says. Robot
  dispatch only fills seats and sends the messages players send.
* Whole components: see `PROJECT.json`. Sockets and HTTP are input and output, SQL
  belongs to the database, the older poker rooms of DataServer and the older
  generation of mahjong rooms are not reached from the current room manager. A large
  part of the repository is vendored (OpenSSL, asio, websocketpp, JsonCpp, the headers of MySQL).

## The plan

1. Done: the table, the void suit, the requests, the task pool, private rooms, the
   seats that DataServer and MJServer keep, the settlement of a hand, a player's coins.
2. `VipBills`: a bill number is used once. `Timer`: deferred starts and cancels against
   the abstract set of running timers.
3. `CenterServer` and `GateClients`: registration, gate slots, sessions, reconnection.
4. Hand algorithms as functions checked against a reference definition over all small
   hands; a room with the eat act; robot dispatch.
5. Proofs: done for every safety and step property. Next with the modules above.
