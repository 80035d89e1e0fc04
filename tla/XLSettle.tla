------------------------------- MODULE XLSettle -------------------------------
(***************************************************************************)
(* The coins of a public XLMJRoom or XZMJRoom: who pays whom for a kong or *)
(* a win, what is settled when the hand ends, and the bill of each player  *)
(* (XLMJRoom.cpp, XLMJSettle.h, MJPlayer::addOffsetCoin).                  *)
(*                                                                         *)
(* Module XLMJRoom has the turns and the questions and abstracts coins to  *)
(* who has none left.  Here it is the other way round: anyone in the game  *)
(* may make a kong or win, whenever XLMJRoom lets somebody act at all.     *)
(***************************************************************************)
EXTENDS XLFanXing, Sequences, FiniteSets

CONSTANTS
  BloodEnd,     \* TRUE: XZMJRoom, FALSE: XLMJRoom
  BaseBet,      \* nBaseBet of the room
  StartCoins,   \* bound: the coins of the four players when a hand starts
  Hands,        \* bound: the hands they win with
  WaitHands,    \* bound: the hands that a player who waits may still make
  BuyCoins,     \* bound: the coins a player buys during a hand
  MaxWinners,   \* bound: winners on one card
  MaxWins,      \* bound: wins in a hand
  MaxSettles    \* bound: kongs and wins in a hand

Seats == 0..3

ASSUME SettleAssumption ==
  /\ BloodEnd \in BOOLEAN /\ BaseBet \in Nat \ {0} /\ BuyCoins \in Nat \ {0}
  /\ {MaxWinners, MaxWins, MaxSettles} \subseteq Nat
  /\ StartCoins \subseteq [Seats -> Nat \ {0}]
  /\ Hands \subseteq {h \in Hand : Realizable(h)}
  /\ WaitHands \subseteq (SUBSET {h \in Hand : Realizable(h)}) \ {{}}

VARIABLES
  phase,     \* "play", "won" (a win is being shown), "supply" (WaitSupplyCoin), "end"
  coin,      \* m_nCoin
  offset,    \* m_nOffset
  taken,     \* coins given back to players who have left the game: "system take the coin"
  hu,        \* players in state eRoomPeer_AlreadyHu
  lost,      \* players in state eRoomPeer_DecideLose
  settles,   \* m_vSettleInfos
  cut        \* history: the refund of a kong has been cut short or taken

vars == <<phase, coin, offset, taken, hu, lost, settles, cut>>

Sum(f) == f[0] + f[1] + f[2] + f[3]
None   == [q \in Seats |-> 0]

-----------------------------------------------------------------------------
(* Settlements (ISettle).  Of a kong and of a win by the own draw idx is   *)
(* who is paid and part what the others pay; of the rest idx is who pays   *)
(* and part what the others are paid.  among are the others; void, for the *)
(* properties, are those of them for whom the win was of eight fan or more.*)

Kongs    == {"MingGang", "AnGang", "BuGang"}
Wins     == {"DianPao", "ZiMo"}
Payers   == {"DianPao", "HuaZhu", "DaJiao"}
Deleted  == [kind |-> "deleted", idx |-> 0, part |-> None, among |-> {}, void |-> {}]
Settle   ==
  [kind : Kongs \cup Wins \cup Payers \cup {"deleted"}, idx : Seats,
   part : [Seats -> Nat], among : SUBSET Seats, void : SUBSET Seats]

\* writePlayerBillInfo: the offset of player q in the bill of a settlement
Bill(q, s) ==
  LET sign == IF s.kind \in Payers THEN -1 ELSE 1
  IN  sign * (IF q = s.idx THEN Sum(s.part) ELSE -s.part[q])

-----------------------------------------------------------------------------
(* Payments.  In one settlement nobody both pays and is paid, so that what *)
(* each pays each, pay[d][q], says all.                                    *)

Books    == [coin : [Seats -> Nat], offset : [Seats -> Int], taken : Nat,
             settles : Seq(Settle), cut : BOOLEAN]
Now      == [coin |-> coin, offset |-> offset, taken |-> taken, settles |-> settles, cut |-> cut]
Payments == [Seats -> [Seats -> Nat]]
Nothing  == [d \in Seats |-> None]

\* Faulty: what is due is paid
Share_Due(c, due) == due

\* What a player with c coins pays when due is what he owes each of the others, whom
\* he pays one after the other until he has nothing left
AtMost(n, c)   == IF n > c THEN c ELSE n
Before(due, q) ==
  (IF q > 0 THEN due[0] ELSE 0) + (IF q > 1 THEN due[1] ELSE 0) + (IF q > 2 THEN due[2] ELSE 0)
Share(c, due) ==
  [q \in Seats |-> AtMost(Before(due, q) + due[q], c) - AtMost(Before(due, q), c)]

\* Everyone pays the others in the order of the seats
Pay(c, due) == [d \in Seats |-> Share(c[d], due[d])]

\* MJPlayer::addOffsetCoin, n coins: who has too little loses what he has
AddOffset(n, c) == IF -n > c THEN -c ELSE n

Paid(b, pay) ==
  LET n(q) == pay[0][q] + pay[1][q] + pay[2][q] + pay[3][q] - Sum(pay[q])
  IN  [b EXCEPT !.coin   = [q \in Seats |-> @[q] + AddOffset(n(q), @[q])],
                !.offset = [q \in Seats |-> @[q] + AddOffset(n(q), b.coin[q])]]

\* All the payers owe player i the same
OwedBy(payers, i, due) ==
  [d \in Seats |-> IF d \in payers THEN [None EXCEPT ![i] = due] ELSE None]

-----------------------------------------------------------------------------
(* Whose turn it may be.                                                   *)

Init ==
  /\ phase = "play" /\ coin \in StartCoins /\ offset = None /\ taken = 0
  /\ hu = {} /\ lost = {} /\ settles = <<>> /\ cut = FALSE

Out(c)    == {q \in Seats : c[q] <= 0}
\* Faulty: the losers pay like the others
Active_Losers(l) == Seats \ IF BloodEnd THEN hu ELSE {}

Active(l) == Seats \ (l \cup IF BloodEnd THEN hu ELSE {})
Two(S)    == \E i, j \in S : i # j

\* getWaitSupplyCoinPlayerIdxs
Awaited(c, l) == Out(c) \ l

\* XLMJRoom: nobody acts while anyone is broke, nor the last one in the game
MayAct ==
  /\ phase \in {"play", "won"} /\ Awaited(coin, lost) = {} /\ Two(Active(lost))
  /\ Len(settles) < MaxSettles

Become(b) ==
  /\ coin' = b.coin /\ offset' = b.offset /\ taken' = b.taken
  /\ settles' = b.settles /\ cut' = b.cut

\* One settlement: what is paid, and what is recorded of it
Settled(pay, s) == [Paid(Now, pay) EXCEPT !.settles = Append(@, s)]

-----------------------------------------------------------------------------
(* Kongs.                                                                  *)

\* onPlayerMingGang, onPlayerAnGang, onPlayerBuGang: the payers pay player g
Kong(g, kind, payers, due) ==
  \E pay \in {Pay(coin, OwedBy(payers, g, due))} :
    /\ Become(Settled(pay, [kind |-> kind, idx |-> g, among |-> payers, void |-> {},
                            part |-> [q \in Seats |-> pay[q][g]]]))
    /\ phase' = IF Awaited(coin', lost) = {} THEN "play" ELSE "supply"
    /\ UNCHANGED <<hu, lost>>

MingGang(g, v) == MayAct /\ Kong(g, "MingGang", {v}, 2 * BaseBet)

\* canKouPlayerCoin: losers do not pay, nor do winners at a XZMJRoom
AnGang(g) == MayAct /\ Kong(g, "AnGang", Active(lost) \ {g}, 2 * BaseBet)
BuGang(g) == MayAct /\ Kong(g, "BuGang", Active(lost) \ {g}, BaseBet)

-----------------------------------------------------------------------------
(* Wins.                                                                   *)

MayWin == MayAct /\ Cardinality({n \in DOMAIN settles : settles[n].kind \in Wins}) < MaxWins

\* onPlayerHu: the winners are paid in the order they have answered, until the payer
\* has nothing left; those after that do not win at all
DianPao(q, v, hands, gangHu) ==
  LET fan(n)  == HuFan(hands[q[n]], gangHu, FALSE)
      due(n)  == BaseBet * BeiShu(fan(n))
      \* what the payer has paid before the n-th of them
      owed(n) == (IF n > 1 THEN due(1) ELSE 0) + (IF n > 2 THEN due(2) ELSE 0)
      won     == {n \in DOMAIN q : n = 1 \/ owed(n) < coin[v]}
      winners == {q[n] : n \in won}
      place(i) == CHOOSE n \in won : q[n] = i
      part(i)  == AtMost(owed(place(i)) + due(place(i)), coin[v]) - AtMost(owed(place(i)), coin[v])
  IN  /\ MayWin
      /\ \E paid \in {[i \in Seats |-> IF i \in winners THEN part(i) ELSE 0]} :
           Become(Settled([Nothing EXCEPT ![v] = paid],
                          [kind |-> "DianPao", idx |-> v, among |-> winners, part |-> paid,
                           void |-> {q[n] : n \in {m \in won : fan(m) >= 8}}]))
      /\ hu' = hu \cup winners
      /\ phase' = "won"
      /\ UNCHANGED lost

ZiMo(i, h, gangHu) ==
  LET fan    == HuFan(h, gangHu, TRUE)
      losers == Active(lost) \ {i}
  IN  /\ MayWin
      /\ \E pay \in {Pay(coin, OwedBy(losers, i, BaseBet * BeiShu(fan)))} :
           Become(Settled(pay, [kind |-> "ZiMo", idx |-> i, among |-> losers,
                                part |-> [q \in Seats |-> pay[q][i]],
                                void |-> IF fan >= 8 THEN losers ELSE {}]))
      /\ hu' = hu \cup {i}
      /\ phase' = "won"
      /\ UNCHANGED lost

-----------------------------------------------------------------------------
(* The end of the hand: onGameEnd.                                         *)

\* Everyone pays what is due to the others in the order of the seats; each of the payers
\* who has a coin has a settlement of his own
PaidByAll(b, due, payers, kind) ==
  LET pay == Pay(b.coin, due)
      record(d) == IF d \in payers /\ b.coin[d] # 0
                   THEN [kind |-> kind, idx |-> d, among |-> {}, void |-> {}, part |-> pay[d]]
                   ELSE Deleted
  IN  [Paid(b, pay) EXCEPT !.settles = @ \o [n \in 1..4 |-> record(n - 1)]]

\* doChaHuaZhu: who still holds his void suit pays everyone who does not; who has not
\* enough for all of them shares out what he has, rounded up
HuaZhu(b, hua, rest) ==
  LET n == Cardinality(rest)
      due(c) == IF c < BaseBet * MAX_BEISHU * n THEN c \div n + 1 ELSE BaseBet * MAX_BEISHU
  IN  PaidByAll(b, [d \in Seats |-> [q \in Seats |-> IF d \in hua /\ q \in rest THEN due(b.coin[d])
                                                                             ELSE 0]],
                hua, "HuaZhu")

\* doChaDaJiao: who could not win with any card pays those who could what their best
\* card would have brought
DaJiao(b, da, ting, bei) ==
  PaidByAll(b, [d \in Seats |-> [q \in Seats |-> IF d \in da /\ q \in ting THEN BaseBet * bei[q]
                                                                         ELSE 0]],
            da, "DaJiao")

\* Faulty: a loser gets his coins back like the others
GiveBack_Losers(b, d, n, l) ==
  IF b.settles[n].kind \notin Kongs \/ b.settles[n].idx # d \/ b.coin[d] = 0 THEN b
  ELSE LET share == Share(b.coin[d], b.settles[n].part)
       IN  [Paid(b, [Nothing EXCEPT ![d] = share]) EXCEPT !.settles[n] = Deleted,
              !.cut = @ \/ b.coin[d] < Sum(b.settles[n].part)]

\* Faulty: the record of the kong stays
GiveBack_Kept(b, d, n, l) ==
  IF b.settles[n].kind \notin Kongs \/ b.settles[n].idx # d \/ b.coin[d] = 0 THEN b
  ELSE Paid(b, [Nothing EXCEPT ![d] = Share(b.coin[d], b.settles[n].part)])

\* giveBackGangWin: player d gives back what the n-th settlement, if it is a kong of
\* his, has brought him, and it is deleted.  What a loser would get goes to the system.
GiveBack(b, d, n, l) ==
  IF b.settles[n].kind \notin Kongs \/ b.settles[n].idx # d \/ b.coin[d] = 0 THEN b
  ELSE LET due   == b.settles[n].part
           share == Share(b.coin[d], due)
           held  == [i \in Seats |-> IF i \in l THEN share[i] ELSE 0]
           paid  == Paid(b, [Nothing EXCEPT ![d] = share])
       IN  [coin    |-> [i \in Seats |-> paid.coin[i] - held[i]],
            offset  |-> [i \in Seats |-> paid.offset[i] - held[i]],
            taken   |-> b.taken + Sum(held),
            settles |-> [b.settles EXCEPT ![n] = Deleted],
            cut     |-> b.cut \/ b.coin[d] < Sum(due) \/ Sum(held) > 0]

\* The players da give back what their kongs have brought them, the first of them that
\* of all his kongs in the order of the settlements, then the next
Refunded(b, da, l) ==
  LET len == Len(settles)
      f[m \in 0..4 * len] ==
        IF m = 0 THEN b
        ELSE IF (m - 1) \div len \in da
             THEN GiveBack(f[m - 1], (m - 1) \div len, ((m - 1) % len) + 1, l)
             ELSE f[m - 1]
  IN  f[4 * len]

\* The bei that a player who waits can be paid
WaitBei == {Cap(MaxPossibleBeiShu(hands)) : hands \in WaitHands}

\* hua hold their void suit, ting wait for a card; winners count as neither of the last
\* two.  b and l are the books and the losers the hand ends with.
EndHand(b, l) ==
  \E hua \in SUBSET (Seats \ l) :
  \E ting \in SUBSET (Seats \ (l \cup hua \cup hu)) :
  \E bei \in [ting -> WaitBei] :
    LET rest == Seats \ (l \cup hua)
        da   == IF ting = {} THEN {} ELSE rest \ (hu \cup ting)
    IN  \E b1 \in {HuaZhu(b, hua, rest)} :
        \E b2 \in {Refunded(b1, da, l)} :
        \E b3 \in {DaJiao(b2, da, ting, bei)} : Become(b3)

\* The wall is empty, or nobody is left to play with
GameEnd ==
  /\ phase = "won" \/ (phase = "play" /\ Awaited(coin, lost) = {})
  /\ EndHand(Now, lost)
  /\ phase' = "end"
  /\ UNCHANGED <<hu, lost>>

\* onGameDidEnd: the players leave the table, four others play the next hand
NewHand ==
  /\ phase = "end"
  /\ phase' = "play" /\ coin' \in StartCoins /\ offset' = None /\ taken' = 0
  /\ hu' = {} /\ lost' = {} /\ settles' = <<>> /\ cut' = FALSE

-----------------------------------------------------------------------------
(* Waiting for coins: XLRoomStateWaitSupplyCoin.                           *)

MayBuy ==
  /\ Awaited(coin, lost) # {}
  /\ phase = "supply" \/ (phase = "won" /\ Two(Active(lost)))

\* The end of onMsg, onMessage and onStateTimeUp
Supplied(c, l) ==
  \/ /\ Awaited(c, l) # {} \/ Two(Active(l))
     /\ phase' = IF Awaited(c, l) = {} THEN "play" ELSE "supply"
     /\ Become([Now EXCEPT !.coin = c])
  \/ /\ Awaited(c, l) = {} /\ ~Two(Active(l))
     /\ phase' = "end"
     /\ EndHand([Now EXCEPT !.coin = c], l)

\* MSG_SYNC_IN_GAME_ADD_COIN; bound: a player buys coins only when he has none
AddCoin(q) ==
  /\ MayBuy /\ coin[q] = 0
  /\ Supplied([coin EXCEPT ![q] = @ + BuyCoins], lost)
  /\ UNCHANGED <<hu, lost>>

\* MSG_PLAYER_DECIDE_LOSE, and for all who are awaited the time-up
DecideLose(S) ==
  /\ MayBuy
  /\ lost' = lost \cup S /\ hu' = hu \ S
  /\ Supplied(coin, lost')

\* Who answers a discard of player v with a win, in which order
WinnerLists(v) ==
  UNION {{q \in [1..n -> Active(lost) \ {v}] : \A a, b \in 1..n : q[a] = q[b] => a = b}
         : n \in 1..MaxWinners}

Next ==
  \/ \E i \in Active(lost) :
       \/ \E v \in Active(lost) \ {i} : MingGang(i, v)
       \/ AnGang(i) \/ BuGang(i)
       \/ \E h \in Hands, g \in BOOLEAN : ZiMo(i, h, g)
       \/ \E q \in WinnerLists(i), g \in BOOLEAN :
            \E hands \in [{q[n] : n \in DOMAIN q} -> Hands] : DianPao(q, i, hands, g)
  \/ \E q \in Seats : AddCoin(q)
  \/ \E q \in Awaited(coin, lost) : DecideLose({q})
  \/ DecideLose(Awaited(coin, lost))
  \/ GameEnd \/ NewHand

Spec == Init /\ [][Next]_vars

-----------------------------------------------------------------------------
(* Correctness.                                                            *)

\* What the players have won and lost and what the system has taken come to nothing,
\* and nobody is left owing: whoever pays less than is due, the payee gets no more.
\* It goes through every clamp and division of the settlements, and the branch of
\* addOffsetCoin for one who has too little, which would break it, is never taken.
BooksBalance == Sum(offset) + taken = 0 /\ \A q \in Seats : coin[q] >= 0

\* The bills sent at the end of a hand explain to the coin what each player has won or
\* lost, unless a player who gave back his kongs could not give back all, or gave it to
\* somebody who had left the game.
Billed(ss) ==
  LET f[n \in 0..Len(ss)] ==
        IF n = 0 THEN None ELSE [q \in Seats |-> f[n - 1][q] + Bill(q, ss[n])]
  IN  f[Len(ss)]
BillsAddUp == ~cut => Billed(settles) = offset

\* A win is recorded without a payment only if it is of eight fan or more, when the
\* byte of the multiplier has become zero: nobody wins from a player who is broke or
\* has left the game, nor is anybody a winner whom the payer could not pay any more.
VoidOnlyFromEightFan ==
  \A n \in DOMAIN settles : settles[n].kind \in Wins =>
     \A q \in settles[n].among : settles[n].part[q] = 0 <=> q \in settles[n].void

\* The state of the table in module XLMJRoom, which knows of coins only who has none
Status == [q \in Seats |-> IF q \in lost THEN "DecideLose"
                           ELSE IF q \in hu THEN "AlreadyHu" ELSE "CanAct"]
Table == INSTANCE XLMJRoom WITH
  SeatCnt <- 4, DealCnt <- 13, WallSize <- 1, HasDelegate <- FALSE,
  out <- Out(coin), status <- Status,
  cur <- "none", banker <- 0, wall <- 1, hold <- None, penged <- None, ganged <- None,
  phantom <- None, gangFlag <- {}, declareFlag <- {}, afterGang <- {}, lost <- None

Last(q) == q[Len(q)]

TableStep ==
  /\ phase' \notin {"end"} /\ Len(settles') > Len(settles) =>
       LET s == Last(settles')
       IN  /\ s.kind = "MingGang"                   => Table!Pay(s.among, s.idx)
           /\ s.kind \in {"AnGang", "BuGang", "ZiMo"} =>
                 Table!Pay(Table!Active(Status) \ {s.idx}, s.idx)
           /\ s.kind = "DianPao" => \E q \in WinnerLists(s.idx) : Table!PayWinners(q, s.idx)
  /\ phase' = "end" => Out(coin') \in Table!Settled(Out(coin), Status')

\* Whatever a kong, a win or the end of a hand does to the coins here is among the
\* things that XLMJRoom lets it do: who is broke after it, and who is not any more.
TableCoins == [][TableStep]_vars
=============================================================================
