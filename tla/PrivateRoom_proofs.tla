-------------------------- MODULE PrivateRoom_proofs --------------------------
(***************************************************************************)
(* PrivateRoom for every number of players, seats and circles: the         *)
(* invariants are inductive together, and a room whose first hand has      *)
(* started is closed by a message only with a majority of agreements.      *)
(***************************************************************************)
EXTENDS PrivateRoom, FiniteSetTheorems, TLAPS

IInv == TypeOK /\ SeatsRecorded /\ SeatsHeld /\ VoteInOrder /\ BooksBalance

-----------------------------------------------------------------------------
(* Sizes of sets of players.                                               *)

LEMMA Sizes ==
  /\ Cardinality({}) = 0
  /\ \A S \in SUBSET Players : IsFiniteSet(S) /\ Cardinality(S) \in Nat
  /\ \A T \in SUBSET Players : \A S \in SUBSET T :
        Cardinality(S) <= Cardinality(T) /\ (Cardinality(S) = Cardinality(T) => S = T)
<1>1. \A S \in SUBSET Players : IsFiniteSet(S) /\ Cardinality(S) \in Nat
  BY PlayersAssumption, FS_Subset, FS_CardinalityType
<1> QED
  BY <1>1, FS_Subset, FS_EmptySet

LEMMA OneMore ==
  \A S \in SUBSET Players : \A p \in Players :
     /\ Cardinality(S \cup {p}) = IF p \in S THEN Cardinality(S) ELSE Cardinality(S) + 1
     /\ Cardinality(S \ {p}) <= Cardinality(S)
BY Sizes, FS_AddElement

LEMMA AgreeingSubset == \A r : Agreeing(r) \subseteq Players
BY DEF Agreeing

LEMMA NobodyAgrees == Agreeing(NoReply) = {} /\ ~Refused(NoReply) /\ NoReply \in [Players -> Replies]
BY DEF Agreeing, Refused, NoReply, Replies

LEMMA VoteOverLemma == VoteOver => VoteInOrder'
<1> SUFFICES ASSUME VoteOver PROVE VoteInOrder'
  OBVIOUS
<1>1. reply' = NoReply /\ waiting' = FALSE /\ timer' = FALSE
  BY DEF VoteOver
<1>2. Agreeing(reply)' = {} /\ ~Refused(reply)'
  BY <1>1, NobodyAgrees DEF Agreeing, Refused
<1>3. 2 * Cardinality(Agreeing(reply))' <= SeatCnt
  BY <1>2, Sizes, SeatsAssumption
<1> QED
  BY <1>1, <1>2, <1>3 DEF VoteInOrder

-----------------------------------------------------------------------------
(* The vote.  One answer changes the replies at one player.                *)

Answer(r, p) == \E a \in {"agree", "disagree"} : r = [reply EXCEPT ![p] = a]

LEMMA AnswerLemma ==
  ASSUME NEW p \in Players, NEW r, TypeOK, Answer(r, p)
  PROVE  /\ r \in [Players -> Replies] /\ r # NoReply
         /\ Agreeing(r) \subseteq Agreeing(reply) \cup {p}
BY DEF TypeOK, Answer, Replies, NoReply, Agreeing

\* A vote that closes a room whose first hand has started has a majority
LEMMA DismissedLemma ==
  ASSUME NEW p \in seated, NEW r, IInv, room # "none", ~NotOpen, Answer(r, p), Dismissed(r)
  PROVE  2 * Cardinality(Agreeing(reply) \cup {p}) > SeatCnt
<1>1. p \in Players /\ seated \in SUBSET Players
  BY DEF IInv, TypeOK
<1>2. Cardinality(seated) = SeatCnt
  BY DEF IInv, SeatsHeld
<1>3. Agreeing(r) \subseteq Agreeing(reply) \cup {p} /\ Agreeing(reply) \cup {p} \in SUBSET Players
  BY <1>1, AnswerLemma, AgreeingSubset DEF IInv
<1>4. /\ Cardinality(Agreeing(r)) <= Cardinality(Agreeing(reply) \cup {p})
      /\ Cardinality(Agreeing(r)) \in Nat /\ Cardinality(Agreeing(reply) \cup {p}) \in Nat
  BY <1>3, Sizes
<1>5. 2 * Agreements(r) > SeatCnt
  BY DEF Dismissed, OwnerDismisses
<1>6. 2 * Cardinality(Agreeing(r)) > SeatCnt
  BY <1>2, <1>4, <1>5, SeatsAssumption DEF Agreements
<1> QED
  BY <1>4, <1>6, SeatsAssumption

\* onCheckDismissReply keeps the invariant, whoever answers
LEMMA CheckLemma ==
  ASSUME NEW p \in seated, NEW r, IInv, Answer(r, p), CheckReplies(r),
         waiting \/ r[p] = "agree", UNCHANGED <<phase, table, hands>>
  PROVE  IInv'
<1> USE DEF table, hands
<1>1. /\ p \in Players /\ seated \in SUBSET Players /\ room # "none"
      /\ Cardinality(seated) \in Nat /\ Cardinality(seated) <= SeatCnt
  BY Sizes DEF IInv, TypeOK, SeatsRecorded, SeatsHeld
<1>2. r \in [Players -> Replies] /\ r # NoReply /\ Cardinality(Agreeing(r)) \in Nat
  BY <1>1, AnswerLemma, AgreeingSubset, Sizes DEF IInv
<1>3. UNCHANGED NotOpen
  BY DEF NotOpen
<1>4. CASE Dismissed(r) /\ room' = "closed" /\ CloseRoom /\ VoteOver
  <2>1. TypeOK'
    BY <1>4, NobodyAgrees DEF IInv, TypeOK, CloseRoom, VoteOver
  <2>2. SeatsRecorded' /\ SeatsHeld'
    BY <1>1, <1>3, <1>4 DEF IInv, SeatsRecorded, SeatsHeld
  <2>3. VoteInOrder'
    BY <1>4, VoteOverLemma
  <2>4. BooksBalance'
    BY <1>4 DEF IInv, BooksBalance, CloseRoom, NotOpen
  <2> QED
    BY <2>1, <2>2, <2>3, <2>4 DEF IInv
<1>5. CASE VoteOver /\ UNCHANGED <<room, billed, stays>>
  <2>1. TypeOK'
    BY <1>5, NobodyAgrees DEF IInv, TypeOK, VoteOver
  <2>2. SeatsRecorded' /\ SeatsHeld'
    BY <1>3, <1>5 DEF IInv, SeatsRecorded, SeatsHeld
  <2>3. VoteInOrder'
    BY <1>5, VoteOverLemma
  <2>4. BooksBalance'
    BY <1>5 DEF IInv, BooksBalance
  <2> QED
    BY <2>1, <2>2, <2>3, <2>4 DEF IInv
<1>6. CASE /\ ~Dismissed(r) /\ ~Refused(r)
           /\ reply' = r /\ waiting' = TRUE /\ timer' = (timer \/ ~waiting)
           /\ UNCHANGED <<room, billed, stays>>
  <2>1. TypeOK'
    BY <1>2, <1>6 DEF IInv, TypeOK
  <2>2. SeatsRecorded' /\ SeatsHeld'
    BY <1>3, <1>6 DEF IInv, SeatsRecorded, SeatsHeld
  <2>3. timer' = TRUE
    BY <1>6 DEF IInv, VoteInOrder
  <2>4. 2 * Cardinality(Agreeing(r)) <= SeatCnt
    BY <1>1, <1>2, <1>6, SeatsAssumption DEF Dismissed, Agreements
  <2>5. VoteInOrder'
    BY <1>1, <1>2, <1>6, <2>3, <2>4 DEF VoteInOrder, Refused, Agreeing
  <2>6. BooksBalance'
    BY <1>6 DEF IInv, BooksBalance
  <2> QED
    BY <2>1, <2>2, <2>5, <2>6 DEF IInv
<1> QED
  BY <1>4, <1>5, <1>6 DEF CheckReplies

-----------------------------------------------------------------------------
(* The actions.                                                            *)

LEMMA InitLemma == Init => IInv
<1> SUFFICES ASSUME Init PROVE IInv
  OBVIOUS
<1>1. left \in 0..255
  BY CirclesAssumption DEF Init
<1>2. TypeOK /\ SeatsRecorded
  BY <1>1, NobodyAgrees DEF Init, TypeOK, SeatsRecorded
<1>3. SeatsHeld
  BY Sizes, SeatsAssumption DEF Init, SeatsHeld, NotOpen
<1>4. VoteInOrder
  <2>1. Agreeing(reply) = {} /\ ~Refused(reply)
    BY NobodyAgrees DEF Init
  <2>2. 2 * Cardinality(Agreeing(reply)) <= SeatCnt
    BY <2>1, Sizes, SeatsAssumption
  <2> QED
    BY <2>1, <2>2 DEF Init, VoteInOrder
<1>5. BooksBalance
  BY CirclesAssumption DEF Init, BooksBalance
<1> QED
  BY <1>2, <1>3, <1>4, <1>5 DEF IInv

\* A step that leaves the vote alone keeps it in order
LEMMA VoteKept ==
  VoteInOrder /\ UNCHANGED vote /\ (room' = "none" => ~waiting) => VoteInOrder'
BY DEF vote, VoteInOrder

LEMMA BooksKept ==
  BooksBalance /\ UNCHANGED <<room, left, consumed, charged, billed>> => BooksBalance'
BY DEF BooksBalance

LEMMA EnterLemma == ASSUME NEW p \in Players, IInv, Enter(p) PROVE IInv'
<1> USE DEF Enter
<1>1. seated \in SUBSET Players /\ Cardinality(seated) \in Nat /\ Cardinality(seated) <= SeatCnt
  BY Sizes DEF IInv, TypeOK, SeatsHeld
<1>2. TypeOK'
  BY DEF IInv, TypeOK, hands, vote
<1>3. SeatsRecorded'
  BY DEF IInv, SeatsRecorded
<1>4. SeatsHeld'
  <2>1. CASE p \in seated
    <3>1. seated' = seated
      BY <2>1
    <3> QED
      BY <3>1 DEF IInv, SeatsHeld, hands, NotOpen
  <2>2. CASE p \notin seated
    <3>1. Cardinality(seated) < SeatCnt
      BY <1>1, <2>2, SeatsAssumption DEF IsFull
    <3>2. Cardinality(seated') = Cardinality(seated) + 1
      BY <1>1, <2>2, OneMore
    <3>3. Cardinality(seated) # SeatCnt
      BY <1>1, <3>1, SeatsAssumption
    <3>4. NotOpen'
      BY <3>3 DEF IInv, SeatsHeld, hands, NotOpen
    <3> QED
      BY <1>1, <3>1, <3>2, <3>4, SeatsAssumption DEF SeatsHeld
  <2> QED
    BY <2>1, <2>2
<1>5. VoteInOrder' /\ BooksBalance'
  BY VoteKept, BooksKept DEF IInv, hands
<1> QED
  BY <1>2, <1>3, <1>4, <1>5 DEF IInv

LEMMA LetGoLemma == ASSUME NEW p \in Players, IInv, LetGo(p) PROVE IInv'
<1> USE DEF LetGo
<1>1. TypeOK'
  BY DEF IInv, TypeOK, table, hands, vote
<1>2. SeatsRecorded' /\ SeatsHeld'
  BY DEF IInv, SeatsRecorded, SeatsHeld, NotOpen, table, hands
<1>3. VoteInOrder' /\ BooksBalance'
  BY VoteKept, BooksKept DEF IInv, hands, VoteInOrder
<1> QED
  BY <1>1, <1>2, <1>3 DEF IInv

LEMMA LeaveSeatLemma == ASSUME NEW p \in Players, IInv, LeaveSeat(p) PROVE IInv'
<1> USE DEF LeaveSeat
<1>1. TypeOK'
  BY DEF IInv, TypeOK, hands, vote
<1>2. SeatsRecorded'
  BY DEF IInv, SeatsRecorded
<1>3. SeatsHeld'
  <2>1. seated \in SUBSET Players /\ seated' \in SUBSET Players
    BY DEF IInv, TypeOK
  <2>2. Cardinality(seated') <= Cardinality(seated)
    BY <2>1, OneMore
  <2>3. /\ Cardinality(seated) \in Nat /\ Cardinality(seated') \in Nat
        /\ Cardinality(seated) <= SeatCnt
    BY <2>1, Sizes DEF IInv, SeatsHeld
  <2>4. NotOpen'
    BY DEF NotOpen, hands
  <2> QED
    BY <2>2, <2>3, <2>4, SeatsAssumption DEF SeatsHeld
<1>4. VoteInOrder' /\ BooksBalance'
  BY VoteKept, BooksKept DEF IInv, hands, VoteInOrder
<1> QED
  BY <1>1, <1>2, <1>3, <1>4 DEF IInv

\* The hand starts when as many players are ready as there are seats: then
\* everybody at the table is ready and no seat is empty
LEMMA SetReadyLemma == ASSUME NEW p \in Players, IInv, SetReady(p) PROVE IInv'
<1> USE DEF SetReady
<1>1. playing' \in BOOLEAN
  OBVIOUS
<1>2. TypeOK'
  BY <1>1 DEF IInv, TypeOK, vote
<1>3. SeatsRecorded'
  BY DEF IInv, SeatsRecorded
<1>4. SeatsHeld'
  <2>1. ready \cup {p} \in SUBSET seated /\ seated \in SUBSET Players
    BY DEF IInv, TypeOK
  <2>2. /\ Cardinality(ready \cup {p}) <= Cardinality(seated)
        /\ Cardinality(ready \cup {p}) \in Nat /\ Cardinality(seated) \in Nat
        /\ Cardinality(seated) <= SeatCnt
    BY <2>1, Sizes DEF IInv, SeatsHeld
  <2>3. ASSUME playing' PROVE Cardinality(seated) = SeatCnt
    <3>1. Cardinality(ready \cup {p}) = SeatCnt
      BY <2>3
    <3> QED
      BY <2>2, <3>1, SeatsAssumption
  <2> QED
    BY <2>3 DEF IInv, SeatsHeld, NotOpen
<1>5. VoteInOrder' /\ BooksBalance'
  BY VoteKept, BooksKept DEF IInv, VoteInOrder
<1> QED
  BY <1>2, <1>3, <1>4, <1>5 DEF IInv

LEMMA ApplyLemma == ASSUME NEW p \in Players, IInv, Apply(p) PROVE IInv'
<1> DEFINE r == [reply EXCEPT ![p] = "agree"]
<1>1. Answer(r, p) /\ r[p] = "agree"
  BY DEF IInv, TypeOK, Answer
<1> QED
  BY <1>1, CheckLemma DEF Apply

LEMMA ReplyLemma == ASSUME NEW p \in Players, IInv, Reply(p) PROVE IInv'
<1>1. PICK a \in {"agree", "disagree"} : CheckReplies([reply EXCEPT ![p] = a])
  BY DEF Reply
<1>2. Answer([reply EXCEPT ![p] = a], p)
  BY <1>1 DEF Answer
<1> QED
  BY <1>1, <1>2, CheckLemma DEF Reply

LEMMA TimeOutLemma == IInv /\ TimeOut => IInv'
<1> SUFFICES ASSUME IInv, TimeOut PROVE IInv'
  OBVIOUS
<1> USE DEF TimeOut
<1>1. room # "none"
  BY DEF IInv, VoteInOrder
<1>2. TypeOK'
  BY NobodyAgrees DEF IInv, TypeOK, CloseRoom, VoteOver, table, hands
<1>3. SeatsRecorded' /\ SeatsHeld'
  BY <1>1 DEF IInv, SeatsRecorded, SeatsHeld, NotOpen, table, hands
<1>4. VoteInOrder'
  BY VoteOverLemma
<1>5. BooksBalance'
  BY DEF IInv, BooksBalance, CloseRoom, NotOpen, hands
<1> QED
  BY <1>2, <1>3, <1>4, <1>5 DEF IInv

\* The byte of the circles does not wrap
LEMMA CircleLemma ==
  ASSUME TypeOK, BooksBalance, room = "open", CountCircle
  PROVE  /\ left' = left - 1 /\ left' \in 0..255 /\ left' < Circles /\ consumed'
         /\ charged' = Circles \div CirclesPerCard /\ charged' \in Nat
<1>1. left \in 1..255 /\ left <= Circles
  BY DEF TypeOK, BooksBalance
<1>2. (left + 255) % 256 = left - 1
  BY <1>1, SMT
<1>3. left' = left - 1 /\ left' \in 0..255 /\ left' < Circles
  BY <1>1, <1>2, CirclesAssumption DEF CountCircle
<1>4. Circles \div CirclesPerCard \in Nat
  BY CirclesAssumption, CardAssumption, SMT
<1>5. CASE consumed
  BY <1>3, <1>4, <1>5 DEF BooksBalance, CountCircle
<1>6. CASE ~consumed
  <2>1. left = Circles
    BY <1>1, <1>6, CirclesAssumption DEF BooksBalance
  <2>2. charged = 0 /\ charged' = charged + left \div CirclesPerCard
    BY <1>6 DEF BooksBalance, CountCircle
  <2> QED
    BY <1>3, <1>4, <2>1, <2>2 DEF CountCircle
<1> QED
  BY <1>5, <1>6

LEMMA GameOverLemma == IInv /\ GameOver => IInv'
<1> SUFFICES ASSUME IInv, GameOver PROVE IInv'
  OBVIOUS
<1> USE DEF GameOver
<1>1. /\ left' = left - 1 /\ left' \in 0..255 /\ left' < Circles /\ consumed'
      /\ charged' = Circles \div CirclesPerCard /\ charged' \in Nat /\ consumed' \in BOOLEAN
  BY CircleLemma DEF IInv, CountCircle
<1>2. CASE left' > 0 /\ playing' = FALSE /\ UNCHANGED <<room, table, billed, vote, stays>>
  <2>1. TypeOK'
    BY <1>1, <1>2 DEF IInv, TypeOK, table, vote
  <2>2. SeatsRecorded' /\ SeatsHeld'
    BY <1>2 DEF IInv, SeatsRecorded, SeatsHeld, NotOpen, table
  <2>3. VoteInOrder'
    BY <1>2, VoteKept DEF IInv
  <2>4. left' <= Circles
    BY <1>1, CirclesAssumption
  <2>5. BooksBalance'
    BY <1>1, <1>2, <2>4, Zenon DEF IInv, BooksBalance
  <2> QED
    BY <2>1, <2>2, <2>3, <2>5 DEF IInv
<1>3. CASE left' = 0 /\ CloseRoom /\ Delete
  <2>1. TypeOK'
    BY <1>1, <1>3, NobodyAgrees DEF IInv, TypeOK, CloseRoom, Delete, VoteOver
  <2>2. SeatsRecorded' /\ SeatsHeld'
    BY <1>3, Sizes, SeatsAssumption DEF SeatsRecorded, SeatsHeld, Delete
  <2>3. VoteInOrder'
    BY <1>3, VoteOverLemma DEF Delete
  <2>4. billed' /\ room' = "none"
    BY <1>3 DEF CloseRoom, NotOpen, Delete
  <2>5. BooksBalance'
    BY <1>1, <2>4, CirclesAssumption DEF BooksBalance
  <2> QED
    BY <2>1, <2>2, <2>3, <2>5 DEF IInv
<1> QED
  BY <1>2, <1>3

LEMMA DeleteLemma == IInv /\ DeleteClosed => IInv'
<1> SUFFICES ASSUME IInv, DeleteClosed PROVE IInv'
  OBVIOUS
<1> USE DEF DeleteClosed, Delete
<1>1. TypeOK'
  BY NobodyAgrees DEF IInv, TypeOK, VoteOver
<1>2. SeatsRecorded' /\ SeatsHeld'
  BY Sizes, SeatsAssumption DEF SeatsRecorded, SeatsHeld
<1>3. VoteInOrder'
  BY VoteOverLemma
<1>4. BooksBalance'
  BY DEF IInv, BooksBalance
<1> QED
  BY <1>1, <1>2, <1>3, <1>4 DEF IInv

\* Steps of the loop that move only the phase, and stuttering
LEMMA QuietLemma ==
  IInv /\ phase' \in {"receive", "timers", "update"}
       /\ UNCHANGED <<room, table, hands, billed, vote, stays>> => IInv'
<1> SUFFICES ASSUME IInv, phase' \in {"receive", "timers", "update"},
                    UNCHANGED <<room, table, hands, billed, vote, stays>>
             PROVE  IInv'
  OBVIOUS
<1>1. TypeOK'
  BY DEF IInv, TypeOK, table, hands, vote
<1>2. SeatsRecorded' /\ SeatsHeld'
  BY DEF IInv, SeatsRecorded, SeatsHeld, NotOpen, table, hands
<1>3. VoteInOrder' /\ BooksBalance'
  BY VoteKept, BooksKept DEF IInv, hands, VoteInOrder
<1> QED
  BY <1>1, <1>2, <1>3 DEF IInv

LEMMA NextLemma == IInv /\ [Next]_vars => IInv'
<1> SUFFICES ASSUME IInv, [Next]_vars PROVE IInv'
  OBVIOUS
<1>1. CASE Message
  BY <1>1, EnterLemma, LetGoLemma, LeaveSeatLemma, SetReadyLemma, ApplyLemma, ReplyLemma
     DEF Message
<1>2. CASE TimeOut
  BY <1>2, TimeOutLemma
<1>3. CASE GameOver
  BY <1>3, GameOverLemma
<1>4. CASE DeleteClosed
  BY <1>4, DeleteLemma
<1>5. CASE EndReceive \/ EndTimers \/ Idle
  BY <1>5, QuietLemma DEF EndReceive, EndTimers, Idle
<1>6. CASE UNCHANGED vars
  BY <1>6, QuietLemma DEF vars, IInv, TypeOK
<1> QED
  BY <1>1, <1>2, <1>3, <1>4, <1>5, <1>6 DEF Next, MainLoop

-----------------------------------------------------------------------------
(* The theorems.                                                           *)

\* The inductive invariant: the types and the four invariants together
THEOREM Invariant == Spec => []IInv
BY InitLemma, NextLemma, PTL DEF Spec

\* For every number of players and circles, the room's variables keep their types:
\* in particular only a player with a seat is ever ready
THEOREM RoomTypeCorrect == Spec => []TypeOK
<1>1. IInv => TypeOK
  BY DEF IInv
<1> QED
  BY <1>1, Invariant, PTL

\* For every number of seats, no player has a record without a seat or a seat
\* without a record, and DataServer is told of every move
THEOREM SeatsRecordedCorrect == Spec => []SeatsRecorded
<1>1. IInv => SeatsRecorded
  BY DEF IInv
<1> QED
  BY <1>1, Invariant, PTL

\* For every number of seats, a table whose first hand has started stays full
THEOREM SeatsHeldCorrect == Spec => []SeatsHeld
<1>1. IInv => SeatsHeld
  BY DEF IInv
<1> QED
  BY <1>1, Invariant, PTL

\* For every number of seats, no decided vote is left waiting
THEOREM VoteInOrderCorrect == Spec => []VoteInOrder
<1>1. IInv => VoteInOrder
  BY DEF IInv
<1> QED
  BY <1>1, Invariant, PTL

\* For every number of circles, the owner pays once and every room paid for
\* is billed
THEOREM BooksBalanceCorrect == Spec => []BooksBalance
<1>1. IInv => BooksBalance
  BY DEF IInv
<1> QED
  BY <1>1, Invariant, PTL

\* Once the first hand has started, a message closes the room only with a
\* majority of agreements
THEOREM MajorityRulesCorrect == Spec => MajorityRules
<1> DEFINE Closes == phase = "receive" /\ room = "open" /\ room' = "closed" /\ ~NotOpen
<1> DEFINE Majority == \E p \in seated : 2 * Cardinality(Agreeing(reply) \cup {p}) > SeatCnt
<1>1. ASSUME IInv, Next, Closes PROVE Majority
  <2>1. \E p \in seated : Apply(p) \/ Reply(p)
    BY <1>1 DEF Next, Message, MainLoop, Enter, LetGo, LeaveSeat, SetReady, Apply, Reply,
       TimeOut, EndReceive, EndTimers, GameOver, DeleteClosed, Idle
  <2>2. PICK p \in seated : Apply(p) \/ Reply(p)
    BY <2>1
  <2>3. \E a \in {"agree", "disagree"} : CheckReplies([reply EXCEPT ![p] = a])
    BY <2>2 DEF Apply, Reply
  <2>4. PICK a \in {"agree", "disagree"} : CheckReplies([reply EXCEPT ![p] = a])
    BY <2>3
  <2>5. Dismissed([reply EXCEPT ![p] = a])
    BY <1>1, <2>4 DEF CheckReplies
  <2>6. Answer([reply EXCEPT ![p] = a], p)
    BY DEF Answer
  <2> QED
    BY <1>1, <2>5, <2>6, DismissedLemma
<1>2. IInv /\ [Next]_vars => [Closes => Majority]_vars
  BY <1>1
<1> QED
  BY <1>2, Invariant, PTL DEF Spec, MajorityRules
=============================================================================
