------------------------- MODULE XLDecideQue_proofs -------------------------
(***************************************************************************)
(* For every number of seats and every hand: who has which suit in the     *)
(* state WaitDecideQue and after it.  One inductive invariant, QueInv,     *)
(* carries all of it; each action is taken against it once.                *)
(***************************************************************************)
EXTENDS XLDecideQue, TLAPS

(* The suit given to a seat that says nothing is a suit *)
LEMMA AutoQueIsSuit == ASSUME NEW i \in Seats PROVE AutoQue(i) \in Suits
BY DEF AutoQue, Suits

LEMMA QueInit == Init => QueInv
<1> SUFFICES ASSUME Init PROVE QueInv
  OBVIOUS
<1>1. TypeOK
  BY DEF Init, TypeOK, NoQue
<1> QED
  BY <1>1 DEF Init, QueInv, NoQue, OnlyBadAnswerHasNoQue, FirstAnswerStands, ToldUnlessLate, Suits

(* What has been noted when a wait ends: nothing new, or one valid answer *)
Noted(q) ==
  \/ q = que /\ wait' = wait /\ said' = said
  \/ \E i \in wait, t \in Suits :
       /\ q = [que EXCEPT ![i] = t]
       /\ wait' = wait \ {i}
       /\ said' = [said EXCEPT ![i] = t]

LEMMA QueOverPreserves ==
  ASSUME QueInv, phase # "Play", NEW q, Noted(q), weight' = weight, QueOver(wait', q)
  PROVE  QueInv'
<1> USE DEF TypeOK, QueInv
<1>auto. \A i \in Seats : AutoQue(i) \in Suits /\ AutoQue(i)' = AutoQue(i)
  BY AutoQueIsSuit DEF AutoQue
<1>q1. /\ q \in [Seats -> Suits \cup {"Max"}] /\ wait' \subseteq Seats
       /\ said' \in [Seats -> Types \cup {"Max"}]
  <2>1. CASE q = que /\ wait' = wait /\ said' = said
    BY <2>1
  <2>2. CASE \E i \in wait, t \in Suits :
               q = [que EXCEPT ![i] = t] /\ wait' = wait \ {i} /\ said' = [said EXCEPT ![i] = t]
    <3>1. PICK i \in wait, t \in Suits :
            q = [que EXCEPT ![i] = t] /\ wait' = wait \ {i} /\ said' = [said EXCEPT ![i] = t]
      BY <2>2
    <3>2. t \in Types
      BY DEF Types
    <3> QED
      BY <3>1, <3>2
  <2> QED
    BY <2>1, <2>2 DEF Noted
<1>q2. \A i \in Seats : i \in wait' <=> said'[i] = "Max"
  BY DEF Noted, Suits
<1>q3. \A i \in Seats :
         \/ q[i] = que[i] /\ said'[i] = said[i]
         \/ i \in wait /\ q[i] = said'[i] /\ q[i] \in Suits
  BY DEF Noted
<1>q4. \A i \in Seats : said'[i] \in Suits => q[i] = said'[i]
  BY <1>q3 DEF FirstAnswerStands
<1>q5. \A i \in Seats : i \in wait' => i \in wait /\ q[i] = que[i]
  BY <1>q1, <1>q2, <1>q3 DEF Suits
<1>1. CASE phase = "Doing"
  <2>1. phase' = "Play" /\ que' = q /\ told' = told
    BY <1>1 DEF QueOver
  <2>2. TypeOK'
    BY <2>1, <1>q1
  <2>3. \A i \in wait' : que'[i] = AutoQue(i)' /\ told'[i] = AutoQue(i)'
    BY <1>1, <2>1, <1>q1, <1>q5, <1>auto
  <2>4. OnlyBadAnswerHasNoQue'
    BY <1>1, <2>1, <1>q3 DEF OnlyBadAnswerHasNoQue, Suits
  <2>5. FirstAnswerStands'
    BY <2>1, <1>q4 DEF FirstAnswerStands
  <2>6. ToldUnlessLate'
    BY <1>1, <2>1, <1>auto, <1>q3 DEF ToldUnlessLate
  <2> QED
    BY <2>2, <2>3, <2>4, <2>5, <2>6, <1>q2
<1>2. CASE phase # "Doing"
  <2>0. phase = "Wait"
    BY <1>2
  <2>1. /\ phase' = "Doing" /\ told' = que'
        /\ que' = [i \in Seats |-> IF i \in wait' THEN AutoQue(i) ELSE q[i]]
    BY <1>2 DEF QueOver
  <2>2. TypeOK'
    BY <2>1, <1>auto, <1>q1
  <2>3. \A i \in wait' : que'[i] = AutoQue(i)' /\ told'[i] = AutoQue(i)'
    BY <2>1, <1>auto, <1>q1
  <2>4. FirstAnswerStands'
    BY <2>1, <1>q2, <1>q4 DEF FirstAnswerStands, Suits
  <2>5. OnlyBadAnswerHasNoQue'
    BY <2>1, <2>2, <2>4, <1>auto, <1>q2 DEF OnlyBadAnswerHasNoQue, FirstAnswerStands, Types, Suits
  <2>6. ToldUnlessLate'
    BY <2>1 DEF ToldUnlessLate
  <2> QED
    BY <2>2, <2>3, <2>4, <2>5, <2>6, <1>q2
<1> QED
  BY <1>1, <1>2

LEMMA QueNext == QueInv /\ [Next]_vars => QueInv'
<1> SUFFICES ASSUME QueInv, [Next]_vars PROVE QueInv'
  OBVIOUS
<1> USE DEF TypeOK, QueInv
<1>1. CASE TimeUp
  <2>1. Noted(que) /\ weight' = weight /\ phase # "Play" /\ QueOver(wait', que)
    BY <1>1 DEF TimeUp, Noted
  <2> QED
    BY <2>1, QueOverPreserves
<1>2. ASSUME NEW i \in Seats, NEW t \in Types, Decide(i, t) PROVE QueInv'
  <2>0. /\ said' = [said EXCEPT ![i] = t] /\ wait' = wait \ {i} /\ weight' = weight
        /\ phase # "Play" /\ i \in wait /\ said[i] = "Max"
    BY <1>2 DEF Decide, Answer
  <2>auto. \A j \in Seats : AutoQue(j)' = AutoQue(j)
    BY <2>0 DEF AutoQue
  <2>1. CASE t \in Suits /\ wait' = {}
    <3>1. Noted([que EXCEPT ![i] = t]) /\ QueOver(wait', [que EXCEPT ![i] = t])
      BY <1>2, <2>0, <2>1 DEF Decide, Noted
    <3> QED
      BY <3>1, <2>0, QueOverPreserves
  <2>2. CASE t \in Suits /\ wait' # {}
    <3>1. que' = [que EXCEPT ![i] = t] /\ phase' = phase /\ told' = told
      BY <1>2, <2>2 DEF Decide
    <3>2. TypeOK'
      BY <2>0, <2>2, <3>1
    <3>3. OnlyBadAnswerHasNoQue' /\ FirstAnswerStands'
      BY <2>0, <2>2, <3>1 DEF OnlyBadAnswerHasNoQue, FirstAnswerStands, Suits
    <3>4. ToldUnlessLate'
      BY <2>0, <2>2, <3>1, <2>auto DEF ToldUnlessLate
    <3> QED
      BY <2>0, <2>2, <3>1, <3>2, <3>3, <3>4, <2>auto DEF Suits
  <2>3. CASE t \notin Suits
    <3>1. que' = que /\ phase' = phase /\ told' = told
      BY <1>2, <2>3 DEF Decide
    <3>2. TypeOK'
      BY <2>0, <3>1
    <3>3. OnlyBadAnswerHasNoQue' /\ FirstAnswerStands'
      BY <2>0, <2>3, <3>1 DEF OnlyBadAnswerHasNoQue, FirstAnswerStands
    <3>4. ToldUnlessLate'
      BY <2>0, <3>1, <2>auto DEF ToldUnlessLate
    <3> QED
      BY <2>0, <2>3, <3>1, <3>2, <3>3, <3>4, <2>auto DEF Types, Suits
  <2> QED
    BY <2>1, <2>2, <2>3
<1>3. CASE UNCHANGED vars
  BY <1>3 DEF vars, AutoQue, OnlyBadAnswerHasNoQue, FirstAnswerStands, ToldUnlessLate
<1> QED
  BY <1>1, <1>2, <1>3 DEF Next

LEMMA QueInvariant == Spec => []QueInv
BY QueInit, QueNext, PTL DEF Spec

(* For every number of seats and every hand, only seats are awaited, and each   *)
(* seat has one of the three suits or none.                                     *)
THEOREM QueTypeCorrect == Spec => []TypeOK
<1>1. QueInv => TypeOK
  BY DEF QueInv
<1> QED
  BY <1>1, QueInvariant, PTL

(* Whoever has no suit when play has started sent a type that is none: the      *)
(* time-ups leave nobody without one.                                           *)
THEOREM QueGivenCorrect == Spec => []OnlyBadAnswerHasNoQue
<1>1. QueInv => OnlyBadAnswerHasNoQue
  BY DEF QueInv
<1> QED
  BY <1>1, QueInvariant, PTL

(* A first valid answer is never changed, by a later one or by a time-up.       *)
THEOREM FirstAnswerCorrect == Spec => []FirstAnswerStands
<1>1. QueInv => FirstAnswerStands
  BY DEF QueInv
<1> QED
  BY <1>1, QueInvariant, PTL

(* Only a seat that was given a suit can be playing with another one than the   *)
(* clients were told, and only after a late answer.                             *)
THEOREM QueToldCorrect == Spec => []ToldUnlessLate
<1>1. QueInv => ToldUnlessLate
  BY DEF QueInv
<1> QED
  BY <1>1, QueInvariant, PTL
=============================================================================
