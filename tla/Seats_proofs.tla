----------------------------- MODULE Seats_proofs -----------------------------
(***************************************************************************)
(* The safety invariants of Seats, for any number of players and tables    *)
(* and without the bounds on sessions and messages that TLC needs.         *)
(*                                                                         *)
(* What the invariant says of one player is stated of plain values: the    *)
(* messages mj and ds on their way, the set `in' of rooms he sits in, and  *)
(* the state g and room a that DataServer has for him.  Each lemma follows *)
(* one change of these values; the steps of the specification cite them.   *)
(* What a player was told in the answer to another one is not counted as   *)
(* what DataServer heard of him: Known is the state without it.            *)
(***************************************************************************)
EXTENDS Seats, TLAPS

IsEnter(m)     == m.kind = "enter"
Accepts(m)     == m.kind = "answer" /\ m.room # NoRoom
In(p)          == {r \in Rooms : InRoom(p, r)}
Known(p)       == IF p \in misled THEN "NotIn" ELSE game[p]

\* Losers have a seat; a session that sits or asks is one somebody logged in with;
\* nothing is remembered of a player who has no object
Basic ==
  /\ \A r \in Rooms : lost[r] \subseteq Seated(r)
  /\ \A p \in Players : obj[p] = "online" => sess[p] # 0
  /\ \A p \in Players : obj[p] = "none" => game[p] = "NotIn"
  /\ \A p \in Players : \A i \in 1..Len(toMJ[p]) :
       IF IsEnter(toMJ[p][i]) THEN toMJ[p][i].sess # 0 ELSE toMJ[p][i].room \in Rooms

\* An accepted player sits in the room, unless the report that he has left it
\* follows the answer
Heard(ds, in, g, a) ==
  /\ g = "StayIn" => a \in in \/ \E i \in 1..Len(ds) : ds[i] = DoLeave(a)
  /\ \A i \in 1..Len(ds) : Accepts(ds[i]) =>
       \/ ds[i].room \in in
       \/ \E j \in 1..Len(ds) : i < j /\ ds[j] = DoLeave(ds[i].room)

\* At most one entry of the player is under way, and only while DataServer has him
\* Entering; wherever he sits, DataServer has him there or he is on his way back
\* to there
Tracked(mj, ds, in, g, a) ==
  /\ \A i, j \in 1..Len(mj) : IsEnter(mj[i]) /\ IsEnter(mj[j]) => i = j
  /\ \A i, j \in 1..Len(ds) : Accepts(ds[i]) /\ Accepts(ds[j]) => i = j
  /\ \A i \in 1..Len(mj), j \in 1..Len(ds) : ~(IsEnter(mj[i]) /\ Accepts(ds[j]))
  /\ Coming(mj, ds) => g = "Entering"
  /\ \A r \in in :
       /\ g # "NotIn" /\ (g = "StayIn" => a = r)
       /\ \A i \in 1..Len(mj) : IsEnter(mj[i]) => mj[i].room = r
       /\ \A i \in 1..Len(ds) : Accepts(ds[i]) => ds[i].room = r
       /\ \A q \in in : q = r

HeardAll   == \A p \in Players : Heard(toDS[p], In(p), Known(p), at[p])
TrackedAll ==
  \A p \in Players \ forgot : Tracked(toMJ[p], toDS[p], In(p), game[p], at[p])

IInv == TypeOK /\ Basic /\ HeardAll /\ TrackedAll

-----------------------------------------------------------------------------
(* Sequences.                                                              *)

LEMMA TailOf ==
  ASSUME NEW S, NEW q \in Seq(S), q # <<>>
  PROVE  /\ Tail(q) \in Seq(S) /\ Len(q) \in Nat /\ Len(Tail(q)) = Len(q) - 1
         /\ Head(q) = q[1] /\ 1 \in 1..Len(q) /\ Head(q) \in S
         /\ \A i \in 1..Len(Tail(q)) : Tail(q)[i] = q[i + 1] /\ i + 1 \in 1..Len(q)
         /\ \A j \in 1..Len(q) : j # 1 => j - 1 \in 1..Len(Tail(q))
<1>1. Tail(q) \in Seq(S) /\ Len(q) \in Nat /\ Len(q) > 0 /\ Len(Tail(q)) = Len(q) - 1
  OBVIOUS
<1>2. \A i \in 1..Len(Tail(q)) : Tail(q)[i] = q[i + 1]
  OBVIOUS
<1>3. Head(q) = q[1] /\ Head(q) \in S
  BY <1>1
<1> QED
  BY <1>1, <1>2, <1>3

LEMMA AppendOf ==
  ASSUME NEW S, NEW q \in Seq(S), NEW e \in S
  PROVE  /\ Append(q, e) \in Seq(S) /\ Len(q) \in Nat /\ Len(Append(q, e)) = Len(q) + 1
         /\ \A i \in 1..Len(q) : Append(q, e)[i] = q[i]
         /\ Append(q, e)[Len(q) + 1] = e
         /\ \A i \in 1..Len(Append(q, e)) : i \in 1..Len(q) \/ i = Len(q) + 1
OBVIOUS

LEMMA OneMore ==
  ASSUME NEW S, NEW q \in Seq(S), NEW e \in S, NEW f \in S
  PROVE  /\ q \o <<e>> \o <<>> = Append(q, e)
         /\ q \o <<e>> \o <<f>> = Append(Append(q, e), f)
         /\ q \o <<>> = q /\ q \o <<e>> = Append(q, e)
OBVIOUS

-----------------------------------------------------------------------------
(* What is heard.                                                          *)

LEMMA HeardIdle ==
  ASSUME NEW ds, NEW in, NEW g, NEW a, NEW h, NEW b, Heard(ds, in, g, a), h # "StayIn"
  PROVE  Heard(ds, in, h, b)
BY DEF Heard

LEMMA HeardTail ==
  ASSUME NEW ds \in Seq(ToDS), ds # <<>>, NEW in, NEW g, NEW a,
         Heard(ds, in, g, a), g # "StayIn" \/ Head(ds).kind # "doLeave"
  PROVE  Heard(Tail(ds), in, g, a)
<1>1. ASSUME g = "StayIn", a \notin in
      PROVE  \E i \in 1..Len(Tail(ds)) : Tail(ds)[i] = DoLeave(a)
  <2>1. PICK i \in 1..Len(ds) : ds[i] = DoLeave(a)
    BY <1>1 DEF Heard
  <2>2. i # 1
    BY <1>1, <2>1, TailOf DEF DoLeave
  <2>3. i - 1 \in 1..Len(Tail(ds)) /\ Tail(ds)[i - 1] = ds[i]
    BY <2>2, TailOf
  <2> QED
    BY <2>1, <2>3
<1>2. ASSUME NEW i \in 1..Len(Tail(ds)), Accepts(Tail(ds)[i]), Tail(ds)[i].room \notin in
      PROVE  \E j \in 1..Len(Tail(ds)) : i < j /\ Tail(ds)[j] = DoLeave(Tail(ds)[i].room)
  <2>1. i + 1 \in 1..Len(ds) /\ ds[i + 1] = Tail(ds)[i]
    BY TailOf
  <2>2. PICK j \in 1..Len(ds) : i + 1 < j /\ ds[j] = DoLeave(Tail(ds)[i].room)
    BY <1>2, <2>1 DEF Heard
  <2>3. j # 1 /\ j - 1 \in 1..Len(Tail(ds)) /\ i < j - 1
    BY <2>1, <2>2, TailOf
  <2>4. Tail(ds)[j - 1] = ds[j]
    BY <2>3, TailOf
  <2> QED
    BY <2>2, <2>3, <2>4
<1> QED
  BY <1>1, <1>2 DEF Heard

LEMMA HeardAccept ==
  ASSUME NEW ds \in Seq(ToDS), ds # <<>>, NEW in, NEW g, NEW a,
         Heard(ds, in, g, a), Accepts(Head(ds))
  PROVE  Heard(Tail(ds), in, "StayIn", Head(ds).room)
<1> DEFINE r == Head(ds).room
<1>1. Heard(Tail(ds), in, "NotIn", a)
  BY HeardIdle, HeardTail
<1>2. ASSUME r \notin in PROVE \E i \in 1..Len(Tail(ds)) : Tail(ds)[i] = DoLeave(r)
  <2>1. PICK j \in 1..Len(ds) : 1 < j /\ ds[j] = DoLeave(r)
    BY <1>2, TailOf DEF Heard
  <2>2. j - 1 \in 1..Len(Tail(ds)) /\ Tail(ds)[j - 1] = ds[j]
    BY <2>1, TailOf
  <2> QED
    BY <2>1, <2>2
<1> QED
  BY <1>1, <1>2 DEF Heard

LEMMA HeardAppend ==
  ASSUME NEW ds \in Seq(ToDS), NEW e \in ToDS, NEW in, NEW more, NEW g, NEW a,
         Heard(ds, in, g, a), in \subseteq more, Accepts(e) => e.room \in more
  PROVE  Heard(Append(ds, e), more, g, a)
<1> DEFINE d == Append(ds, e)
<1>1. /\ Len(ds) \in Nat /\ Len(d) = Len(ds) + 1
      /\ \A i \in 1..Len(ds) : d[i] = ds[i] /\ i \in 1..Len(d)
      /\ d[Len(ds) + 1] = e
      /\ \A i \in 1..Len(d) : i \in 1..Len(ds) \/ i = Len(ds) + 1
  BY AppendOf
<1> HIDE DEF d
<1>2. g = "StayIn" => a \in more \/ \E i \in 1..Len(d) : d[i] = DoLeave(a)
  BY <1>1 DEF Heard
<1>3. ASSUME NEW i \in 1..Len(d), Accepts(d[i])
      PROVE  d[i].room \in more \/ \E j \in 1..Len(d) : i < j /\ d[j] = DoLeave(d[i].room)
  <2>1. CASE i \in 1..Len(ds)
    BY <1>1, <1>3, <2>1 DEF Heard
  <2>2. CASE i = Len(ds) + 1
    BY <1>1, <1>3, <2>2
  <2> QED
    BY <1>1, <2>1, <2>2
<1>4. Heard(d, more, g, a)
  BY <1>2, <1>3 DEF Heard
<1> QED
  BY <1>4 DEF d

LEMMA HeardLeave ==
  ASSUME NEW ds \in Seq(ToDS), NEW r \in Rooms, NEW in, NEW less, NEW g, NEW a,
         Heard(ds, in, g, a), in \ {r} \subseteq less
  PROVE  Heard(Append(ds, DoLeave(r)), less, g, a)
<1> DEFINE d == Append(ds, DoLeave(r))
<1>0. DoLeave(r) \in ToDS
  BY DEF DoLeave, ToDS, MaybeRoom
<1>1. /\ Len(ds) \in Nat /\ Len(d) = Len(ds) + 1
      /\ \A i \in 1..Len(ds) : d[i] = ds[i] /\ i \in 1..Len(d)
      /\ d[Len(ds) + 1] = DoLeave(r)
      /\ \A i \in 1..Len(d) : i \in 1..Len(ds) \/ i = Len(ds) + 1
  BY <1>0, AppendOf
<1> HIDE DEF d
<1>5. Len(ds) + 1 \in 1..Len(d)
  BY <1>1
<1>2. g = "StayIn" => a \in less \/ \E i \in 1..Len(d) : d[i] = DoLeave(a)
  BY <1>1, <1>5 DEF Heard
<1>3. ASSUME NEW i \in 1..Len(d), Accepts(d[i])
      PROVE  d[i].room \in less \/ \E j \in 1..Len(d) : i < j /\ d[j] = DoLeave(d[i].room)
  <2>1. CASE i \in 1..Len(ds)
    <3>1. i < Len(ds) + 1
      BY <1>1, <2>1
    <3> QED
      BY <1>1, <1>3, <1>5, <2>1, <3>1 DEF Heard
  <2>2. i # Len(ds) + 1
    BY <1>1, <1>3 DEF Accepts, DoLeave
  <2> QED
    BY <1>1, <2>1, <2>2
<1>4. Heard(d, less, g, a)
  BY <1>2, <1>3 DEF Heard
<1> QED
  BY <1>4 DEF d
-----------------------------------------------------------------------------
(* What is tracked.                                                        *)

LEMMA TrackedFewer ==
  ASSUME NEW mj, NEW ds, NEW in, NEW less, NEW g, NEW a,
         Tracked(mj, ds, in, g, a), less \subseteq in
  PROVE  Tracked(mj, ds, less, g, a)
BY DEF Tracked

LEMMA TrackedTailDS ==
  ASSUME NEW mj, NEW ds \in Seq(ToDS), ds # <<>>, NEW in, NEW g, NEW a,
         Tracked(mj, ds, in, g, a)
  PROVE  Tracked(mj, Tail(ds), in, g, a)
<1> DEFINE d == Tail(ds)
<1>1. \A i \in 1..Len(d) : d[i] = ds[i + 1] /\ i + 1 \in 1..Len(ds)
  BY TailOf
<1>2. \A i, j \in 1..Len(d) : i + 1 = j + 1 => i = j
  OBVIOUS
<1> HIDE DEF d
<1>3. Coming(mj, d) => Coming(mj, ds)
  BY <1>1 DEF Coming
<1>4. \A i, j \in 1..Len(d) : Accepts(d[i]) /\ Accepts(d[j]) => i = j
  BY <1>1, <1>2 DEF Tracked
<1>5. Tracked(mj, d, in, g, a)
  BY <1>1, <1>3, <1>4 DEF Tracked
<1> QED
  BY <1>5 DEF d

LEMMA TrackedTailMJ ==
  ASSUME NEW mj \in Seq(ToMJ), mj # <<>>, NEW ds, NEW in, NEW g, NEW a,
         Tracked(mj, ds, in, g, a)
  PROVE  Tracked(Tail(mj), ds, in, g, a)
<1> DEFINE m == Tail(mj)
<1>1. \A i \in 1..Len(m) : m[i] = mj[i + 1] /\ i + 1 \in 1..Len(mj)
  BY TailOf
<1>2. \A i, j \in 1..Len(m) : i + 1 = j + 1 => i = j
  OBVIOUS
<1> HIDE DEF m
<1>3. Coming(m, ds) => Coming(mj, ds)
  BY <1>1 DEF Coming
<1>4. \A i, j \in 1..Len(m) : IsEnter(m[i]) /\ IsEnter(m[j]) => i = j
  BY <1>1, <1>2 DEF Tracked
<1>5. Tracked(m, ds, in, g, a)
  BY <1>1, <1>3, <1>4 DEF Tracked
<1> QED
  BY <1>5 DEF m

LEMMA TrackedReport ==
  ASSUME NEW mj, NEW ds \in Seq(ToDS), NEW e \in ToDS, NEW in, NEW g, NEW a,
         Tracked(mj, ds, in, g, a), ~Accepts(e)
  PROVE  Tracked(mj, Append(ds, e), in, g, a)
<1> DEFINE d == Append(ds, e)
<1>1. \A i \in 1..Len(d) : Accepts(d[i]) => i \in 1..Len(ds) /\ d[i] = ds[i]
  BY AppendOf
<1> HIDE DEF d
<1>2. Coming(mj, d) => Coming(mj, ds)
  BY <1>1 DEF Coming, Accepts
<1>3. Tracked(mj, d, in, g, a)
  BY <1>1, <1>2 DEF Tracked
<1> QED
  BY <1>3 DEF d

LEMMA TrackedCall ==
  ASSUME NEW mj \in Seq(ToMJ), NEW e \in ToMJ, NEW ds, NEW in, NEW g, NEW a,
         Tracked(mj, ds, in, g, a), ~IsEnter(e)
  PROVE  Tracked(Append(mj, e), ds, in, g, a)
<1> DEFINE m == Append(mj, e)
<1>1. \A i \in 1..Len(m) : IsEnter(m[i]) => i \in 1..Len(mj) /\ m[i] = mj[i]
  BY AppendOf
<1> HIDE DEF m
<1>2. Coming(m, ds) => Coming(mj, ds)
  BY <1>1 DEF Coming, IsEnter
<1>3. Tracked(m, ds, in, g, a)
  BY <1>1, <1>2 DEF Tracked
<1> QED
  BY <1>3 DEF m

LEMMA TrackedReset ==
  ASSUME NEW mj, NEW ds, NEW in, NEW g, NEW a, NEW b,
         Tracked(mj, ds, in, g, a), in = {}, ~Coming(mj, ds)
  PROVE  Tracked(mj, ds, in, "NotIn", b)
BY DEF Tracked

\* DataServer passes a request on: the player was not Entering, so none is under way
LEMMA TrackedAsk ==
  ASSUME NEW mj \in Seq(ToMJ), NEW ds \in Seq(ToDS), NEW in, NEW g, NEW a, NEW b,
         NEW e \in ToMJ, IsEnter(e), Tracked(mj, ds, in, g, a),
         g \in {"NotIn", "StayIn"}, g = "StayIn" => e.room = a
  PROVE  Tracked(Append(mj, e), ds, in, "Entering", b)
<1> DEFINE m == Append(mj, e)
<1>1. ~Coming(mj, ds)
  BY DEF Tracked
<1>2. \A i \in 1..Len(ds) : ~Accepts(ds[i])
  BY <1>1 DEF Coming, Accepts
<1>3. \A i \in 1..Len(m) : IsEnter(m[i]) => i = Len(mj) + 1 /\ m[i] = e
  BY <1>1, AppendOf DEF Coming, IsEnter
<1> HIDE DEF m
<1>4. ASSUME NEW r \in in PROVE e.room = r /\ \A q \in in : q = r
  BY <1>4 DEF Tracked
<1>5. Tracked(m, ds, in, "Entering", b)
  BY <1>2, <1>3, <1>4 DEF Tracked
<1> QED
  BY <1>5 DEF m

\* MJServer lets the player in: the request turns into the answer
LEMMA TrackedSit ==
  ASSUME NEW mj \in Seq(ToMJ), NEW ds \in Seq(ToDS), NEW in \in SUBSET Rooms,
         NEW g, NEW a, NEW e \in ToDS, NEW r \in Rooms,
         mj # <<>>, IsEnter(Head(mj)), Tracked(mj, ds, in, g, a),
         Head(mj).room \in {NoRoom, r}, e.room = r, Accepts(e)
  PROVE  Tracked(Tail(mj), Append(ds, e), in \cup {r}, g, a)
<1> DEFINE m == Tail(mj)  d == Append(ds, e)
<1>1. 1 \in 1..Len(mj) /\ Head(mj) = mj[1]
  BY TailOf
<1>2. g = "Entering"
  BY <1>1 DEF Tracked, Coming, IsEnter
<1>3. in \subseteq {r}
  BY <1>1, NoRoomAssumption DEF Tracked
<1>4. \A i \in 1..Len(m) : ~IsEnter(m[i])
  <2>1. \A i \in 1..Len(m) : m[i] = mj[i + 1] /\ i + 1 \in 1..Len(mj) /\ i + 1 # 1
    BY TailOf
  <2> HIDE DEF m
  <2> QED
    BY <1>1, <2>1 DEF Tracked
<1>5. \A i \in 1..Len(ds) : ~Accepts(ds[i])
  BY <1>1 DEF Tracked
<1>6. \A i \in 1..Len(d) : Accepts(d[i]) => i = Len(ds) + 1 /\ d[i] = e
  BY <1>5, AppendOf
<1> HIDE DEF m, d
<1>7. Tracked(m, d, in \cup {r}, g, a)
  BY <1>2, <1>3, <1>4, <1>6 DEF Tracked
<1> QED
  BY <1>7 DEF m, d

\* DataServer hears that he was let in
LEMMA TrackedAccept ==
  ASSUME NEW mj, NEW ds \in Seq(ToDS), NEW in, NEW g, NEW a,
         ds # <<>>, Accepts(Head(ds)), Tracked(mj, ds, in, g, a)
  PROVE  Tracked(mj, Tail(ds), in, "StayIn", Head(ds).room)
<1> DEFINE d == Tail(ds)
<1>1. 1 \in 1..Len(ds) /\ Head(ds) = ds[1]
  BY TailOf
<1>2. \A i \in 1..Len(d) : ~Accepts(d[i])
  <2>1. \A i \in 1..Len(d) : d[i] = ds[i + 1] /\ i + 1 \in 1..Len(ds) /\ i + 1 # 1
    BY TailOf
  <2> HIDE DEF d
  <2> QED
    BY <1>1, <2>1 DEF Tracked
<1>3. \A i \in 1..Len(mj) : ~IsEnter(mj[i])
  BY <1>1 DEF Tracked
<1> HIDE DEF d
<1>4. ~Coming(mj, d)
  BY <1>2, <1>3 DEF Coming, Accepts, IsEnter
<1>5. Tracked(mj, d, in, "StayIn", Head(ds).room)
  BY <1>1, <1>2, <1>3, <1>4 DEF Tracked
<1> QED
  BY <1>5 DEF d
-----------------------------------------------------------------------------
(* The steps.                                                              *)

LEMMA InitInv == Init => IInv
<1> SUFFICES ASSUME Init PROVE IInv
  OBVIOUS
<1>1. TypeOK
  BY NoRoomAssumption DEF Init, TypeOK, MaybeRoom
<1>2. Basic
  BY DEF Init, Basic, Seated
<1>3. \A p \in Players : In(p) = {}
  BY DEF Init, In, InRoom
<1>4. HeardAll
  BY DEF Init, HeardAll, Heard, Known
<1>5. TrackedAll
  BY <1>3 DEF Init, TrackedAll, Tracked, Coming
<1> QED
  BY <1>1, <1>2, <1>4, <1>5 DEF IInv

LEMMA Messages ==
  ASSUME NEW p \in Players, TypeOK
  PROVE  /\ toMJ[p] \in Seq(ToMJ) /\ toDS[p] \in Seq(ToDS)
         /\ \A s \in Nat, r \in MaybeRoom : Answer(r, s) \in ToDS
         /\ \A r \in Rooms : DoLeave(r) \in ToDS
         /\ Applied \in ToDS /\ EnterMsg(p, NoRoom) \in ToMJ
         /\ \A r \in MaybeRoom : EnterMsg(p, r) \in ToMJ
         /\ LeaveCall(p) \in ToMJ
BY DEF TypeOK, ToMJ, ToDS, MaybeRoom, Answer, DoLeave, Applied, EnterMsg, LeaveCall

LEMMA SameIn == UNCHANGED <<seat, gone>> => \A p \in Players : In(p)' = In(p)
BY DEF In, InRoom

LEMMA SameKnown == UNCHANGED <<game, misled>> => \A p \in Players : Known(p)' = Known(p)
BY DEF Known

\* Some go offline: whoever stays in a room has a request to leave it under way
LEMMA GoOfflineKeeps ==
  \A Q \in SUBSET Players :
    TypeOK /\ Basic /\ TrackedAll /\ GoOffline(Q)
    => /\ toMJ' \in [Players -> Seq(ToMJ)]
       /\ \A q \in Players : \A i \in 1..Len(toMJ'[q]) :
            IF IsEnter(toMJ'[q][i]) THEN toMJ'[q][i].sess # 0
            ELSE toMJ'[q][i].room \in Rooms
       /\ \A q \in Players \ forgot : Tracked(toMJ'[q], toDS[q], In(q), game[q], at[q])
<1> SUFFICES ASSUME NEW Q \in SUBSET Players, TypeOK, Basic, TrackedAll, GoOffline(Q)
             PROVE  /\ toMJ' \in [Players -> Seq(ToMJ)]
                    /\ \A q \in Players : \A i \in 1..Len(toMJ'[q]) :
                         IF IsEnter(toMJ'[q][i]) THEN toMJ'[q][i].sess # 0
                         ELSE toMJ'[q][i].room \in Rooms
                    /\ \A q \in Players \ forgot :
                         Tracked(toMJ'[q], toDS[q], In(q), game[q], at[q])
  OBVIOUS
<1>1. \A q \in Players : /\ toMJ[q] \in Seq(ToMJ) /\ LeaveCall(q) \in ToMJ
                         /\ ~IsEnter(LeaveCall(q)) /\ LeaveCall(q).room = at[q]
  BY Messages DEF LeaveCall, IsEnter
<1>2. \A q \in Players : toMJ'[q] = IF q \in Q /\ game[q] = "StayIn"
                                    THEN Append(toMJ[q], LeaveCall(q)) ELSE toMJ[q]
  BY DEF GoOffline
<1>3. toMJ' \in [Players -> Seq(ToMJ)]
  <2>1. ASSUME NEW q \in Players
        PROVE  toMJ'[q] \in Seq(ToMJ)
    <3>1. toMJ[q] \in Seq(ToMJ) /\ LeaveCall(q) \in ToMJ
      BY <1>1
    <3>2. Append(toMJ[q], LeaveCall(q)) \in Seq(ToMJ)
      BY <3>1
    <3> QED
      BY <1>2, <3>1, <3>2
  <2> QED
    BY <2>1 DEF GoOffline
<1>4. ASSUME NEW q \in Players, NEW i \in 1..Len(toMJ'[q])
      PROVE  IF IsEnter(toMJ'[q][i]) THEN toMJ'[q][i].sess # 0
             ELSE toMJ'[q][i].room \in Rooms
  <2>1. CASE q \in Q /\ game[q] = "StayIn"
    <3>1. toMJ'[q] = Append(toMJ[q], LeaveCall(q)) /\ LeaveCall(q).room \in Rooms
      BY <1>1, <1>2, <2>1 DEF TypeOK
    <3>2. CASE i \in 1..Len(toMJ[q])
      <4>1. toMJ'[q][i] = toMJ[q][i]
        BY <1>1, <3>1, <3>2, AppendOf
      <4> QED
        BY <3>2, <4>1 DEF Basic
    <3>3. CASE i = Len(toMJ[q]) + 1
      <4>1. toMJ'[q][i] = LeaveCall(q)
        BY <1>1, <3>1, <3>3, AppendOf
      <4> QED
        BY <1>1, <3>1, <4>1
    <3> QED
      BY <1>1, <1>4, <3>1, <3>2, <3>3, AppendOf
  <2>2. CASE ~(q \in Q /\ game[q] = "StayIn")
    <3>1. toMJ'[q] = toMJ[q]
      BY <1>2, <2>2
    <3> QED
      BY <1>4, <3>1 DEF Basic
  <2> QED
    BY <2>1, <2>2
<1>5. ASSUME NEW q \in Players \ forgot
      PROVE  Tracked(toMJ'[q], toDS[q], In(q), game[q], at[q])
  <2>1. Tracked(toMJ[q], toDS[q], In(q), game[q], at[q])
    BY <1>5 DEF TrackedAll
  <2>2. Tracked(Append(toMJ[q], LeaveCall(q)), toDS[q], In(q), game[q], at[q])
    BY <1>1, <2>1, TrackedCall
  <2> QED
    BY <1>2, <2>1, <2>2
<1> QED
  BY <1>3, <1>4, <1>5

LEMMA LoginStep == \A p \in Players : IInv /\ Login(p) => IInv'
<1> SUFFICES ASSUME NEW p \in Players, IInv, Login(p) PROVE IInv'
  OBVIOUS
<1> USE DEF IInv, tables, history
<1>1. PICK s \in Sessions[p] :
        LET others == {q \in Players \ {p} : obj[q] = "online" /\ sess[q] = s} IN
        /\ obj' = [q \in Players |-> IF q = p THEN "online"
                                     ELSE IF q \in others THEN "offline" ELSE obj[q]]
        /\ sess' = [sess EXCEPT ![p] = s]
        /\ GoOffline(others)
        /\ UNCHANGED <<game, at, toDS, tables, history>>
  BY DEF Login
<1> DEFINE others == {q \in Players \ {p} : obj[q] = "online" /\ sess[q] = s}
<1>2. s \in Nat /\ s # 0 /\ others \in SUBSET Players
  BY SessionAssumption
<1>3. /\ toMJ' \in [Players -> Seq(ToMJ)]
      /\ \A q \in Players : \A i \in 1..Len(toMJ'[q]) :
           IF IsEnter(toMJ'[q][i]) THEN toMJ'[q][i].sess # 0
           ELSE toMJ'[q][i].room \in Rooms
      /\ \A q \in Players \ forgot : Tracked(toMJ'[q], toDS[q], In(q), game[q], at[q])
  BY <1>1, <1>2, GoOfflineKeeps
<1>4. /\ obj' = [q \in Players |-> IF q = p THEN "online"
                                   ELSE IF q \in others THEN "offline" ELSE obj[q]]
      /\ UNCHANGED <<game, at, toDS, seat, hand, lost, gone, forgot, misled>>
  BY <1>1
<1>5. /\ sess' \in [Players -> Nat] /\ sess'[p] = s
      /\ \A q \in Players : q # p => sess'[q] = sess[q]
  BY <1>1, <1>2 DEF TypeOK
<1> HIDE DEF others
<1>6. obj' \in [Players -> {"none", "online", "offline"}]
  BY <1>4 DEF TypeOK
<1>7. TypeOK'
  BY <1>3, <1>4, <1>5, <1>6 DEF TypeOK
<1>8. \A q \in Players : /\ obj'[q] = "online" => q = p \/ obj[q] = "online"
                         /\ obj'[q] = "none" => obj[q] = "none"
  BY <1>4
<1>9. Basic'
  BY <1>2, <1>3, <1>4, <1>5, <1>8 DEF Basic, Seated
<1>10. \A q \in Players : In(q)' = In(q) /\ Known(q)' = Known(q)
  BY <1>4, SameIn, SameKnown
<1> QED
  BY <1>3, <1>4, <1>7, <1>9, <1>10 DEF HeardAll, TrackedAll

LEMMA DisconnectStep == \A p \in Players : IInv /\ Disconnect(p) => IInv'
<1> SUFFICES ASSUME NEW p \in Players, IInv, Disconnect(p) PROVE IInv'
  OBVIOUS
<1> USE DEF IInv, tables, history
<1>1. /\ obj[p] = "online" /\ obj' = [obj EXCEPT ![p] = "offline"] /\ GoOffline({p})
      /\ UNCHANGED <<sess, game, at, toDS, seat, hand, lost, gone, forgot, misled>>
  BY DEF Disconnect
<1>2. /\ toMJ' \in [Players -> Seq(ToMJ)]
      /\ \A q \in Players : \A i \in 1..Len(toMJ'[q]) :
           IF IsEnter(toMJ'[q][i]) THEN toMJ'[q][i].sess # 0
           ELSE toMJ'[q][i].room \in Rooms
      /\ \A q \in Players \ forgot : Tracked(toMJ'[q], toDS[q], In(q), game[q], at[q])
  <2>1. {p} \in SUBSET Players
    OBVIOUS
  <2> QED
    BY <1>1, <2>1, GoOfflineKeeps
<1>3. TypeOK'
  BY <1>1, <1>2 DEF TypeOK
<1>4. Basic'
  BY <1>1, <1>2 DEF TypeOK, Basic, Seated
<1>5. \A q \in Players : In(q)' = In(q) /\ Known(q)' = Known(q)
  BY <1>1, SameIn, SameKnown
<1> QED
  BY <1>1, <1>2, <1>3, <1>4, <1>5 DEF HeardAll, TrackedAll

\* What a reset of p leaves of the invariant
LEMMA ResetKeeps ==
  \A p \in Players : \A mj, ds :
    /\ TypeOK /\ Reset(p, mj, ds)
    => /\ game' \in [Players -> {"NotIn", "Entering", "StayIn"}]
       /\ at' \in [Players -> MaybeRoom] /\ forgot' \subseteq Players
       /\ \A q \in Players : (game'[q] = "StayIn") <=> (at'[q] \in Rooms)
       /\ game'[p] = "NotIn" /\ at'[p] = NoRoom
       /\ \A q \in Players : q # p =>
            game'[q] = game[q] /\ at'[q] = at[q] /\ (q \in forgot' <=> q \in forgot)
       /\ p \notin forgot' => p \notin forgot /\ In(p) = {} /\ ~Coming(mj, ds)
       /\ misled' \subseteq Players
       /\ \A q \in Players : q # p => Known(q)' = Known(q)
       /\ Known(p)' = "NotIn"
<1> SUFFICES ASSUME NEW p \in Players, NEW mj, NEW ds, TypeOK, Reset(p, mj, ds)
             PROVE  /\ game' \in [Players -> {"NotIn", "Entering", "StayIn"}]
                    /\ at' \in [Players -> MaybeRoom] /\ forgot' \subseteq Players
                    /\ \A q \in Players : (game'[q] = "StayIn") <=> (at'[q] \in Rooms)
                    /\ game'[p] = "NotIn" /\ at'[p] = NoRoom
                    /\ \A q \in Players : q # p =>
                         /\ game'[q] = game[q] /\ at'[q] = at[q]
                         /\ q \in forgot' <=> q \in forgot
                    /\ p \notin forgot' => p \notin forgot /\ In(p) = {} /\ ~Coming(mj, ds)
                    /\ misled' \subseteq Players
                    /\ \A q \in Players : q # p => Known(q)' = Known(q)
                    /\ Known(p)' = "NotIn"
  OBVIOUS
<1>1. /\ game' = [game EXCEPT ![p] = "NotIn"] /\ at' = [at EXCEPT ![p] = NoRoom]
      /\ game'[p] = "NotIn" /\ at'[p] = NoRoom
      /\ \A q \in Players : q # p => game'[q] = game[q] /\ at'[q] = at[q]
  BY DEF Reset, TypeOK
<1>2. /\ game' \in [Players -> {"NotIn", "Entering", "StayIn"}]
      /\ at' \in [Players -> MaybeRoom]
  BY <1>1 DEF TypeOK, MaybeRoom
<1>3. forgot' \subseteq Players /\ misled' \subseteq Players
  BY DEF Reset, Forget, TypeOK
<1>4. \A q \in Players : (game'[q] = "StayIn") <=> (at'[q] \in Rooms)
  BY <1>1, NoRoomAssumption DEF TypeOK
<1>5. \A q \in Players : q # p => (q \in forgot' <=> q \in forgot)
  BY DEF Reset, Forget
<1>6. p \notin forgot' => p \notin forgot /\ In(p) = {} /\ ~Coming(mj, ds)
  BY DEF Reset, Forget, In
<1>7. /\ \A q \in Players : q # p => Known(q)' = Known(q)
      /\ Known(p)' = "NotIn"
  <2>1. \A q \in Players : q # p => (q \in misled' <=> q \in misled)
    BY DEF Reset
  <2> QED
    BY <1>1, <2>1 DEF Known
<1> QED
  BY <1>1, <1>2, <1>3, <1>4, <1>5, <1>6, <1>7

LEMMA DeleteStep == \A p \in Players : IInv /\ Delete(p) => IInv'
<1> SUFFICES ASSUME NEW p \in Players, IInv, Delete(p) PROVE IInv'
  OBVIOUS
<1> USE DEF IInv, tables
<1>1. /\ Reset(p, toMJ[p], toDS[p]) /\ obj' = [obj EXCEPT ![p] = "none"]
      /\ sess' = [sess EXCEPT ![p] = 0]
      /\ UNCHANGED <<toMJ, toDS, seat, hand, lost, gone>>
  BY DEF Delete
<1>2. /\ game' \in [Players -> {"NotIn", "Entering", "StayIn"}]
      /\ at' \in [Players -> MaybeRoom] /\ forgot' \subseteq Players
      /\ \A q \in Players : (game'[q] = "StayIn") <=> (at'[q] \in Rooms)
      /\ game'[p] = "NotIn" /\ at'[p] = NoRoom
      /\ \A q \in Players : q # p =>
           game'[q] = game[q] /\ at'[q] = at[q] /\ (q \in forgot' <=> q \in forgot)
      /\ p \notin forgot' => p \notin forgot /\ In(p) = {} /\ ~Coming(toMJ[p], toDS[p])
      /\ misled' \subseteq Players
      /\ \A q \in Players : q # p => Known(q)' = Known(q)
      /\ Known(p)' = "NotIn"
  BY <1>1, ResetKeeps
<1>3. TypeOK'
  BY <1>1, <1>2 DEF TypeOK
<1>4. Basic'
  BY <1>1, <1>2 DEF TypeOK, Basic, Seated
<1>5. \A q \in Players : In(q)' = In(q)
  BY <1>1, SameIn
<1>6. ASSUME NEW q \in Players PROVE Heard(toDS'[q], In(q)', Known(q)', at'[q])
  <2>1. CASE q = p
    BY <1>1, <1>2, <1>5, <2>1, HeardIdle DEF HeardAll
  <2>2. CASE q # p
    BY <1>1, <1>2, <1>5, <2>2 DEF HeardAll
  <2> QED
    BY <2>1, <2>2
<1>7. ASSUME NEW q \in Players \ forgot'
      PROVE  Tracked(toMJ'[q], toDS'[q], In(q)', game'[q], at'[q])
  <2>1. CASE q = p
    BY <1>1, <1>2, <1>5, <2>1, <1>7, TrackedReset DEF TrackedAll
  <2>2. CASE q # p
    BY <1>1, <1>2, <1>5, <2>2, <1>7 DEF TrackedAll
  <2> QED
    BY <2>1, <2>2
<1> QED
  BY <1>3, <1>4, <1>6, <1>7 DEF HeardAll, TrackedAll

LEMMA AskEnterStep == \A p \in Players : IInv /\ AskEnter(p) => IInv'
<1> SUFFICES ASSUME NEW p \in Players, IInv, AskEnter(p) PROVE IInv'
  OBVIOUS
<1> USE DEF IInv, tables
<1>1. PICK r \in MaybeRoom :
        /\ game[p] = "StayIn" => r = at[p]
        /\ toMJ' = [toMJ EXCEPT ![p] = Append(@, EnterMsg(p, r))]
  BY DEF AskEnter
<1> DEFINE e == EnterMsg(p, r)
<1>2. /\ game' = [game EXCEPT ![p] = "Entering"] /\ at' = [at EXCEPT ![p] = NoRoom]
      /\ game[p] \in {"NotIn", "StayIn"} /\ obj[p] = "online"
      /\ misled' = misled \ {p}
      /\ UNCHANGED <<obj, sess, toDS, seat, hand, lost, gone, forgot>>
  BY DEF AskEnter, TypeOK
<1>3. toMJ[p] \in Seq(ToMJ) /\ e \in ToMJ /\ toDS[p] \in Seq(ToDS)
  BY Messages
<1>4. IsEnter(e) /\ e.room = r /\ e.sess = sess[p] /\ sess[p] # 0
  BY <1>2 DEF EnterMsg, IsEnter, Basic
<1>5. /\ toMJ'[p] = Append(toMJ[p], e) /\ game'[p] = "Entering" /\ at'[p] = NoRoom
      /\ \A q \in Players : q # p =>
           toMJ'[q] = toMJ[q] /\ game'[q] = game[q] /\ at'[q] = at[q]
  BY <1>1, <1>2 DEF TypeOK
<1>6. toMJ' \in [Players -> Seq(ToMJ)]
  BY <1>1, <1>3 DEF TypeOK
<1> HIDE DEF e
<1>7. TypeOK'
  <2>1. \A q \in Players : (game'[q] = "StayIn") <=> (at'[q] \in Rooms)
    BY <1>5, NoRoomAssumption DEF TypeOK
  <2> QED
    BY <1>2, <1>6, <2>1 DEF TypeOK, MaybeRoom
<1>8. Basic'
  <2>1. ASSUME NEW q \in Players, NEW i \in 1..Len(toMJ'[q])
        PROVE  IF IsEnter(toMJ'[q][i]) THEN toMJ'[q][i].sess # 0
               ELSE toMJ'[q][i].room \in Rooms
    <3>1. CASE q = p /\ i \in 1..Len(toMJ[p])
      <4>1. toMJ'[q][i] = toMJ[p][i]
        BY <1>3, <1>5, <3>1, AppendOf
      <4>2. IF IsEnter(toMJ[p][i]) THEN toMJ[p][i].sess # 0 ELSE toMJ[p][i].room \in Rooms
        BY <3>1 DEF Basic
      <4> QED
        BY <4>1, <4>2
    <3>2. CASE q = p /\ i = Len(toMJ[p]) + 1
      BY <1>3, <1>4, <1>5, <3>2, AppendOf
    <3>3. CASE q # p
      BY <1>5, <2>1, <3>3 DEF Basic
    <3> QED
      BY <1>3, <1>5, <2>1, <3>1, <3>2, <3>3, AppendOf
  <2>2. \A q \in Players : obj[q] = "none" => game'[q] = "NotIn"
    BY <1>2, <1>5 DEF Basic
  <2> QED
    BY <1>2, <2>1, <2>2 DEF Basic, Seated
<1>9. /\ \A q \in Players : In(q)' = In(q)
      /\ Known(p)' = "Entering" /\ \A q \in Players : q # p => Known(q)' = Known(q)
  <2>1. \A q \in Players : In(q)' = In(q)
    BY <1>2, SameIn
  <2> QED
    BY <1>2, <1>5, <2>1 DEF Known
<1>10. ASSUME NEW q \in Players PROVE Heard(toDS'[q], In(q)', Known(q)', at'[q])
  <2>1. CASE q = p
    BY <1>2, <1>5, <1>9, <2>1, HeardIdle DEF HeardAll
  <2>2. CASE q # p
    BY <1>2, <1>5, <1>9, <2>2 DEF HeardAll
  <2> QED
    BY <2>1, <2>2
<1>11. ASSUME NEW q \in Players \ forgot'
       PROVE  Tracked(toMJ'[q], toDS'[q], In(q)', game'[q], at'[q])
  <2>1. CASE q = p
    <3>1. Tracked(toMJ[p], toDS[p], In(p), game[p], at[p])
      BY <1>2, <1>11, <2>1 DEF TrackedAll
    <3>2. Tracked(Append(toMJ[p], e), toDS[p], In(p), "Entering", NoRoom)
      BY <1>1, <1>2, <1>3, <1>4, <3>1, TrackedAsk
    <3> QED
      BY <1>2, <1>5, <1>9, <2>1, <3>2
  <2>2. CASE q # p
    BY <1>2, <1>5, <1>9, <1>11, <2>2 DEF TrackedAll
  <2> QED
    BY <2>1, <2>2
<1> QED
  BY <1>7, <1>8, <1>10, <1>11 DEF HeardAll, TrackedAll

\* A request is taken from the connection
LEMMA Served ==
  \A p \in Players :
    TypeOK /\ Basic /\ toMJ[p] # <<>> /\ toMJ' = [toMJ EXCEPT ![p] = Tail(@)]
    => /\ toMJ' \in [Players -> Seq(ToMJ)] /\ toMJ'[p] = Tail(toMJ[p])
       /\ \A q \in Players : q # p => toMJ'[q] = toMJ[q]
       /\ \A q \in Players : \A i \in 1..Len(toMJ'[q]) :
            IF IsEnter(toMJ'[q][i]) THEN toMJ'[q][i].sess # 0
            ELSE toMJ'[q][i].room \in Rooms
       /\ Head(toMJ[p]) \in ToMJ
       /\ IF IsEnter(Head(toMJ[p])) THEN Head(toMJ[p]).sess # 0
          ELSE Head(toMJ[p]).room \in Rooms
<1> SUFFICES ASSUME NEW p \in Players, TypeOK, Basic, toMJ[p] # <<>>,
                    toMJ' = [toMJ EXCEPT ![p] = Tail(@)]
             PROVE  /\ toMJ' \in [Players -> Seq(ToMJ)] /\ toMJ'[p] = Tail(toMJ[p])
                    /\ \A q \in Players : q # p => toMJ'[q] = toMJ[q]
                    /\ \A q \in Players : \A i \in 1..Len(toMJ'[q]) :
                         IF IsEnter(toMJ'[q][i]) THEN toMJ'[q][i].sess # 0
                         ELSE toMJ'[q][i].room \in Rooms
                    /\ Head(toMJ[p]) \in ToMJ
                    /\ IF IsEnter(Head(toMJ[p])) THEN Head(toMJ[p]).sess # 0
                       ELSE Head(toMJ[p]).room \in Rooms
  OBVIOUS
<1>1. toMJ[p] \in Seq(ToMJ)
  BY DEF TypeOK
<1>2. /\ Tail(toMJ[p]) \in Seq(ToMJ) /\ Head(toMJ[p]) = toMJ[p][1]
      /\ 1 \in 1..Len(toMJ[p]) /\ Head(toMJ[p]) \in ToMJ
      /\ \A i \in 1..Len(Tail(toMJ[p])) :
           Tail(toMJ[p])[i] = toMJ[p][i + 1] /\ i + 1 \in 1..Len(toMJ[p])
  BY <1>1, TailOf
<1>3. toMJ' \in [Players -> Seq(ToMJ)] /\ toMJ'[p] = Tail(toMJ[p])
  BY <1>2 DEF TypeOK
<1>4. \A q \in Players : q # p => toMJ'[q] = toMJ[q]
  BY DEF TypeOK
<1>5. ASSUME NEW q \in Players, NEW i \in 1..Len(toMJ'[q])
      PROVE  IF IsEnter(toMJ'[q][i]) THEN toMJ'[q][i].sess # 0
             ELSE toMJ'[q][i].room \in Rooms
  <2>1. CASE q = p
    BY <1>2, <1>3, <1>5, <2>1 DEF Basic
  <2>2. CASE q # p
    BY <1>4, <1>5, <2>2 DEF Basic
  <2> QED
    BY <2>1, <2>2
<1>6. IF IsEnter(Head(toMJ[p])) THEN Head(toMJ[p]).sess # 0
      ELSE Head(toMJ[p]).room \in Rooms
  BY <1>2 DEF Basic
<1> QED
  BY <1>2, <1>3, <1>4, <1>5, <1>6

LEMMA SitDownIn ==
  \A p \in Players, r \in Rooms, s \in Nat :
    TypeOK /\ Basic /\ s # 0 /\ CanEnter(p, r) /\ SitDown(p, r, s) /\ UNCHANGED gone
    => /\ In(p)' = In(p) \cup {r} /\ \A q \in Players : q # p => In(q)' = In(q)
       /\ seat' \in [Rooms -> [Players -> Nat]]
       /\ \A t \in Rooms : Seated(t) \subseteq Seated(t)'
<1> SUFFICES ASSUME NEW p \in Players, NEW r \in Rooms, NEW s \in Nat, TypeOK, Basic,
                    s # 0, CanEnter(p, r), SitDown(p, r, s), UNCHANGED gone
             PROVE  /\ In(p)' = In(p) \cup {r}
                    /\ \A q \in Players : q # p => In(q)' = In(q)
                    /\ seat' \in [Rooms -> [Players -> Nat]]
                    /\ \A t \in Rooms : Seated(t) \subseteq Seated(t)'
  OBVIOUS
<1>1. seat' \in [Rooms -> [Players -> Nat]]
  BY DEF SitDown, TypeOK
<1>2. \A t \in Rooms, q \in Players :
        seat'[t][q] = IF t = r /\ q = p THEN s ELSE seat[t][q]
  BY DEF SitDown, TypeOK
<1>3. p \notin gone[r]
  BY DEF CanEnter, TypeOK, Basic, Seated
<1> QED
  BY <1>1, <1>2, <1>3 DEF In, InRoom, Seated

LEMMA ServeEnterStep == \A p \in Players : IInv /\ ServeEnter(p) => IInv'
<1> SUFFICES ASSUME NEW p \in Players, IInv, ServeEnter(p) PROVE IInv'
  OBVIOUS
<1> USE DEF IInv, tables, data, history
<1> DEFINE msg == Head(toMJ[p])
<1>1. /\ toMJ[p] # <<>> /\ IsEnter(msg) /\ toMJ' = [toMJ EXCEPT ![p] = Tail(@)]
      /\ UNCHANGED <<obj, sess, game, at, hand, lost, gone, forgot, misled>>
      /\ \A q \in Players : Known(q)' = Known(q)
  BY SameKnown DEF ServeEnter, IsEnter
<1>2. /\ toMJ' \in [Players -> Seq(ToMJ)] /\ toMJ'[p] = Tail(toMJ[p])
      /\ \A q \in Players : q # p => toMJ'[q] = toMJ[q]
      /\ \A q \in Players : \A i \in 1..Len(toMJ'[q]) :
           IF IsEnter(toMJ'[q][i]) THEN toMJ'[q][i].sess # 0
           ELSE toMJ'[q][i].room \in Rooms
      /\ msg \in ToMJ /\ msg.sess # 0
  BY <1>1, Served
<1>3. msg.sess \in Nat /\ msg.room \in MaybeRoom
  BY <1>2 DEF ToMJ
<1>4. toMJ[p] \in Seq(ToMJ) /\ toDS[p] \in Seq(ToDS)
  BY Messages
<1> HIDE DEF msg
<1>5. CASE \E r \in Rooms : /\ IF msg.room = NoRoom THEN ~IsFull(r) ELSE r = msg.room
                            /\ CanEnter(p, r) /\ SitDown(p, r, msg.sess)
  <2>1. PICK r \in Rooms : /\ IF msg.room = NoRoom THEN ~IsFull(r) ELSE r = msg.room
                           /\ CanEnter(p, r) /\ SitDown(p, r, msg.sess)
    BY <1>5
  <2> DEFINE e == Answer(r, msg.sess)
  <2>2. e \in ToDS /\ Accepts(e) /\ e.room = r /\ msg.room \in {NoRoom, r}
    BY <1>3, <2>1, Messages, NoRoomAssumption DEF Answer, Accepts, MaybeRoom
  <2>3. toDS' = [toDS EXCEPT ![p] = Append(@, e)]
    BY <2>1 DEF SitDown
  <2>4. /\ In(p)' = In(p) \cup {r} /\ \A q \in Players : q # p => In(q)' = In(q)
        /\ seat' \in [Rooms -> [Players -> Nat]]
        /\ \A t \in Rooms : Seated(t) \subseteq Seated(t)'
    BY <1>1, <1>2, <1>3, <2>1, SitDownIn
  <2> HIDE DEF e
  <2>5. /\ toDS' \in [Players -> Seq(ToDS)] /\ toDS'[p] = Append(toDS[p], e)
        /\ \A q \in Players : q # p => toDS'[q] = toDS[q]
    BY <2>2, <2>3 DEF TypeOK
  <2>6. TypeOK'
    BY <1>1, <1>2, <2>4, <2>5 DEF TypeOK
  <2>7. Basic'
    BY <1>1, <1>2, <2>4 DEF Basic
  <2>8. ASSUME NEW q \in Players PROVE Heard(toDS'[q], In(q)', Known(q)', at'[q])
    <3>0. Heard(toDS[q], In(q), Known(q), at[q])
      BY DEF HeardAll
    <3>1. CASE q = p
      <4>1. Heard(Append(toDS[p], e), In(p) \cup {r}, Known(p), at[p])
        BY <1>4, <2>2, <3>0, <3>1, HeardAppend
      <4> QED
        BY <1>1, <2>4, <2>5, <3>1, <4>1
    <3>2. CASE q # p
      BY <1>1, <2>4, <2>5, <3>0, <3>2
    <3> QED
      BY <3>1, <3>2
  <2>9. ASSUME NEW q \in Players \ forgot'
        PROVE  Tracked(toMJ'[q], toDS'[q], In(q)', game'[q], at'[q])
    <3>1. CASE q = p
      <4>1. Tracked(toMJ[p], toDS[p], In(p), game[p], at[p]) /\ In(p) \in SUBSET Rooms
        BY <1>1, <2>9, <3>1 DEF TrackedAll, In
      <4>2. Head(toMJ[p]).room \in {NoRoom, r} /\ IsEnter(Head(toMJ[p]))
        BY <1>1, <2>2 DEF msg
      <4>3. Tracked(Tail(toMJ[p]), Append(toDS[p], e), In(p) \cup {r}, game[p], at[p])
        BY <1>1, <1>4, <2>2, <4>1, <4>2, TrackedSit
      <4> QED
        BY <1>1, <1>2, <2>4, <2>5, <3>1, <4>3
    <3>2. CASE q # p
      <4>1. Tracked(toMJ[q], toDS[q], In(q), game[q], at[q])
        BY <1>1, <2>9 DEF TrackedAll
      <4> QED
        BY <1>1, <1>2, <2>4, <2>5, <3>2, <4>1
    <3> QED
      BY <3>1, <3>2
  <2> QED
    BY <2>6, <2>7, <2>8, <2>9 DEF HeardAll, TrackedAll
<1>6. CASE toDS' = [toDS EXCEPT ![p] = Append(@, Refusal(msg.sess))] /\ UNCHANGED seat
  <2> DEFINE e == Refusal(msg.sess)
  <2>1. e \in ToDS /\ ~Accepts(e)
    BY <1>3, Messages DEF Refusal, Answer, Accepts, MaybeRoom
  <2> HIDE DEF e
  <2>2. /\ toDS' \in [Players -> Seq(ToDS)] /\ toDS'[p] = Append(toDS[p], e)
        /\ \A q \in Players : q # p => toDS'[q] = toDS[q]
    BY <1>6, <2>1 DEF TypeOK, e
  <2>3. \A q \in Players : In(q)' = In(q)
    BY <1>1, <1>6, SameIn
  <2>4. TypeOK'
    BY <1>1, <1>2, <1>6, <2>2 DEF TypeOK
  <2>5. Basic'
    BY <1>1, <1>2, <1>6 DEF Basic, Seated
  <2>6. ASSUME NEW q \in Players PROVE Heard(toDS'[q], In(q)', Known(q)', at'[q])
    <3>1. CASE q = p
      <4>1. toDS[p] \in Seq(ToDS) /\ Heard(toDS[p], In(p), Known(p), at[p])
        BY <1>1, <1>4 DEF HeardAll
      <4>2. Heard(Append(toDS[p], e), In(p), Known(p), at[p])
        BY <2>1, <4>1, HeardAppend
      <4> QED
        BY <1>1, <2>2, <2>3, <3>1, <4>2
    <3>2. CASE q # p
      BY <1>1, <2>2, <2>3, <3>2 DEF HeardAll
    <3> QED
      BY <3>1, <3>2
  <2>7. ASSUME NEW q \in Players \ forgot'
        PROVE  Tracked(toMJ'[q], toDS'[q], In(q)', game'[q], at'[q])
    <3>1. Tracked(toMJ[q], toDS[q], In(q), game[q], at[q])
      BY <1>1, <2>7 DEF TrackedAll
    <3>2. CASE q = p
      <4>1. Tracked(Tail(toMJ[p]), toDS[p], In(p), game[p], at[p])
        BY <1>1, <1>4, <3>1, <3>2, TrackedTailMJ
      <4>2. Tracked(Tail(toMJ[p]), Append(toDS[p], e), In(p), game[p], at[p])
        BY <1>4, <2>1, <4>1, TrackedReport
      <4> QED
        BY <1>1, <1>2, <2>2, <2>3, <3>2, <4>2
    <3>3. CASE q # p
      BY <1>1, <1>2, <2>2, <2>3, <3>1, <3>3
    <3> QED
      BY <3>2, <3>3
  <2> QED
    BY <2>4, <2>5, <2>6, <2>7 DEF HeardAll, TrackedAll
<1> QED
  BY <1>5, <1>6 DEF ServeEnter, msg

\* One more report, or two, after which p sits in r no longer or just as before
LEMMA LeaveTableKeeps ==
  \A p \in Players, r \in Rooms : \A reports \in {<<>>, <<Applied>>} :
    TypeOK /\ Basic /\ HeardAll /\ TrackedAll /\ seat[r][p] # 0 /\ LeaveTable(p, r, reports)
    => /\ toDS' \in [Players -> Seq(ToDS)] /\ seat' \in [Rooms -> [Players -> Nat]]
       /\ lost' \in [Rooms -> SUBSET Players] /\ gone' \in [Rooms -> SUBSET Players]
       /\ \A t \in Rooms : gone'[t] \subseteq lost'[t] /\ lost'[t] \subseteq Seated(t)'
       /\ \A q \in Players : q # p => toDS'[q] = toDS[q] /\ In(q)' = In(q)
       /\ Heard(toDS'[p], In(p)', Known(p), at[p])
       /\ p \notin forgot => Tracked(toMJ[p], toDS'[p], In(p)', game[p], at[p])
<1> SUFFICES
      ASSUME NEW p \in Players, NEW r \in Rooms, NEW reports \in {<<>>, <<Applied>>},
             TypeOK, Basic, HeardAll, TrackedAll, seat[r][p] # 0, LeaveTable(p, r, reports)
      PROVE  /\ toDS' \in [Players -> Seq(ToDS)] /\ seat' \in [Rooms -> [Players -> Nat]]
             /\ lost' \in [Rooms -> SUBSET Players] /\ gone' \in [Rooms -> SUBSET Players]
             /\ \A t \in Rooms : gone'[t] \subseteq lost'[t] /\ lost'[t] \subseteq Seated(t)'
             /\ \A q \in Players : q # p => toDS'[q] = toDS[q] /\ In(q)' = In(q)
             /\ Heard(toDS'[p], In(p)', Known(p), at[p])
             /\ p \notin forgot => Tracked(toMJ[p], toDS'[p], In(p)', game[p], at[p])
  OBVIOUS
<1> DEFINE ds == toDS[p]  dl == DoLeave(r)
<1>1. ds \in Seq(ToDS) /\ dl \in ToDS /\ Applied \in ToDS
  BY Messages
<1>2. ~Accepts(dl) /\ ~Accepts(Applied)
  BY DEF Accepts, DoLeave, Applied
<1>3. Heard(ds, In(p), Known(p), at[p])
  BY DEF HeardAll
<1>4. p \notin forgot => Tracked(toMJ[p], ds, In(p), game[p], at[p])
  BY DEF TrackedAll
<1>5. Append(ds, dl) \in Seq(ToDS)
  BY <1>1
<1>6. /\ ds \o <<dl>> \o reports \in {Append(ds, dl), Append(Append(ds, dl), Applied)}
      /\ ds \o reports \in {ds, Append(ds, Applied)}
  <2>1. /\ ds \o <<dl>> \o <<>> = Append(ds, dl)
        /\ ds \o <<dl>> \o <<Applied>> = Append(Append(ds, dl), Applied)
        /\ ds \o <<>> = ds /\ ds \o <<Applied>> = Append(ds, Applied)
    <3> HIDE DEF ds, dl
    <3> QED
      BY <1>1, OneMore
  <2>2. reports = <<>> \/ reports = <<Applied>>
    OBVIOUS
  <2> HIDE DEF ds, dl
  <2> QED
    BY <2>1, <2>2
<1> DEFINE New == IF hand[r] # "play" \/ p \in lost[r] THEN ds \o <<dl>> \o reports
                  ELSE ds \o reports
<1>7. toDS' = [toDS EXCEPT ![p] = New] /\ New \in Seq(ToDS)
  <2>1. New \in Seq(ToDS)
    <3>1. Append(Append(ds, dl), Applied) \in Seq(ToDS) /\ Append(ds, Applied) \in Seq(ToDS)
      <4> HIDE DEF ds, dl
      <4> QED
        BY <1>1, <1>5
    <3> HIDE DEF ds, dl
    <3> QED
      BY <1>1, <1>5, <1>6, <3>1
  <2> QED
    BY <2>1 DEF LeaveTable
<1>8. /\ toDS' \in [Players -> Seq(ToDS)] /\ toDS'[p] = New
      /\ \A q \in Players : q # p => toDS'[q] = toDS[q]
  <2> HIDE DEF New
  <2> QED
    BY <1>7 DEF TypeOK
<1>9. /\ seat' \in [Rooms -> [Players -> Nat]]
      /\ lost' \in [Rooms -> SUBSET Players] /\ gone' \in [Rooms -> SUBSET Players]
      /\ \A t \in Rooms : gone'[t] \subseteq lost'[t] /\ lost'[t] \subseteq Seated(t)'
      /\ \A q \in Players : q # p => In(q)' = In(q)
      /\ In(p)' \subseteq In(p) /\ In(p) \ {r} \subseteq In(p)'
      /\ hand[r] = "play" /\ p \notin lost[r] => In(p)' = In(p)
  <2> HIDE DEF New, ds, dl
  <2>1. CASE hand[r] # "play"
    <3>1. /\ seat' = [seat EXCEPT ![r][p] = 0] /\ lost' = [lost EXCEPT ![r] = @ \ {p}]
          /\ gone' = [gone EXCEPT ![r] = @ \ {p}]
      BY <2>1 DEF LeaveTable
    <3>2. /\ \A t \in Rooms, q \in Players :
               seat'[t][q] = IF t = r /\ q = p THEN 0 ELSE seat[t][q]
          /\ \A t \in Rooms : lost'[t] = IF t = r THEN lost[t] \ {p} ELSE lost[t]
          /\ \A t \in Rooms : gone'[t] = IF t = r THEN gone[t] \ {p} ELSE gone[t]
      BY <3>1 DEF TypeOK
    <3>3. /\ seat' \in [Rooms -> [Players -> Nat]]
          /\ lost' \in [Rooms -> SUBSET Players] /\ gone' \in [Rooms -> SUBSET Players]
      BY <3>1 DEF TypeOK
    <3>4. \A t \in Rooms : gone'[t] \subseteq lost'[t] /\ lost'[t] \subseteq Seated(t)'
      <4>1. \A t \in Rooms : Seated(t)' = IF t = r THEN Seated(t) \ {p} ELSE Seated(t)
        BY <3>2 DEF Seated
      <4>2. \A t \in Rooms : gone[t] \subseteq lost[t] /\ lost[t] \subseteq Seated(t)
        BY DEF TypeOK, Basic
      <4> QED
        <5>1. ASSUME NEW t \in Rooms, t = r
              PROVE  gone'[t] \subseteq lost'[t] /\ lost'[t] \subseteq Seated(t)'
          BY <3>2, <4>1, <4>2, <5>1
        <5>2. ASSUME NEW t \in Rooms, t # r
              PROVE  gone'[t] \subseteq lost'[t] /\ lost'[t] \subseteq Seated(t)'
          BY <3>2, <4>1, <4>2, <5>2
        <5> QED
          BY <5>1, <5>2
    <3>5. /\ \A t \in Rooms, q \in Players : ~(t = r /\ q = p) => InRoom(q, t)' = InRoom(q, t)
          /\ ~InRoom(p, r)'
      BY <3>2 DEF InRoom
    <3>6. /\ \A q \in Players : q # p => In(q)' = In(q)
          /\ In(p)' \subseteq In(p) /\ In(p) \ {r} \subseteq In(p)'
      BY <3>5 DEF In
    <3> QED
      BY <2>1, <3>3, <3>4, <3>6
  <2>2. CASE hand[r] = "play" /\ p \in lost[r]
    <3>1. seat' = seat /\ lost' = lost /\ gone' = [gone EXCEPT ![r] = @ \cup {p}]
      BY <2>2 DEF LeaveTable
    <3>2. \A t \in Rooms : gone'[t] = IF t = r THEN gone[t] \cup {p} ELSE gone[t]
      BY <3>1 DEF TypeOK
    <3>3. gone' \in [Rooms -> SUBSET Players]
      BY <3>1 DEF TypeOK
    <3>4. \A t \in Rooms : gone'[t] \subseteq lost'[t] /\ lost'[t] \subseteq Seated(t)'
      <4>1. \A t \in Rooms : Seated(t)' = Seated(t)
        BY <3>1 DEF Seated
      <4>2. \A t \in Rooms : gone[t] \subseteq lost[t] /\ lost[t] \subseteq Seated(t)
        BY DEF TypeOK, Basic
      <4> QED
        BY <2>2, <3>1, <3>2, <4>1, <4>2
    <3>5. /\ \A t \in Rooms, q \in Players : ~(t = r /\ q = p) => InRoom(q, t)' = InRoom(q, t)
          /\ ~InRoom(p, r)'
      <4>1. /\ \A t \in Rooms, q \in Players : ~(t = r /\ q = p) => (q \in gone'[t] <=> q \in gone[t])
            /\ p \in gone'[r]
        BY <3>2
      <4> QED
        BY <3>1, <4>1 DEF InRoom
    <3>6. /\ \A q \in Players : q # p => In(q)' = In(q)
          /\ In(p)' \subseteq In(p) /\ In(p) \ {r} \subseteq In(p)'
      BY <3>5 DEF In
    <3>7. seat \in [Rooms -> [Players -> Nat]] /\ lost \in [Rooms -> SUBSET Players]
      BY DEF TypeOK
    <3> QED
      BY <2>2, <3>1, <3>3, <3>4, <3>6, <3>7
  <2>3. CASE hand[r] = "play" /\ p \notin lost[r]
    <3>1. seat' = seat /\ lost' = lost /\ gone' = gone
      BY <2>3 DEF LeaveTable
    <3> QED
      BY <3>1 DEF In, InRoom, TypeOK, Basic, Seated
  <2> QED
    BY <2>1, <2>2, <2>3
<1>10. Heard(New, In(p)', Known(p), at[p])
  <2>1. CASE hand[r] # "play" \/ p \in lost[r]
    <3>1. Heard(Append(ds, dl), In(p)', Known(p), at[p])
      BY <1>1, <1>3, <1>9, HeardLeave
    <3>2. Heard(Append(Append(ds, dl), Applied), In(p)', Known(p), at[p])
      BY <1>1, <1>2, <1>5, <3>1, HeardAppend
    <3> QED
      BY <1>6, <2>1, <3>1, <3>2
  <2>2. CASE hand[r] = "play" /\ p \notin lost[r]
    <3>1. Heard(Append(ds, Applied), In(p)', Known(p), at[p])
      BY <1>1, <1>2, <1>3, <1>9, <2>2, HeardAppend
    <3> QED
      BY <1>3, <1>6, <1>9, <2>2, <3>1
  <2> QED
    BY <2>1, <2>2
<1>11. ASSUME p \notin forgot PROVE Tracked(toMJ[p], New, In(p)', game[p], at[p])
  <2>1. Tracked(toMJ[p], ds, In(p)', game[p], at[p])
    BY <1>4, <1>9, <1>11, TrackedFewer
  <2>2. Tracked(toMJ[p], Append(ds, dl), In(p)', game[p], at[p])
    BY <1>1, <1>2, <2>1, TrackedReport
  <2>3. Tracked(toMJ[p], Append(Append(ds, dl), Applied), In(p)', game[p], at[p])
    BY <1>1, <1>2, <1>5, <2>2, TrackedReport
  <2>4. Tracked(toMJ[p], Append(ds, Applied), In(p)', game[p], at[p])
    BY <1>1, <1>2, <2>1, TrackedReport
  <2> QED
    BY <1>6, <2>1, <2>2, <2>3, <2>4
<1> HIDE DEF New
<1> QED
  BY <1>8, <1>9, <1>10, <1>11

LEMMA ServeLeaveStep == \A p \in Players : IInv /\ ServeLeave(p) => IInv'
<1> SUFFICES ASSUME NEW p \in Players, IInv, ServeLeave(p) PROVE IInv'
  OBVIOUS
<1> USE DEF IInv, tables, data, history
<1> DEFINE r == Head(toMJ[p]).room
<1>1. /\ toMJ[p] # <<>> /\ ~IsEnter(Head(toMJ[p])) /\ toMJ' = [toMJ EXCEPT ![p] = Tail(@)]
      /\ UNCHANGED <<obj, sess, game, at, hand, forgot, misled>>
      /\ \A q \in Players : Known(q)' = Known(q)
      /\ \/ seat[r][p] # 0 /\ LeaveTable(p, r, <<Applied>>)
         \/ UNCHANGED <<toDS, seat, lost, gone>>
  BY SameKnown DEF ServeLeave, IsEnter
<1>2. /\ toMJ' \in [Players -> Seq(ToMJ)] /\ toMJ'[p] = Tail(toMJ[p])
      /\ \A q \in Players : q # p => toMJ'[q] = toMJ[q]
      /\ \A q \in Players : \A i \in 1..Len(toMJ'[q]) :
           IF IsEnter(toMJ'[q][i]) THEN toMJ'[q][i].sess # 0
           ELSE toMJ'[q][i].room \in Rooms
      /\ r \in Rooms
  BY <1>1, Served
<1>3. toMJ[p] \in Seq(ToMJ) /\ toDS[p] \in Seq(ToDS)
  BY Messages
<1> HIDE DEF r
<1>4. /\ toDS' \in [Players -> Seq(ToDS)] /\ seat' \in [Rooms -> [Players -> Nat]]
      /\ lost' \in [Rooms -> SUBSET Players] /\ gone' \in [Rooms -> SUBSET Players]
      /\ \A t \in Rooms : gone'[t] \subseteq lost'[t] /\ lost'[t] \subseteq Seated(t)'
      /\ \A q \in Players : q # p => toDS'[q] = toDS[q] /\ In(q)' = In(q)
      /\ Heard(toDS'[p], In(p)', Known(p), at[p])
      /\ p \notin forgot => Tracked(toMJ[p], toDS'[p], In(p)', game[p], at[p])
  <2>1. CASE seat[r][p] # 0 /\ LeaveTable(p, r, <<Applied>>)
    BY <1>2, <2>1, LeaveTableKeeps
  <2>2. CASE UNCHANGED <<toDS, seat, lost, gone>>
    <3>1. \A q \in Players : In(q)' = In(q)
      BY <2>2, SameIn
    <3>2. \A t \in Rooms : Seated(t)' = Seated(t)
      BY <2>2 DEF Seated
    <3>3. /\ \A t \in Rooms : gone[t] \subseteq lost[t] /\ lost[t] \subseteq Seated(t)
          /\ toDS \in [Players -> Seq(ToDS)] /\ seat \in [Rooms -> [Players -> Nat]]
          /\ lost \in [Rooms -> SUBSET Players] /\ gone \in [Rooms -> SUBSET Players]
      BY DEF TypeOK, Basic
    <3>4. Heard(toDS[p], In(p), Known(p), at[p])
      BY DEF HeardAll
    <3>5. p \notin forgot => Tracked(toMJ[p], toDS[p], In(p), game[p], at[p])
      BY DEF TrackedAll
    <3> QED
      BY <2>2, <3>1, <3>2, <3>3, <3>4, <3>5
  <2> QED
    BY <1>1, <2>1, <2>2
<1>5. TypeOK'
  BY <1>1, <1>2, <1>4 DEF TypeOK
<1>6. Basic'
  BY <1>1, <1>2, <1>4 DEF Basic
<1>7. ASSUME NEW q \in Players PROVE Heard(toDS'[q], In(q)', Known(q)', at'[q])
  <2>1. Heard(toDS[q], In(q), Known(q), at[q])
    BY DEF HeardAll
  <2> QED
    BY <1>1, <1>4, <2>1
<1>8. ASSUME NEW q \in Players \ forgot'
      PROVE  Tracked(toMJ'[q], toDS'[q], In(q)', game'[q], at'[q])
  <2>1. CASE q = p
    <3>1. Tracked(toMJ[p], toDS'[p], In(p)', game[p], at[p])
      BY <1>1, <1>4, <1>8, <2>1
    <3>2. Tracked(Tail(toMJ[p]), toDS'[p], In(p)', game[p], at[p])
      BY <1>1, <1>3, <3>1, TrackedTailMJ
    <3> QED
      BY <1>1, <1>2, <2>1, <3>2
  <2>2. CASE q # p
    <3>1. Tracked(toMJ[q], toDS[q], In(q), game[q], at[q])
      BY <1>1, <1>8 DEF TrackedAll
    <3> QED
      BY <1>1, <1>2, <1>4, <2>2, <3>1
  <2> QED
    BY <2>1, <2>2
<1> QED
  BY <1>5, <1>6, <1>7, <1>8 DEF HeardAll, TrackedAll

LEMMA ClientLeavesStep == \A p \in Players : IInv /\ ClientLeaves(p) => IInv'
<1> SUFFICES ASSUME NEW p \in Players, IInv, ClientLeaves(p) PROVE IInv'
  OBVIOUS
<1> USE DEF IInv, tables, data, history
<1>1. /\ UNCHANGED <<obj, sess, game, at, toMJ, hand, forgot, misled>>
      /\ \A q \in Players : Known(q)' = Known(q)
  BY SameKnown DEF ClientLeaves
<1>2. PICK r \in Rooms : seat[r][p] # 0 /\ LeaveTable(p, r, <<>>)
  BY DEF ClientLeaves
<1>3. /\ toDS' \in [Players -> Seq(ToDS)] /\ seat' \in [Rooms -> [Players -> Nat]]
      /\ lost' \in [Rooms -> SUBSET Players] /\ gone' \in [Rooms -> SUBSET Players]
      /\ \A t \in Rooms : gone'[t] \subseteq lost'[t] /\ lost'[t] \subseteq Seated(t)'
      /\ \A q \in Players : q # p => toDS'[q] = toDS[q] /\ In(q)' = In(q)
      /\ Heard(toDS'[p], In(p)', Known(p), at[p])
      /\ p \notin forgot => Tracked(toMJ[p], toDS'[p], In(p)', game[p], at[p])
  BY <1>2, LeaveTableKeeps
<1>4. TypeOK'
  BY <1>1, <1>3 DEF TypeOK
<1>5. Basic'
  BY <1>1, <1>3 DEF Basic
<1>6. ASSUME NEW q \in Players PROVE Heard(toDS'[q], In(q)', Known(q)', at'[q])
  <2>1. Heard(toDS[q], In(q), Known(q), at[q])
    BY DEF HeardAll
  <2> QED
    BY <1>1, <1>3, <2>1
<1>7. ASSUME NEW q \in Players \ forgot'
      PROVE  Tracked(toMJ'[q], toDS'[q], In(q)', game'[q], at'[q])
  <2>1. Tracked(toMJ[q], toDS[q], In(q), game[q], at[q])
    BY <1>1, <1>7 DEF TrackedAll
  <2> QED
    BY <1>1, <1>3, <1>7, <2>1
<1> QED
  BY <1>4, <1>5, <1>6, <1>7 DEF HeardAll, TrackedAll

\* The steps of a table that move nobody: a hand starts, a player loses it, it ends
LEMMA HandStep ==
  \A r \in Rooms :
    /\ IInv
    /\ HandStarts(r) \/ HandEnds(r) \/ (\E p \in Players : Loses(p, r))
    => IInv'
<1> SUFFICES ASSUME NEW r \in Rooms, IInv,
                    HandStarts(r) \/ HandEnds(r) \/ (\E p \in Players : Loses(p, r))
             PROVE  IInv'
  OBVIOUS
<1> USE DEF IInv, tables, data, history
<1>1. /\ UNCHANGED <<obj, sess, game, at, toMJ, toDS, seat, gone, forgot, misled>>
      /\ \A q \in Players : Known(q)' = Known(q)
  BY SameKnown DEF HandStarts, HandEnds, Loses
<1>2. /\ hand' \in [Rooms -> {"wait", "play", "end"}] /\ lost' \in [Rooms -> SUBSET Players]
      /\ \A t \in Rooms : gone[t] \subseteq lost'[t] /\ lost'[t] \subseteq Seated(t)
  <2>1. \A t \in Rooms : gone[t] \subseteq lost[t] /\ lost[t] \subseteq Seated(t)
    BY DEF TypeOK, Basic
  <2>2. CASE HandStarts(r) \/ HandEnds(r)
    BY <2>1, <2>2 DEF HandStarts, HandEnds, TypeOK
  <2>3. CASE \E p \in Players : Loses(p, r)
    <3>1. PICK p \in Players : Loses(p, r)
      BY <2>3
    <3>2. \A t \in Rooms : lost'[t] = IF t = r THEN lost[t] \cup {p} ELSE lost[t]
      BY <3>1 DEF Loses, TypeOK
    <3>3. p \in Seated(r) /\ UNCHANGED hand /\ lost' \in [Rooms -> SUBSET Players]
      BY <3>1 DEF Loses, Seated, TypeOK
    <3>4. \A t \in Rooms : gone[t] \subseteq lost'[t] /\ lost'[t] \subseteq Seated(t)
      BY <2>1, <3>2, <3>3
    <3> QED
      BY <3>3, <3>4 DEF TypeOK
  <2> QED
    BY <2>2, <2>3
<1>3. TypeOK'
  BY <1>1, <1>2 DEF TypeOK
<1>4. Basic'
  BY <1>1, <1>2 DEF Basic, Seated
<1>5. \A q \in Players : In(q)' = In(q)
  BY <1>1, SameIn
<1> QED
  BY <1>1, <1>3, <1>4, <1>5 DEF HeardAll, TrackedAll

LEMMA ClearTableStep == \A r \in Rooms : IInv /\ ClearTable(r) => IInv'
<1> SUFFICES ASSUME NEW r \in Rooms, IInv, ClearTable(r) PROVE IInv'
  OBVIOUS
<1> USE DEF IInv, tables, data, history
<1>1. /\ UNCHANGED <<obj, sess, game, at, toMJ, forgot, misled>>
      /\ \A q \in Players : Known(q)' = Known(q)
      /\ hand' = [hand EXCEPT ![r] = "wait"]
      /\ seat' = [seat EXCEPT ![r] = [p \in Players |-> 0]]
      /\ lost' = [lost EXCEPT ![r] = {}] /\ gone' = [gone EXCEPT ![r] = {}]
      /\ toDS' = [p \in Players |-> IF p \in Seated(r)
                                    THEN Append(toDS[p], DoLeave(r)) ELSE toDS[p]]
  BY SameKnown DEF ClearTable
<1>2. \A p \in Players : toDS[p] \in Seq(ToDS) /\ DoLeave(r) \in ToDS
  BY Messages
<1>3. toDS' \in [Players -> Seq(ToDS)]
  BY <1>1, <1>2
<1>4. /\ \A t \in Rooms : t # r =>
           seat'[t] = seat[t] /\ lost'[t] = lost[t] /\ gone'[t] = gone[t]
      /\ seat'[r] = [p \in Players |-> 0] /\ lost'[r] = {} /\ gone'[r] = {}
  BY <1>1 DEF TypeOK
<1>5. /\ hand' \in [Rooms -> {"wait", "play", "end"}]
      /\ seat' \in [Rooms -> [Players -> Nat]] /\ lost' \in [Rooms -> SUBSET Players]
      /\ gone' \in [Rooms -> SUBSET Players]
  BY <1>1 DEF TypeOK
<1>6. \A t \in Rooms : gone'[t] \subseteq lost'[t]
  BY <1>4 DEF TypeOK
<1>7. \A t \in Rooms : lost'[t] \subseteq Seated(t)'
  BY <1>4 DEF Basic, Seated
<1>8. TypeOK'
  BY <1>1, <1>3, <1>5, <1>6 DEF TypeOK
<1>9. Basic'
  BY <1>1, <1>7 DEF Basic
<1>10. \A q \in Players : In(q)' = In(q) \ {r}
  <2>1. \A q \in Players : ~InRoom(q, r)'
    BY <1>4 DEF InRoom
  <2>2. \A q \in Players, t \in Rooms : t # r => (InRoom(q, t)' <=> InRoom(q, t))
    BY <1>4 DEF InRoom
  <2> QED
    BY <2>1, <2>2 DEF In
<1>11. \A q \in Players : q \notin Seated(r) => In(q)' = In(q)
  BY <1>10 DEF In, InRoom, Seated
<1>12. ASSUME NEW q \in Players PROVE Heard(toDS'[q], In(q)', Known(q)', at'[q])
  <2>0. Heard(toDS[q], In(q), Known(q), at[q])
    BY DEF HeardAll
  <2>1. CASE q \in Seated(r)
    <3>1. Heard(Append(toDS[q], DoLeave(r)), In(q) \ {r}, Known(q), at[q])
      BY <1>2, <2>0, HeardLeave
    <3> QED
      BY <1>1, <1>10, <2>1, <3>1
  <2>2. CASE q \notin Seated(r)
    BY <1>1, <1>11, <2>0, <2>2
  <2> QED
    BY <2>1, <2>2
<1>13. ASSUME NEW q \in Players \ forgot'
       PROVE  Tracked(toMJ'[q], toDS'[q], In(q)', game'[q], at'[q])
  <2>1. Tracked(toMJ[q], toDS[q], In(q), game[q], at[q])
    BY <1>1, <1>13 DEF TrackedAll
  <2>2. Tracked(toMJ[q], toDS[q], In(q)', game[q], at[q])
    BY <1>10, <2>1, TrackedFewer
  <2>3. CASE q \in Seated(r)
    <3>1. ~Accepts(DoLeave(r))
      BY DEF Accepts, DoLeave
    <3>2. Tracked(toMJ[q], Append(toDS[q], DoLeave(r)), In(q)', game[q], at[q])
      BY <1>2, <2>2, <3>1, TrackedReport
    <3> QED
      BY <1>1, <2>3, <3>2
  <2>4. CASE q \notin Seated(r)
    BY <1>1, <2>2, <2>4
  <2> QED
    BY <2>3, <2>4
<1> QED
  BY <1>8, <1>9, <1>12, <1>13 DEF HeardAll, TrackedAll

\* DataServer takes a message of p from the connection
LEMMA TakenFrom ==
  \A p \in Players :
    TypeOK /\ toDS[p] # <<>> /\ toDS' = [toDS EXCEPT ![p] = Tail(@)]
    => /\ toDS[p] \in Seq(ToDS) /\ Tail(toDS[p]) \in Seq(ToDS) /\ Head(toDS[p]) \in ToDS
       /\ toDS' \in [Players -> Seq(ToDS)] /\ toDS'[p] = Tail(toDS[p])
       /\ \A q \in Players : q # p => toDS'[q] = toDS[q]
<1> SUFFICES ASSUME NEW p \in Players, TypeOK, toDS[p] # <<>>,
                    toDS' = [toDS EXCEPT ![p] = Tail(@)]
             PROVE  /\ toDS[p] \in Seq(ToDS) /\ Tail(toDS[p]) \in Seq(ToDS)
                    /\ Head(toDS[p]) \in ToDS
                    /\ toDS' \in [Players -> Seq(ToDS)] /\ toDS'[p] = Tail(toDS[p])
                    /\ \A q \in Players : q # p => toDS'[q] = toDS[q]
  OBVIOUS
<1>1. toDS[p] \in Seq(ToDS) /\ Tail(toDS[p]) \in Seq(ToDS) /\ Head(toDS[p]) \in ToDS
  BY Messages, TailOf
<1> QED
  BY <1>1 DEF TypeOK

\* What was heard and tracked of each player is so without the message, which is not
\* the report that takes p out of the room DataServer has him in
LEMMA TakenKeeps ==
  \A p \in Players :
    /\ IInv /\ toDS[p] # <<>> /\ toDS' = [toDS EXCEPT ![p] = Tail(@)]
    /\ Known(p) # "StayIn" \/ Head(toDS[p]).kind # "doLeave"
    => /\ \A q \in Players : Heard(toDS'[q], In(q), Known(q), at[q])
       /\ \A q \in Players \ forgot : Tracked(toMJ[q], toDS'[q], In(q), game[q], at[q])
<1> SUFFICES ASSUME NEW p \in Players, IInv, toDS[p] # <<>>,
                    toDS' = [toDS EXCEPT ![p] = Tail(@)],
                    Known(p) # "StayIn" \/ Head(toDS[p]).kind # "doLeave"
             PROVE  /\ \A q \in Players : Heard(toDS'[q], In(q), Known(q), at[q])
                    /\ \A q \in Players \ forgot :
                         Tracked(toMJ[q], toDS'[q], In(q), game[q], at[q])
  OBVIOUS
<1> USE DEF IInv
<1>1. /\ toDS[p] \in Seq(ToDS) /\ toDS'[p] = Tail(toDS[p])
      /\ \A q \in Players : q # p => toDS'[q] = toDS[q]
  BY TakenFrom
<1>2. ASSUME NEW q \in Players PROVE Heard(toDS'[q], In(q), Known(q), at[q])
  <2>1. Heard(toDS[q], In(q), Known(q), at[q])
    BY DEF HeardAll
  <2>2. CASE q = p
    <3>1. Heard(Tail(toDS[p]), In(p), Known(p), at[p])
      BY <1>1, <2>1, <2>2, HeardTail
    <3> QED
      BY <1>1, <2>2, <3>1
  <2> QED
    BY <1>1, <2>1, <2>2
<1>3. ASSUME NEW q \in Players \ forgot
      PROVE  Tracked(toMJ[q], toDS'[q], In(q), game[q], at[q])
  <2>1. Tracked(toMJ[q], toDS[q], In(q), game[q], at[q])
    BY <1>3 DEF TrackedAll
  <2>2. CASE q = p
    <3>1. Tracked(toMJ[p], Tail(toDS[p]), In(p), game[p], at[p])
      BY <1>1, <2>1, <2>2, TrackedTailDS
    <3> QED
      BY <1>1, <2>2, <3>1
  <2> QED
    BY <1>1, <2>1, <2>2
<1> QED
  BY <1>2, <1>3

\* The message of p makes DataServer reset q, who is p himself if it is a report
LEMMA HearReset ==
  \A p, q \in Players :
    /\ IInv /\ toDS[p] # <<>> /\ toDS' = [toDS EXCEPT ![p] = Tail(@)]
    /\ UNCHANGED <<obj, sess, toMJ, tables>> /\ Reset(q, toMJ[q], toDS'[q])
    /\ q = p \/ Head(toDS[p]).kind # "doLeave"
    => IInv'
<1> SUFFICES ASSUME NEW p \in Players, NEW q \in Players, IInv, toDS[p] # <<>>,
                    toDS' = [toDS EXCEPT ![p] = Tail(@)],
                    UNCHANGED <<obj, sess, toMJ, tables>>,
                    Reset(q, toMJ[q], toDS'[q]),
                    q = p \/ Head(toDS[p]).kind # "doLeave"
             PROVE  IInv'
  OBVIOUS
<1> USE DEF IInv, tables
<1>1. /\ game' \in [Players -> {"NotIn", "Entering", "StayIn"}]
      /\ at' \in [Players -> MaybeRoom] /\ forgot' \subseteq Players
      /\ \A t \in Players : (game'[t] = "StayIn") <=> (at'[t] \in Rooms)
      /\ game'[q] = "NotIn" /\ at'[q] = NoRoom
      /\ \A t \in Players : t # q =>
           game'[t] = game[t] /\ at'[t] = at[t] /\ (t \in forgot' <=> t \in forgot)
      /\ q \notin forgot' => q \notin forgot /\ In(q) = {} /\ ~Coming(toMJ[q], toDS'[q])
      /\ misled' \subseteq Players
      /\ \A t \in Players : t # q => Known(t)' = Known(t)
      /\ Known(q)' = "NotIn"
  BY ResetKeeps
<1>2. /\ toDS[p] \in Seq(ToDS)
      /\ toDS' \in [Players -> Seq(ToDS)] /\ toDS'[p] = Tail(toDS[p])
      /\ \A t \in Players : t # p => toDS'[t] = toDS[t]
  BY TakenFrom
<1>3. TypeOK'
  BY <1>1, <1>2 DEF TypeOK
<1>4. Basic'
  BY <1>1 DEF Basic, Seated
<1>5. \A t \in Players : In(t)' = In(t)
  BY SameIn
<1>6. ASSUME NEW t \in Players PROVE Heard(toDS'[t], In(t)', Known(t)', at'[t])
  <2>1. Heard(toDS[t], In(t), Known(t), at[t])
    BY DEF HeardAll
  <2>2. CASE t = q
    <3>1. Heard(toDS[q], In(q), "NotIn", NoRoom)
      BY <2>1, <2>2, HeardIdle
    <3>2. Heard(toDS'[q], In(q), "NotIn", NoRoom)
      <4>1. CASE q = p
        BY <1>2, <3>1, <4>1, HeardTail
      <4>2. CASE q # p
        BY <1>2, <3>1, <4>2
      <4> QED
        BY <4>1, <4>2
    <3> QED
      BY <1>1, <1>5, <2>2, <3>2
  <2>3. CASE t # q
    <3>1. Heard(toDS'[t], In(t), Known(t), at[t])
      <4>1. CASE t = p
        <5>1. Head(toDS[p]).kind # "doLeave"
          BY <2>3, <4>1
        <5> QED
          BY <1>2, <2>1, <4>1, <5>1, HeardTail
      <4>2. CASE t # p
        BY <1>2, <2>1, <4>2
      <4> QED
        BY <4>1, <4>2
    <3> QED
      BY <1>1, <1>5, <2>3, <3>1
  <2> QED
    BY <2>2, <2>3
<1>7. ASSUME NEW t \in Players \ forgot'
      PROVE  Tracked(toMJ'[t], toDS'[t], In(t)', game'[t], at'[t])
  <2>1. Tracked(toMJ[t], toDS[t], In(t), game[t], at[t])
    BY <1>1, <1>7 DEF TrackedAll
  <2>2. Tracked(toMJ[t], toDS'[t], In(t), game[t], at[t])
    <3>1. CASE t = p
      BY <1>2, <2>1, <3>1, TrackedTailDS
    <3>2. CASE t # p
      BY <1>2, <2>1, <3>2
    <3> QED
      BY <3>1, <3>2
  <2>3. CASE t = q
    <3>1. Tracked(toMJ[q], toDS'[q], In(q), "NotIn", NoRoom)
      BY <1>1, <1>7, <2>2, <2>3, TrackedReset
    <3> QED
      BY <1>1, <1>5, <2>3, <3>1
  <2>4. CASE t # q
    BY <1>1, <1>5, <2>2, <2>4
  <2> QED
    BY <2>3, <2>4
<1> QED
  BY <1>3, <1>4, <1>6, <1>7 DEF HeardAll, TrackedAll

\* DataServer takes a message from the connection and does nothing
LEMMA HearNothing ==
  \A p \in Players :
    /\ IInv /\ toDS[p] # <<>> /\ toDS' = [toDS EXCEPT ![p] = Tail(@)]
    /\ UNCHANGED <<obj, sess, toMJ, tables, game, at, history>>
    /\ game[p] # "StayIn" \/ Head(toDS[p]).kind # "doLeave"
    => IInv'
<1> SUFFICES ASSUME NEW p \in Players, IInv, toDS[p] # <<>>,
                    toDS' = [toDS EXCEPT ![p] = Tail(@)],
                    UNCHANGED <<obj, sess, toMJ, tables, game, at, history>>,
                    game[p] # "StayIn" \/ Head(toDS[p]).kind # "doLeave"
             PROVE  IInv'
  OBVIOUS
<1> USE DEF IInv, tables, history
<1>1. toDS' \in [Players -> Seq(ToDS)]
  BY TakenFrom
<1>2. TypeOK' /\ Basic'
  BY <1>1 DEF TypeOK, Basic, Seated
<1>3. \A q \in Players : In(q)' = In(q) /\ Known(q)' = Known(q)
  BY SameIn, SameKnown
<1>4. Known(p) # "StayIn" \/ Head(toDS[p]).kind # "doLeave"
  BY DEF Known
<1>5. /\ \A q \in Players : Heard(toDS'[q], In(q), Known(q), at[q])
      /\ \A q \in Players \ forgot : Tracked(toMJ[q], toDS'[q], In(q), game[q], at[q])
  BY <1>4, TakenKeeps
<1> QED
  BY <1>2, <1>3, <1>5 DEF HeardAll, TrackedAll

\* DataServer hears that p was let in, and takes q to be in the room
LEMMA HearAccepted ==
  \A p, q \in Players :
    /\ IInv /\ toDS[p] # <<>> /\ toDS' = [toDS EXCEPT ![p] = Tail(@)]
    /\ UNCHANGED <<obj, sess, toMJ, tables>> /\ Accepts(Head(toDS[p]))
    /\ obj[q] # "none"
    /\ game' = [game EXCEPT ![q] = "StayIn"] /\ at' = [at EXCEPT ![q] = Head(toDS[p]).room]
    /\ IF q = p THEN misled' = misled \ {p} /\ UNCHANGED forgot
       ELSE misled' = misled \cup {q} /\ Forget(q, toMJ[q], toDS'[q])
    => IInv'
<1> SUFFICES ASSUME NEW p \in Players, NEW q \in Players, IInv, toDS[p] # <<>>,
                    toDS' = [toDS EXCEPT ![p] = Tail(@)],
                    UNCHANGED <<obj, sess, toMJ, tables>>,
                    Accepts(Head(toDS[p])), obj[q] # "none",
                    game' = [game EXCEPT ![q] = "StayIn"],
                    at' = [at EXCEPT ![q] = Head(toDS[p]).room],
                    IF q = p THEN misled' = misled \ {p} /\ UNCHANGED forgot
                    ELSE misled' = misled \cup {q} /\ Forget(q, toMJ[q], toDS'[q])
             PROVE  IInv'
  OBVIOUS
<1> USE DEF IInv, tables
<1> DEFINE r == Head(toDS[p]).room
<1>1. /\ toDS[p] \in Seq(ToDS) /\ Head(toDS[p]) \in ToDS
      /\ toDS' \in [Players -> Seq(ToDS)] /\ toDS'[p] = Tail(toDS[p])
      /\ \A t \in Players : t # p => toDS'[t] = toDS[t]
  BY TakenFrom
<1>2. r \in Rooms
  BY <1>1 DEF Accepts, ToDS, MaybeRoom
<1>3. /\ game' \in [Players -> {"NotIn", "Entering", "StayIn"}]
      /\ at' \in [Players -> MaybeRoom]
      /\ game'[q] = "StayIn" /\ at'[q] = r
      /\ \A t \in Players : t # q => game'[t] = game[t] /\ at'[t] = at[t]
  BY <1>2 DEF TypeOK, MaybeRoom
<1>4. Heard(Tail(toDS[p]), In(p), "StayIn", r)
  BY <1>1, HeardAccept DEF HeardAll
<1>5. p \notin forgot => Tracked(toMJ[p], Tail(toDS[p]), In(p), "StayIn", r)
  BY <1>1, TrackedAccept DEF TrackedAll
<1> HIDE DEF r
<1>6. misled' \subseteq Players /\ forgot' \subseteq Players
  BY DEF Forget, TypeOK
<1>7. TypeOK'
  <2>1. \A t \in Players : (game'[t] = "StayIn") <=> (at'[t] \in Rooms)
    BY <1>2, <1>3 DEF TypeOK
  <2> QED
    BY <1>1, <1>3, <1>6, <2>1 DEF TypeOK
<1>8. Basic'
  BY <1>3 DEF Basic, Seated
<1>9. \A t \in Players : In(t)' = In(t)
  BY SameIn
<1>10. /\ \A t \in Players : Heard(toDS'[t], In(t), Known(t), at[t])
       /\ \A t \in Players \ forgot : Tracked(toMJ[t], toDS'[t], In(t), game[t], at[t])
  BY TakenKeeps DEF Accepts
<1>11. \A t \in Players : t # q => Known(t)' = Known(t)
  <2>1. \A t \in Players : t # q => (t \in misled' <=> t \in misled)
    OBVIOUS
  <2> QED
    BY <1>3, <2>1 DEF Known
<1>12. Known(q)' = IF q = p THEN "StayIn" ELSE "NotIn"
  <2>1. q \in misled' <=> q # p
    OBVIOUS
  <2> QED
    BY <1>3, <2>1 DEF Known
<1>13. ASSUME NEW t \in Players PROVE Heard(toDS'[t], In(t)', Known(t)', at'[t])
  <2>1. CASE t = q /\ q = p
    BY <1>1, <1>3, <1>4, <1>9, <1>12, <2>1
  <2>2. CASE t = q /\ q # p
    <3>1. Heard(toDS'[q], In(q), "NotIn", at'[q])
      BY <1>10, HeardIdle
    <3> QED
      BY <1>9, <1>12, <2>2, <3>1
  <2>3. CASE t # q
    BY <1>3, <1>9, <1>10, <1>11, <2>3
  <2> QED
    BY <2>1, <2>2, <2>3
<1>14. ASSUME NEW t \in Players \ forgot'
       PROVE  Tracked(toMJ'[t], toDS'[t], In(t)', game'[t], at'[t])
  <2>1. t \notin forgot
    BY <1>14 DEF Forget
  <2>2. CASE t = q /\ q = p
    BY <1>1, <1>3, <1>5, <1>9, <2>1, <2>2
  <2>3. CASE t = q /\ q # p
    <3>1. In(q) = {} /\ ~Coming(toMJ[q], toDS'[q])
      BY <1>14, <2>3 DEF Forget, In
    <3>2. Tracked(toMJ[q], toDS'[q], In(q), "NotIn", NoRoom)
      BY <1>10, <2>1, <2>3, <3>1, TrackedReset
    <3>3. Tracked(toMJ[q], toDS'[q], In(q), "StayIn", r)
      BY <3>1, <3>2 DEF Tracked
    <3> QED
      BY <1>3, <1>9, <2>3, <3>3
  <2>4. CASE t # q
    BY <1>3, <1>9, <1>10, <2>1, <2>4
  <2> QED
    BY <2>2, <2>3, <2>4
<1> QED
  BY <1>7, <1>8, <1>13, <1>14 DEF HeardAll, TrackedAll

LEMMA HearStep ==
  \A p \in Players : IInv /\ (HearAnswer(p) \/ HearDoLeave(p) \/ HearApplied(p)) => IInv'
<1> SUFFICES ASSUME NEW p \in Players, IInv,
                    HearAnswer(p) \/ HearDoLeave(p) \/ HearApplied(p)
             PROVE  IInv'
  OBVIOUS
<1>1. CASE HearAnswer(p)
  <2> DEFINE msg == Head(toDS[p])
  <2>1. /\ toDS[p] # <<>> /\ msg.kind = "answer"
        /\ toDS' = [toDS EXCEPT ![p] = Tail(@)] /\ UNCHANGED <<obj, sess, toMJ, tables>>
    BY <1>1 DEF HearAnswer, Hear
  <2>2. CASE UNCHANGED <<game, at, history>>
    BY <2>1, <2>2, HearNothing
  <2>3. CASE \E q \in Found(msg.sess) : Reset(q, toMJ[q], toDS'[q])
    <3>1. PICK q \in Players : Reset(q, toMJ[q], toDS'[q])
      BY <2>3 DEF Found
    <3> QED
      BY <2>1, <3>1, HearReset
  <2>4. CASE /\ msg.room # NoRoom
             /\ \E q \in Found(msg.sess) :
                  /\ game' = [game EXCEPT ![q] = "StayIn"]
                  /\ at' = [at EXCEPT ![q] = msg.room]
                  /\ IF q = p THEN misled' = misled \ {p} /\ UNCHANGED forgot
                     ELSE misled' = misled \cup {q} /\ Forget(q, toMJ[q], toDS'[q])
    <3>1. PICK q \in Found(msg.sess) :
                 /\ game' = [game EXCEPT ![q] = "StayIn"]
                 /\ at' = [at EXCEPT ![q] = msg.room]
                 /\ IF q = p THEN misled' = misled \ {p} /\ UNCHANGED forgot
                    ELSE misled' = misled \cup {q} /\ Forget(q, toMJ[q], toDS'[q])
      BY <2>4
    <3>2. q \in Players /\ obj[q] # "none"
      BY DEF Found
    <3>3. Accepts(msg)
      BY <2>1, <2>4 DEF Accepts
    <3> QED
      BY <2>1, <3>1, <3>2, <3>3, HearAccepted
  <2> QED
    BY <1>1, <2>2, <2>3, <2>4 DEF HearAnswer
<1>2. CASE HearDoLeave(p)
  <2>1. /\ toDS[p] # <<>>
        /\ toDS' = [toDS EXCEPT ![p] = Tail(@)] /\ UNCHANGED <<obj, sess, toMJ, tables>>
    BY <1>2 DEF HearDoLeave, Hear
  <2>2. CASE Reset(p, toMJ[p], toDS'[p])
    BY <2>1, <2>2, HearReset
  <2>3. CASE obj[p] = "none" /\ UNCHANGED <<game, at, history>>
    <3>1. game[p] # "StayIn"
      BY <2>3 DEF IInv, Basic
    <3> QED
      BY <2>1, <2>3, <3>1, HearNothing
  <2> QED
    BY <1>2, <2>2, <2>3 DEF HearDoLeave
<1>3. CASE HearApplied(p)
  BY <1>3, HearReset DEF HearApplied, Hear
<1> QED
  BY <1>1, <1>2, <1>3

-----------------------------------------------------------------------------
(* The theorems.                                                           *)

LEMMA NextInv == IInv /\ [Next]_vars => IInv'
<1> SUFFICES ASSUME IInv, [Next]_vars PROVE IInv'
  OBVIOUS
<1>1. ASSUME NEW p \in Players, Client(p) \/ Servers(p) \/ Delete(p) PROVE IInv'
  BY <1>1, LoginStep, DisconnectStep, AskEnterStep, ClientLeavesStep, ServeEnterStep,
     ServeLeaveStep, HearStep, DeleteStep DEF Client, Servers
<1>2. ASSUME NEW r \in Rooms, Table(r) PROVE IInv'
  BY <1>2, HandStep, ClearTableStep DEF Table
<1>3. CASE UNCHANGED vars
  <2>1. \A q \in Players : In(q)' = In(q)
    BY <1>3, SameIn DEF vars, tables
  <2> QED
    BY <1>3, <2>1, SameKnown
       DEF IInv, vars, data, tables, history, TypeOK, Basic, Seated, HeardAll, TrackedAll
<1> QED
  BY <1>1, <1>2, <1>3 DEF Next

LEMMA SpecInv == Spec => []IInv
BY InitInv, NextInv, PTL DEF Spec

\* Whatever the order of messages, logins and hands, every variable keeps its type:
\* DataServer knows of a room exactly for the players it has staying in one.
THEOREM TypeCorrect == Spec => []TypeOK
BY SpecInv, PTL DEF IInv

\* DataServer never keeps a player in a room that has forgotten him, unless he was told
\* to be there in the answer to another player, whose session he has.
THEOREM StayInIsSeatedCorrect == Spec => []StayInIsSeated
<1>1. IInv => StayInIsSeated
  <2> SUFFICES ASSUME IInv, NEW p \in Players \ misled, game[p] = "StayIn"
               PROVE  \/ InRoom(p, at[p])
                      \/ \E i \in 1..Len(toDS[p]) : toDS[p][i] = DoLeave(at[p])
    BY DEF StayInIsSeated
  <2>1. Heard(toDS[p], In(p), Known(p), at[p])
    BY DEF IInv, HeardAll
  <2> QED
    BY <2>1 DEF Heard, In, Known
<1> QED
  BY <1>1, SpecInv, PTL

\* As long as DataServer has not taken a player to be in no room, nor believed of him the
\* answer to another player, while he was in a room or on his way into one, he sits at
\* one table at most.
THEOREM OneRoomCorrect == Spec => []OneRoomWhileRemembered
<1>1. IInv => OneRoomWhileRemembered
  BY DEF IInv, TrackedAll, Tracked, In, OneRoomWhileRemembered
<1> QED
  BY <1>1, SpecInv, PTL
=============================================================================
