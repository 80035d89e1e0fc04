---------------------------- MODULE XLSettle_proofs ----------------------------
(***************************************************************************)
(* Theorems of module XLSettle, for every bet, every start of the coins,   *)
(* every hand that there is and any number of kongs and wins.              *)
(***************************************************************************)
EXTENDS XLSettle, TLAPS, WellFoundedInduction, SequenceTheorems,
        FiniteSetTheorems

Coins == [Seats -> Nat]

\* What a player gets by the payments, less what he pays
Net(pay, q) == pay[0][q] + pay[1][q] + pay[2][q] + pay[3][q] - Sum(pay[q])

\* Nobody pays more than he has
Affordable(pay, c) == \A d \in Seats : Sum(pay[d]) <= c[d]

-----------------------------------------------------------------------------
(* Payments *)

LEMMA SumType ==
  /\ \A f \in Coins : Sum(f) \in Nat
  /\ \A f \in [Seats -> Int] : Sum(f) \in Int
BY DEF Sum, Coins, Seats

LEMMA FourSeats ==
  /\ 0 \in Seats /\ 1 \in Seats /\ 2 \in Seats /\ 3 \in Seats
  /\ \A q \in Seats : q = 0 \/ q = 1 \/ q = 2 \/ q = 3
BY DEF Seats

LEMMA SumZero ==
  ASSUME NEW f \in Coins, ~(Sum(f) > 0)
  PROVE  \A q \in Seats : f[q] = 0
<1>1. f[0] \in Nat /\ f[1] \in Nat /\ f[2] \in Nat /\ f[3] \in Nat
  BY FourSeats DEF Coins
<1>2. ~(f[0] + f[1] + f[2] + f[3] > 0)
  BY DEF Sum
<1>3. \A i, j, k, m \in Nat : ~(i + j + k + m > 0) => i = 0 /\ j = 0 /\ k = 0 /\ m = 0
  OBVIOUS
<1>4. f[0] = 0 /\ f[1] = 0 /\ f[2] = 0 /\ f[3] = 0
  BY <1>1, <1>2, <1>3
<1> QED
  BY <1>4, FourSeats

LEMMA SumMinus ==
  ASSUME NEW f \in [Seats -> Int], NEW g \in [Seats -> Int], NEW h,
         \A q \in Seats : h[q] = f[q] - g[q]
  PROVE  Sum(h) = Sum(f) - Sum(g)
<1>1. /\ f[0] \in Int /\ f[1] \in Int /\ f[2] \in Int /\ f[3] \in Int
      /\ g[0] \in Int /\ g[1] \in Int /\ g[2] \in Int /\ g[3] \in Int
  BY FourSeats
<1>2. /\ h[0] = f[0] - g[0] /\ h[1] = f[1] - g[1] /\ h[2] = f[2] - g[2] /\ h[3] = f[3] - g[3]
  BY FourSeats
<1> QED
  BY <1>1, <1>2 DEF Sum

(* Who has n coins or fewer to pay from pays each what is due to him or less,   *)
(* and all of them together n or what is due to all.                            *)
LEMMA ShareProperties ==
  ASSUME NEW c \in Nat, NEW due \in Coins
  PROVE  /\ Share(c, due) \in Coins
         /\ Sum(Share(c, due)) = AtMost(Sum(due), c)
         /\ Sum(Share(c, due)) <= c
         /\ \A q \in Seats : Share(c, due)[q] <= due[q]
         /\ Sum(due) <= c => Share(c, due) = due
<1> DEFINE s == Share(c, due)
<1>1. /\ Before(due, 0) = 0 /\ Before(due, 1) = due[0]
      /\ Before(due, 2) = due[0] + due[1] /\ Before(due, 3) = due[0] + due[1] + due[2]
  BY DEF Before, Coins, Seats
<1>2. /\ s[0] = AtMost(due[0], c) - AtMost(0, c)
      /\ s[1] = AtMost(due[0] + due[1], c) - AtMost(due[0], c)
      /\ s[2] = AtMost(due[0] + due[1] + due[2], c) - AtMost(due[0] + due[1], c)
      /\ s[3] = AtMost(due[0] + due[1] + due[2] + due[3], c) - AtMost(due[0] + due[1] + due[2], c)
  BY <1>1, FourSeats DEF Share, Coins
<1>3. s = [q \in Seats |-> s[q]]
  BY DEF Share
<1> HIDE DEF s
<1>4. due[0] \in Nat /\ due[1] \in Nat /\ due[2] \in Nat /\ due[3] \in Nat
  BY FourSeats DEF Coins
<1>5. /\ s[0] \in 0..due[0] /\ s[1] \in 0..due[1] /\ s[2] \in 0..due[2] /\ s[3] \in 0..due[3]
  BY <1>2, <1>4 DEF AtMost
<1>6. \A q \in Seats : s[q] \in Nat /\ s[q] <= due[q]
  BY <1>4, <1>5, FourSeats
<1>7. s \in Coins
  BY <1>3, <1>6 DEF Coins
<1>8. Sum(s) = AtMost(Sum(due), c)
  BY <1>2, <1>4 DEF AtMost, Sum
<1>9. Sum(s) <= c
  BY <1>8, SumType DEF AtMost
<1>10. ASSUME Sum(due) <= c PROVE s = due
  <2>1. s[0] = due[0] /\ s[1] = due[1] /\ s[2] = due[2] /\ s[3] = due[3]
    BY <1>2, <1>4, <1>10 DEF AtMost, Sum
  <2> QED
    BY <2>1, <1>7, FourSeats DEF Coins
<1> QED
  BY <1>6, <1>7, <1>8, <1>9, <1>10 DEF s

(* Everyone can afford what he pays.                                            *)
LEMMA PayProperties ==
  ASSUME NEW c \in Coins, NEW due \in Payments
  PROVE  /\ Pay(c, due) \in Payments
         /\ Affordable(Pay(c, due), c)
         /\ \A d, q \in Seats : Pay(c, due)[d][q] <= due[d][q]
<1>1. \A d \in Seats : c[d] \in Nat /\ due[d] \in Coins
  BY DEF Coins, Payments
<1>2. \A d \in Seats : /\ Share(c[d], due[d]) \in Coins
                       /\ Sum(Share(c[d], due[d])) <= c[d]
                       /\ \A q \in Seats : Share(c[d], due[d])[q] <= due[d][q]
  BY <1>1, ShareProperties
<1> QED
  BY <1>2 DEF Pay, Payments, Affordable, Coins

LEMMA NetType ==
  ASSUME NEW pay \in Payments
  PROVE  /\ \A q \in Seats : Net(pay, q) \in Int
         /\ Net(pay, 0) + Net(pay, 1) + Net(pay, 2) + Net(pay, 3) = 0
<1>1. \A d, q \in Seats : pay[d][q] \in Nat
  BY DEF Payments
<1>2. /\ pay[0][0] \in Nat /\ pay[0][1] \in Nat /\ pay[0][2] \in Nat /\ pay[0][3] \in Nat
      /\ pay[1][0] \in Nat /\ pay[1][1] \in Nat /\ pay[1][2] \in Nat /\ pay[1][3] \in Nat
      /\ pay[2][0] \in Nat /\ pay[2][1] \in Nat /\ pay[2][2] \in Nat /\ pay[2][3] \in Nat
      /\ pay[3][0] \in Nat /\ pay[3][1] \in Nat /\ pay[3][2] \in Nat /\ pay[3][3] \in Nat
  BY <1>1, FourSeats
<1>3. Net(pay, 0) + Net(pay, 1) + Net(pay, 2) + Net(pay, 3) = 0
  BY <1>2 DEF Net, Sum
<1>4. \A q \in Seats : Net(pay, q) \in Int
  BY <1>2, FourSeats DEF Net, Sum
<1> QED
  BY <1>3, <1>4

(* Affordable payments move coins from those who pay to those who are paid, and *)
(* the branch of addOffsetCoin for who has too little is not taken.             *)
LEMMA PaidProperties ==
  ASSUME NEW b \in Books, NEW pay \in Payments, Affordable(pay, b.coin)
  PROVE  /\ Paid(b, pay) \in Books
         /\ Paid(b, pay).coin = [q \in Seats |-> b.coin[q] + Net(pay, q)]
         /\ Paid(b, pay).offset = [q \in Seats |-> b.offset[q] + Net(pay, q)]
         /\ Sum(Paid(b, pay).offset) = Sum(b.offset)
         /\ Paid(b, pay).taken = b.taken
         /\ Paid(b, pay).settles = b.settles
         /\ Paid(b, pay).cut = b.cut
<1> DEFINE p == Paid(b, pay)
<1>1. b = [coin |-> b.coin, offset |-> b.offset, taken |-> b.taken, settles |-> b.settles,
           cut |-> b.cut]
  BY DEF Books
<1>2. /\ b.coin \in Coins /\ b.offset \in [Seats -> Int] /\ b.taken \in Nat
      /\ b.settles \in Seq(Settle) /\ b.cut \in BOOLEAN
  BY DEF Books, Coins
<1>3. \A q \in Seats : AddOffset(Net(pay, q), b.coin[q]) = Net(pay, q)
  <2> SUFFICES ASSUME NEW q \in Seats
               PROVE  AddOffset(Net(pay, q), b.coin[q]) = Net(pay, q)
    OBVIOUS
  <2>1. pay[0][q] \in Nat /\ pay[1][q] \in Nat /\ pay[2][q] \in Nat /\ pay[3][q] \in Nat
    BY FourSeats DEF Payments
  <2>2. Sum(pay[q]) \in Nat
    BY SumType DEF Payments, Coins
  <2>3. Sum(pay[q]) <= b.coin[q] /\ b.coin[q] \in Nat
    BY <1>2 DEF Affordable, Coins
  <2> QED
    BY <2>1, <2>2, <2>3 DEF AddOffset, Net
<1>4. \A q \in Seats : b.coin[q] + Net(pay, q) \in Nat
  <2> SUFFICES ASSUME NEW q \in Seats
               PROVE  b.coin[q] + Net(pay, q) \in Nat
    OBVIOUS
  <2>1. pay[0][q] \in Nat /\ pay[1][q] \in Nat /\ pay[2][q] \in Nat /\ pay[3][q] \in Nat
    BY FourSeats DEF Payments
  <2>2. Sum(pay[q]) \in Nat
    BY SumType DEF Payments, Coins
  <2>3. Sum(pay[q]) <= b.coin[q] /\ b.coin[q] \in Nat
    BY <1>2 DEF Affordable, Coins
  <2> QED
    BY <2>1, <2>2, <2>3 DEF Net
<1>5. p = [b EXCEPT !.coin = [q \in Seats |-> @[q] + AddOffset(Net(pay, q), @[q])],
                    !.offset = [q \in Seats |-> @[q] + AddOffset(Net(pay, q), b.coin[q])]]
  BY DEF Paid, Net
<1>6. p = [coin |-> [q \in Seats |-> b.coin[q] + AddOffset(Net(pay, q), b.coin[q])],
           offset |-> [q \in Seats |-> b.offset[q] + AddOffset(Net(pay, q), b.coin[q])],
           taken |-> b.taken, settles |-> b.settles, cut |-> b.cut]
  BY <1>1, <1>5
<1>7. p = [coin |-> [q \in Seats |-> b.coin[q] + Net(pay, q)],
           offset |-> [q \in Seats |-> b.offset[q] + Net(pay, q)],
           taken |-> b.taken, settles |-> b.settles, cut |-> b.cut]
  BY <1>3, <1>6
<1> HIDE DEF p
<1>8. [q \in Seats |-> b.coin[q] + Net(pay, q)] \in Coins
  BY <1>4 DEF Coins
<1>9. [q \in Seats |-> b.offset[q] + Net(pay, q)] \in [Seats -> Int]
  BY <1>2, NetType
<1>10. p \in Books
  BY <1>2, <1>7, <1>8, <1>9 DEF Books, Coins
<1>11. Sum(p.offset) = Sum(b.offset)
  <2>1. /\ p.offset[0] = b.offset[0] + Net(pay, 0) /\ p.offset[1] = b.offset[1] + Net(pay, 1)
        /\ p.offset[2] = b.offset[2] + Net(pay, 2) /\ p.offset[3] = b.offset[3] + Net(pay, 3)
    BY <1>7, FourSeats
  <2>2. /\ b.offset[0] \in Int /\ b.offset[1] \in Int /\ b.offset[2] \in Int /\ b.offset[3] \in Int
        /\ Net(pay, 0) \in Int /\ Net(pay, 1) \in Int /\ Net(pay, 2) \in Int /\ Net(pay, 3) \in Int
    BY <1>2, NetType, FourSeats
  <2>3. Net(pay, 0) + Net(pay, 1) + Net(pay, 2) + Net(pay, 3) = 0
    BY NetType
  <2> QED
    BY <2>1, <2>2, <2>3 DEF Sum
<1> QED
  BY <1>7, <1>10, <1>11 DEF p

-----------------------------------------------------------------------------
(* Recursive functions on the first naturals *)

(* A set of naturals has a least element.                                       *)
LEMMA LeastElement ==
  ASSUME NEW T, T \subseteq Nat, T # {}
  PROVE  \E x \in T : \A y \in T : x <= y
<1> DEFINE R == OpToRel(<, Nat)
<1>1. IsWellFoundedOn(R, Nat)
  BY NatLessThanWellFounded
<1>2. PICK x \in T : \A y \in T : <<y, x>> \notin R
  BY <1>1, WFMin
<1>3. \A y \in T : <<y, x>> \in R <=> y < x
  BY DEF OpToRel
<1> HIDE DEF R
<1>4. ASSUME NEW y \in T PROVE x <= y
  <2>1. x \in Nat /\ y \in Nat
    OBVIOUS
  <2>2. ~ (y < x)
    BY <1>2, <1>3
  <2> QED
    BY <2>1, <2>2
<1> QED
  BY <1>4

(* What holds of zero, and of a number up to N with the one before it, holds of *)
(* all of them.                                                                 *)
LEMMA UpTo ==
  ASSUME NEW N \in Nat, NEW K, 0 \in K, \A m \in 1..N : m - 1 \in K => m \in K
  PROVE  \A m \in 0..N : m \in K
<1> SUFFICES ASSUME NEW m0 \in 0..N, m0 \notin K
             PROVE  FALSE
  OBVIOUS
<1> DEFINE T == {m \in 0..N : m \notin K}
<1>1. PICK m \in T : \A k \in T : m <= k
  <2>1. T \subseteq Nat /\ T # {}
    OBVIOUS
  <2> HIDE DEF T
  <2> QED
    BY <2>1, LeastElement
<1>2. m \in 1..N
  BY <1>1
<1>3. m - 1 \in 0..N /\ m - 1 \notin T
  BY <1>1, <1>2
<1> QED
  BY <1>1, <1>2, <1>3

-----------------------------------------------------------------------------
(* Bills *)

\* The bills of the first settlements of ss, up to each of them
BillStep(ss, f, n) ==
  IF n = 0 THEN None ELSE [q \in Seats |-> f[n - 1][q] + Bill(q, ss[n])]
IsBills(f, ss, len) == f = [n \in 0..len |-> BillStep(ss, f, n)]

LEMMA BillType ==
  ASSUME NEW s \in Settle, NEW q \in Seats
  PROVE  Bill(q, s) \in Int
<1>1. s.part \in Coins /\ s.part[q] \in Nat
  BY DEF Settle, Coins
<1>2. Sum(s.part) \in Nat
  BY <1>1, SumType
<1>3. CASE s.kind \in Payers
  BY <1>1, <1>2, <1>3 DEF Bill
<1>4. CASE s.kind \notin Payers
  BY <1>1, <1>2, <1>4 DEF Bill
<1> QED
  BY <1>3, <1>4

LEMMA BillsExist ==
  ASSUME NEW ss, NEW len \in Nat
  PROVE  \E f : IsBills(f, ss, len)
<1> DEFINE K == {m \in 0..len : \E f : IsBills(f, ss, m)}
<1>1. 0 \in K
  <2> DEFINE f == [n \in 0..0 |-> None]
  <2>1. f = [n \in 0..0 |-> BillStep(ss, f, n)]
    BY DEF BillStep
  <2>2. IsBills(f, ss, 0)
    BY <2>1 DEF IsBills
  <2> QED
    BY <2>2
<1>2. ASSUME NEW m \in 1..len, m - 1 \in K
      PROVE  m \in K
  <2>1. PICK f : IsBills(f, ss, m - 1)
    BY <1>2
  <2> DEFINE g == [n \in 0..m |-> IF n = m THEN BillStep(ss, f, m) ELSE f[n]]
  <2>2. \A n \in 0..m : g[n] = BillStep(ss, g, n)
    <3> SUFFICES ASSUME NEW n \in 0..m
                 PROVE  g[n] = BillStep(ss, g, n)
      OBVIOUS
    <3>1. n # 0 => g[n - 1] = f[n - 1]
      OBVIOUS
    <3>2. BillStep(ss, g, n) = BillStep(ss, f, n)
      <4>1. CASE n = 0
        BY <4>1 DEF BillStep
      <4>2. CASE n # 0
        <5> HIDE DEF g
        <5> QED
          BY <3>1, <4>2 DEF BillStep
      <4> QED
        BY <4>1, <4>2
    <3>3. n # m => f[n] = BillStep(ss, f, n)
      BY <2>1 DEF IsBills
    <3> QED
      BY <3>2, <3>3
  <2>3. g = [n \in 0..m |-> BillStep(ss, g, n)]
    BY <2>2
  <2> HIDE DEF g
  <2>4. IsBills(g, ss, m)
    BY <2>3 DEF IsBills
  <2> QED
    BY <2>4
<1> HIDE DEF K
<1>3. \A m \in 0..len : m \in K
  BY <1>1, <1>2, UpTo
<1>4. len \in K
  BY <1>3
<1> QED
  BY <1>4 DEF K

LEMMA BilledIsBills ==
  ASSUME NEW ss \in Seq(Settle)
  PROVE  \E f : IsBills(f, ss, Len(ss)) /\ Billed(ss) = f[Len(ss)]
<1> DEFINE F == CHOOSE f : f = [n \in 0..Len(ss) |-> BillStep(ss, f, n)]
<1>1. Len(ss) \in Nat
  OBVIOUS
<1>2. \E f : f = [n \in 0..Len(ss) |-> BillStep(ss, f, n)]
  BY <1>1, BillsExist DEF IsBills
<1>3. F = [n \in 0..Len(ss) |-> BillStep(ss, F, n)]
  BY <1>2
<1>4. Billed(ss) = F[Len(ss)]
  BY DEF Billed, BillStep
<1> HIDE DEF F
<1> QED
  BY <1>3, <1>4 DEF IsBills

LEMMA BillsStep ==
  ASSUME NEW f, NEW ss, NEW len \in Nat, IsBills(f, ss, len)
  PROVE  /\ f[0] = None
         /\ \A n \in 1..len : f[n] = [q \in Seats |-> f[n - 1][q] + Bill(q, ss[n])]
<1>1. \A n \in 0..len : f[n] = BillStep(ss, f, n)
  BY DEF IsBills
<1>2. f[0] = None
  <2>1. f[0] = BillStep(ss, f, 0)
    BY <1>1
  <2> QED
    BY <2>1 DEF BillStep
<1>3. ASSUME NEW n \in 1..len
      PROVE  f[n] = [q \in Seats |-> f[n - 1][q] + Bill(q, ss[n])]
  <2>1. n \in 0..len /\ n # 0
    OBVIOUS
  <2>2. f[n] = BillStep(ss, f, n)
    BY <1>1, <2>1
  <2>3. BillStep(ss, f, n) = [q \in Seats |-> f[n - 1][q] + Bill(q, ss[n])]
    BY <2>1 DEF BillStep
  <2> QED
    BY <2>2, <2>3
<1> QED
  BY <1>2, <1>3

LEMMA BillsType ==
  ASSUME NEW f, NEW ss \in Seq(Settle), IsBills(f, ss, Len(ss))
  PROVE  \A n \in 0..Len(ss) : f[n] \in [Seats -> Int]
<1>0. PICK len \in Nat : Len(ss) = len
  OBVIOUS
<1> DEFINE K == {n \in 0..len : f[n] \in [Seats -> Int]}
<1>1. 0 \in K
  BY <1>0, BillsStep DEF None
<1>2. ASSUME NEW m \in 1..len, m - 1 \in K
      PROVE  m \in K
  <2>1. f[m] = [q \in Seats |-> f[m - 1][q] + Bill(q, ss[m])]
    BY <1>0, BillsStep
  <2>2. ss[m] \in Settle
    BY <1>0
  <2>3. \A q \in Seats : Bill(q, ss[m]) \in Int
    BY <2>2, BillType
  <2>4. f[m - 1] \in [Seats -> Int]
    BY <1>2
  <2>5. \A q \in Seats : f[m - 1][q] + Bill(q, ss[m]) \in Int
    BY <2>3, <2>4
  <2>6. f[m] \in [Seats -> Int]
    BY <2>1, <2>5
  <2> QED
    BY <2>6
<1> HIDE DEF K
<1>3. \A m \in 0..len : m \in K
  BY <1>1, <1>2, UpTo
<1> QED
  BY <1>0, <1>3 DEF K

LEMMA BilledType ==
  ASSUME NEW ss \in Seq(Settle)
  PROVE  Billed(ss) \in [Seats -> Int]
BY BilledIsBills, BillsType

(* Sequences with the same settlements up to a place have the same bills there. *)
LEMMA BillsAgree ==
  ASSUME NEW ss \in Seq(Settle), NEW tt \in Seq(Settle), NEW k \in Nat,
         k <= Len(ss), k <= Len(tt), \A n \in 1..k : ss[n] = tt[n],
         NEW f, NEW g, IsBills(f, ss, Len(ss)), IsBills(g, tt, Len(tt))
  PROVE  f[k] = g[k]
<1> DEFINE K == {n \in 0..k : f[n] = g[n]}
<1>1. 0 \in K
  BY BillsStep
<1>2. ASSUME NEW m \in 1..k, m - 1 \in K
      PROVE  m \in K
  <2>1. m \in 1..Len(ss) /\ m \in 1..Len(tt)
    OBVIOUS
  <2>2. f[m] = [q \in Seats |-> f[m - 1][q] + Bill(q, ss[m])]
    BY <2>1, BillsStep
  <2>3. g[m] = [q \in Seats |-> g[m - 1][q] + Bill(q, tt[m])]
    BY <2>1, BillsStep
  <2> QED
    BY <1>2, <2>2, <2>3
<1> HIDE DEF K
<1>3. \A m \in 0..k : m \in K
  BY <1>1, <1>2, UpTo
<1> QED
  BY <1>3 DEF K

LEMMA BilledNone == Billed(<<>>) = None
<1>1. <<>> \in Seq(Settle) /\ Len(<<>>) = 0
  OBVIOUS
<1> QED
  BY <1>1, BilledIsBills, BillsStep

LEMMA BilledAppend ==
  ASSUME NEW ss \in Seq(Settle), NEW s \in Settle
  PROVE  /\ Append(ss, s) \in Seq(Settle)
         /\ Billed(Append(ss, s)) = [q \in Seats |-> Billed(ss)[q] + Bill(q, s)]
<1> DEFINE tt == Append(ss, s)
           len == Len(ss)
<1>1. tt \in Seq(Settle) /\ Len(tt) = len + 1 /\ tt[len + 1] = s /\ len \in Nat
      /\ \A n \in 1..len : ss[n] = tt[n]
  OBVIOUS
<1> HIDE DEF tt, len
<1>2. PICK f : IsBills(f, ss, Len(ss)) /\ Billed(ss) = f[Len(ss)]
  BY BilledIsBills
<1>3. PICK g : IsBills(g, tt, Len(tt)) /\ Billed(tt) = g[Len(tt)]
  BY <1>1, BilledIsBills
<1>4. f[len] = g[len]
  BY <1>1, <1>2, <1>3, BillsAgree DEF len
<1>5. g[len + 1] = [q \in Seats |-> g[len][q] + Bill(q, s)]
  <2>1. len + 1 \in 1..Len(tt) /\ (len + 1) - 1 = len
    BY <1>1
  <2>2. \A n \in 1..Len(tt) : g[n] = [q \in Seats |-> g[n - 1][q] + Bill(q, tt[n])]
    BY <1>1, <1>3, BillsStep
  <2>3. g[len + 1] = [q \in Seats |-> g[(len + 1) - 1][q] + Bill(q, tt[len + 1])]
    BY <2>1, <2>2
  <2> QED
    BY <1>1, <2>1, <2>3
<1> QED
  BY <1>1, <1>2, <1>3, <1>4, <1>5 DEF len, tt

LEMMA BilledExcept ==
  ASSUME NEW ss \in Seq(Settle), NEW n \in 1..Len(ss), NEW s \in Settle
  PROVE  /\ [ss EXCEPT ![n] = s] \in Seq(Settle)
         /\ \A q \in Seats : Billed([ss EXCEPT ![n] = s])[q]
                             = Billed(ss)[q] - Bill(q, ss[n]) + Bill(q, s)
<1> DEFINE tt == [ss EXCEPT ![n] = s]
           len == Len(ss)
<1>1. tt \in Seq(Settle) /\ Len(tt) = len /\ tt[n] = s /\ len \in Nat /\ n \in 1..len
      /\ (\A m \in 1..len : m # n => ss[m] = tt[m]) /\ ss[n] \in Settle
  OBVIOUS
<1> HIDE DEF tt, len
<1>2. PICK f : IsBills(f, ss, Len(ss)) /\ Billed(ss) = f[Len(ss)]
  BY BilledIsBills
<1>3. PICK g : IsBills(g, tt, Len(tt)) /\ Billed(tt) = g[Len(tt)]
  BY <1>1, BilledIsBills
<1>4. \A m \in 0..len : f[m] \in [Seats -> Int] /\ g[m] \in [Seats -> Int]
  BY <1>1, <1>2, <1>3, BillsType DEF len
<1>5. \A q \in Seats : Bill(q, ss[n]) \in Int /\ Bill(q, s) \in Int
  BY <1>1, BillType
<1> DEFINE K == {m \in 0..len : m < n \/ \A q \in Seats : g[m][q] = f[m][q] - Bill(q, ss[n]) + Bill(q, s)}
<1>6. 0 \in K
  BY <1>1
<1>7. ASSUME NEW m \in 1..len, m - 1 \in K
      PROVE  m \in K
  <2>1. f[m] = [q \in Seats |-> f[m - 1][q] + Bill(q, ss[m])]
    <3>1. IsBills(f, ss, len) /\ len \in Nat
      BY <1>1, <1>2 DEF len
    <3> QED
      BY <3>1, BillsStep
  <2>2. g[m] = [q \in Seats |-> g[m - 1][q] + Bill(q, tt[m])]
    <3>1. IsBills(g, tt, len) /\ len \in Nat
      BY <1>1, <1>3
    <3> QED
      BY <3>1, BillsStep
  <2>3. CASE m < n
    BY <2>3
  <2>4. CASE m = n
    <3>1. f[n - 1] = g[n - 1]
      <4>1. n - 1 \in Nat /\ n - 1 <= Len(ss) /\ n - 1 <= Len(tt)
            /\ \A k \in 1..(n - 1) : ss[k] = tt[k]
        BY <1>1 DEF len
      <4> QED
        BY <1>1, <1>2, <1>3, <4>1, BillsAgree
    <3>2. f[n - 1] \in [Seats -> Int]
      BY <1>1, <1>4
    <3>3. \A q \in Seats : g[m][q] = f[m][q] - Bill(q, ss[n]) + Bill(q, s)
      BY <1>1, <1>5, <2>1, <2>2, <2>4, <3>1, <3>2
    <3> QED
      BY <3>3
  <2>5. CASE m > n
    <3>1. \A q \in Seats : g[m - 1][q] = f[m - 1][q] - Bill(q, ss[n]) + Bill(q, s)
      BY <1>1, <1>7, <2>5
    <3>2. ss[m] = tt[m] /\ ss[m] \in Settle
      BY <1>1, <2>5 DEF len
    <3>3. \A q \in Seats : Bill(q, ss[m]) \in Int
      BY <3>2, BillType
    <3>4. f[m - 1] \in [Seats -> Int] /\ g[m - 1] \in [Seats -> Int]
      <4>1. m - 1 \in 0..len
        BY <1>1
      <4> QED
        BY <1>4, <4>1
    <3>5. \A q \in Seats : g[m][q] = f[m][q] - Bill(q, ss[n]) + Bill(q, s)
      BY <1>5, <2>1, <2>2, <3>1, <3>2, <3>3, <3>4
    <3> QED
      BY <3>5
  <2> QED
    BY <1>1, <2>3, <2>4, <2>5
<1> HIDE DEF K
<1>8. \A m \in 0..len : m \in K
  BY <1>1, <1>6, <1>7, UpTo
<1>9. len \in K
  BY <1>1, <1>8
<1>10. \A q \in Seats : g[len][q] = f[len][q] - Bill(q, ss[n]) + Bill(q, s)
  BY <1>1, <1>9 DEF K
<1> QED
  BY <1>1, <1>2, <1>3, <1>10 DEF len, tt

-----------------------------------------------------------------------------
(* Refunds *)

\* Who is paid or pays is not among the others
Fair(s) == s \in Settle /\ s.part[s.idx] = 0
AllFair(ss) == ss \in Seq(Settle) /\ \A n \in 1..Len(ss) : Fair(ss[n])

\* The books r are the books b after kongs have been given back or players paid for at
\* the end of the hand
Ends(b, r) ==
  /\ r \in Books
  /\ Sum(r.offset) + r.taken = Sum(b.offset) + b.taken
  /\ AllFair(r.settles) /\ Len(b.settles) <= Len(r.settles)
  /\ \A n \in 1..Len(r.settles) :
       r.settles[n].kind \in Wins => n <= Len(b.settles) /\ r.settles[n] = b.settles[n]
  /\ ~r.cut => /\ ~b.cut
               /\ \A q \in Seats : r.offset[q] - Billed(r.settles)[q]
                                   = b.offset[q] - Billed(b.settles)[q]

\* No coin of a player who has left the game changes
Keeps(b, r, l) == \A q \in Seats : q \in l => r.coin[q] = b.coin[q]

LEMMA NoneType ==
  /\ None \in Coins /\ Nothing \in Payments /\ Sum(None) = 0
BY FourSeats DEF None, Nothing, Coins, Payments, Sum

LEMMA DeletedFair == Fair(Deleted) /\ \A q \in Seats : Bill(q, Deleted) = 0
<1>1. Deleted \in Settle
  BY NoneType, FourSeats DEF Deleted, Settle, Coins
<1>2. Deleted.part = None /\ Deleted.idx = 0 /\ Deleted.kind \notin Payers
  BY DEF Deleted, Payers
<1>3. \A q \in Seats : None[q] = 0
  BY DEF None
<1>4. \A q \in Seats : Bill(q, Deleted) = 0
  BY <1>2, <1>3, NoneType DEF Bill
<1> QED
  BY <1>1, <1>2, <1>3, <1>4, FourSeats DEF Fair

(* When only player d pays.                                                     *)
LEMMA OnePayer ==
  ASSUME NEW d \in Seats, NEW share \in Coins
  PROVE  /\ [Nothing EXCEPT ![d] = share] \in Payments
         /\ \A q \in Seats : /\ Sum([Nothing EXCEPT ![d] = share][q])
                                = (IF q = d THEN Sum(share) ELSE 0)
                             /\ Net([Nothing EXCEPT ![d] = share], q)
                                = share[q] - (IF q = d THEN Sum(share) ELSE 0)
<1> DEFINE pay == [Nothing EXCEPT ![d] = share]
<1>1. \A e \in Seats : pay[e] = IF e = d THEN share ELSE None
  BY DEF Nothing
<1>2. pay \in Payments
  BY NoneType DEF Payments, Coins, Nothing
<1> HIDE DEF pay
<1>3. \A q \in Seats : Sum(pay[q]) = IF q = d THEN Sum(share) ELSE 0
  BY <1>1, NoneType
<1>4. \A q \in Seats : None[q] = 0 /\ share[q] \in Nat
  BY DEF None, Coins
<1>5. \A q \in Seats : pay[0][q] + pay[1][q] + pay[2][q] + pay[3][q] = share[q]
  <2> SUFFICES ASSUME NEW q \in Seats
               PROVE  pay[0][q] + pay[1][q] + pay[2][q] + pay[3][q] = share[q]
    OBVIOUS
  <2>1. CASE d = 0
    BY <1>1, <1>4, <2>1, FourSeats
  <2>2. CASE d = 1
    BY <1>1, <1>4, <2>2, FourSeats
  <2>3. CASE d = 2
    BY <1>1, <1>4, <2>3, FourSeats
  <2>4. CASE d = 3
    BY <1>1, <1>4, <2>4, FourSeats
  <2> QED
    BY <2>1, <2>2, <2>3, <2>4, FourSeats
<1>6. \A q \in Seats : Net(pay, q) = share[q] - (IF q = d THEN Sum(share) ELSE 0)
  <2> SUFFICES ASSUME NEW q \in Seats
               PROVE  Net(pay, q) = share[q] - (IF q = d THEN Sum(share) ELSE 0)
    OBVIOUS
  <2>1. Net(pay, q) = pay[0][q] + pay[1][q] + pay[2][q] + pay[3][q] - Sum(pay[q])
    BY DEF Net
  <2>2. pay[0][q] + pay[1][q] + pay[2][q] + pay[3][q] = share[q]
    BY <1>5
  <2>3. Sum(pay[q]) = IF q = d THEN Sum(share) ELSE 0
    BY <1>3
  <2>4. pay[0][q] \in Nat /\ pay[1][q] \in Nat /\ pay[2][q] \in Nat /\ pay[3][q] \in Nat
    BY <1>2, FourSeats DEF Payments
  <2>5. Sum(pay[q]) \in Nat
    BY <1>2, SumType DEF Payments, Coins
  <2>6. Net(pay, q) = share[q] - Sum(pay[q])
    BY <2>1, <2>2, <2>4, <2>5
  <2> QED
    BY <2>3, <2>6
<1> QED
  BY <1>2, <1>3, <1>6 DEF pay

LEMMA EndsNothing ==
  ASSUME NEW b \in Books, AllFair(b.settles)
  PROVE  Ends(b, b)
<1>1. Len(b.settles) \in Nat
  BY DEF AllFair
<1> QED
  BY <1>1 DEF Ends

LEMMA GiveBackEnds ==
  ASSUME NEW b \in Books, AllFair(b.settles), NEW d \in Seats, NEW n \in 1..Len(b.settles), NEW l
  PROVE  Ends(b, GiveBack(b, d, n, l))
<1> DEFINE s == b.settles[n]
<1>1. CASE s.kind \notin Kongs \/ s.idx # d \/ b.coin[d] = 0
  <2>1. GiveBack(b, d, n, l) = b
    BY <1>1 DEF GiveBack
  <2> QED
    BY <2>1, EndsNothing
<1>2. CASE ~(s.kind \notin Kongs \/ s.idx # d \/ b.coin[d] = 0)
  <2> DEFINE due   == s.part
             share == Share(b.coin[d], due)
             held  == [i \in Seats |-> IF i \in l THEN share[i] ELSE 0]
             pay   == [Nothing EXCEPT ![d] = share]
             paid  == Paid(b, pay)
             r     == GiveBack(b, d, n, l)
  <2>1. r = [coin    |-> [i \in Seats |-> paid.coin[i] - held[i]],
             offset  |-> [i \in Seats |-> paid.offset[i] - held[i]],
             taken   |-> b.taken + Sum(held),
             settles |-> [b.settles EXCEPT ![n] = Deleted],
             cut     |-> b.cut \/ b.coin[d] < Sum(due) \/ Sum(held) > 0]
    BY <1>2 DEF GiveBack
  <2>2. /\ b.coin \in Coins /\ b.offset \in [Seats -> Int] /\ b.taken \in Nat
        /\ b.settles \in Seq(Settle) /\ b.cut \in BOOLEAN /\ b.coin[d] \in Nat
    BY DEF Books, Coins
  <2>3. /\ s \in Settle /\ s.kind \in Kongs /\ s.idx = d /\ due[d] = 0
    BY <1>2 DEF AllFair, Fair
  <2>4. due \in Coins
    BY <2>3 DEF Settle, Coins
  <2> HIDE DEF s
  <2>5. /\ share \in Coins /\ Sum(share) <= b.coin[d] /\ (Sum(due) <= b.coin[d] => share = due)
        /\ \A q \in Seats : share[q] <= due[q]
    BY <2>2, <2>4, ShareProperties
  <2> HIDE DEF due, share
  <2>6. /\ pay \in Payments
        /\ \A q \in Seats : /\ Sum(pay[q]) = (IF q = d THEN Sum(share) ELSE 0)
                            /\ Net(pay, q) = share[q] - (IF q = d THEN Sum(share) ELSE 0)
    BY <2>5, OnePayer
  <2> HIDE DEF pay
  <2>7. Affordable(pay, b.coin)
    BY <2>2, <2>5, <2>6 DEF Affordable, Coins
  <2>8. /\ paid \in Books
        /\ paid.coin = [q \in Seats |-> b.coin[q] + Net(pay, q)]
        /\ paid.offset = [q \in Seats |-> b.offset[q] + Net(pay, q)]
        /\ Sum(paid.offset) = Sum(b.offset)
    BY <2>6, <2>7, PaidProperties
  <2> HIDE DEF paid, r
  <2>9. held \in Coins /\ \A q \in Seats : held[q] <= share[q]
    BY <2>5 DEF Coins
  <2>10. \A q \in Seats : share[q] \in Nat /\ held[q] \in Nat /\ held[q] <= share[q]
    BY <2>5, <2>9 DEF Coins
  <2>11. Sum(share) \in Nat /\ Sum(held) \in Nat /\ Sum(due) \in Nat
    BY <2>4, <2>5, <2>9, SumType
  <2> HIDE DEF held
  <2>12. \A q \in Seats : r.coin[q] \in Nat
    <3> SUFFICES ASSUME NEW q \in Seats
                 PROVE  r.coin[q] \in Nat
      OBVIOUS
    <3>1. r.coin[q] = (b.coin[q] + Net(pay, q)) - held[q]
      BY <2>1, <2>8
    <3>2. b.coin[q] \in Nat /\ share[q] \in Nat /\ held[q] \in Nat /\ held[q] <= share[q]
      BY <2>2, <2>10 DEF Coins
    <3>3. CASE q = d
      <4>1. Net(pay, q) = share[q] - Sum(share)
        BY <2>6, <3>3
      <4>2. Sum(share) <= b.coin[q]
        BY <2>5, <3>3
      <4> QED
        BY <2>11, <3>1, <3>2, <4>1, <4>2
    <3>4. CASE q # d
      <4>1. Net(pay, q) = share[q] - 0
        BY <2>6, <3>4
      <4> QED
        BY <3>1, <3>2, <4>1
    <3> QED
      BY <3>3, <3>4
  <2>13. \A q \in Seats : /\ r.offset[q] = b.offset[q] + share[q]
                                           - (IF q = d THEN Sum(share) ELSE 0) - held[q]
                          /\ r.offset[q] \in Int
    <3> SUFFICES ASSUME NEW q \in Seats
                 PROVE  /\ r.offset[q] = b.offset[q] + share[q]
                                         - (IF q = d THEN Sum(share) ELSE 0) - held[q]
                        /\ r.offset[q] \in Int
      OBVIOUS
    <3>1. r.offset[q] = (b.offset[q] + Net(pay, q)) - held[q]
      BY <2>1, <2>8
    <3>2. Net(pay, q) = share[q] - (IF q = d THEN Sum(share) ELSE 0)
      BY <2>6
    <3>3. /\ b.offset[q] \in Int /\ share[q] \in Nat /\ held[q] \in Nat
          /\ (IF q = d THEN Sum(share) ELSE 0) \in Nat
      BY <2>2, <2>10, <2>11
    <3> QED
      BY <3>1, <3>2, <3>3
  <2>14. r.settles \in Seq(Settle) /\ r.settles = [b.settles EXCEPT ![n] = Deleted]
    BY <2>1, <2>2, DeletedFair, BilledExcept DEF Fair
  <2>15. r \in Books
    <3>1. r.coin = [q \in Seats |-> r.coin[q]] /\ r.offset = [q \in Seats |-> r.offset[q]]
      BY <2>1
    <3>2. r.coin \in [Seats -> Nat] /\ r.offset \in [Seats -> Int]
      BY <2>12, <2>13, <3>1
    <3>3. r.taken \in Nat /\ r.cut \in BOOLEAN
      BY <2>1, <2>2, <2>11
    <3>4. r = [coin |-> r.coin, offset |-> r.offset, taken |-> r.taken,
               settles |-> r.settles, cut |-> r.cut]
      BY <2>1
    <3> QED
      BY <3>2, <3>3, <3>4, <2>14 DEF Books
  <2>16. Sum(r.offset) + r.taken = Sum(b.offset) + b.taken
    <3>1. \A q \in Seats : r.offset[q] = paid.offset[q] - held[q]
      BY <2>1
    <3>2. paid.offset \in [Seats -> Int] /\ held \in [Seats -> Int]
      BY <2>8, <2>9 DEF Books, Coins
    <3>5. Sum(r.offset) = Sum(paid.offset) - Sum(held)
      BY <3>1, <3>2, SumMinus
    <3>6. Sum(paid.offset) \in Int /\ r.taken = b.taken + Sum(held)
      BY <2>1, <2>8, SumType DEF Books
    <3> QED
      BY <2>2, <2>8, <2>11, <3>5, <3>6
  <2>17. /\ Len(r.settles) = Len(b.settles)
         /\ \A m \in 1..Len(b.settles) : r.settles[m] = IF m = n THEN Deleted ELSE b.settles[m]
    BY <2>2, <2>14
  <2>18. AllFair(r.settles)
    BY <2>14, <2>17, DeletedFair DEF AllFair
  <2>19. \A m \in 1..Len(r.settles) :
           r.settles[m].kind \in Wins => m <= Len(b.settles) /\ r.settles[m] = b.settles[m]
    <3>1. Deleted.kind \notin Wins
      BY DEF Deleted, Wins
    <3> QED
      BY <2>2, <2>17, <3>1
  <2>20. ASSUME ~r.cut
         PROVE  /\ ~b.cut
                /\ \A q \in Seats : r.offset[q] - Billed(r.settles)[q]
                                    = b.offset[q] - Billed(b.settles)[q]
    <3>1. ~b.cut /\ ~(b.coin[d] < Sum(due)) /\ ~(Sum(held) > 0)
      BY <2>1, <2>20
    <3>2. share = due
      BY <2>2, <2>5, <2>11, <3>1
    <3>3. \A q \in Seats : held[q] = 0
      BY <2>9, <3>1, SumZero
    <3>4. \A q \in Seats : Billed(r.settles)[q] = Billed(b.settles)[q] - Bill(q, s) + Bill(q, Deleted)
      BY <2>2, <2>14, DeletedFair, BilledExcept DEF Fair, s
    <3>5. \A q \in Seats : Bill(q, s) = IF q = d THEN Sum(due) ELSE -due[q]
      <4>1. s.kind \notin Payers
        BY <2>3 DEF Kongs, Payers
      <4>2. \A q \in Seats : due[q] \in Nat
        BY <2>4 DEF Coins
      <4> QED
        BY <2>3, <2>11, <4>1, <4>2 DEF Bill, due
    <3>6. \A q \in Seats : r.offset[q] = b.offset[q] - Bill(q, s)
      <4> SUFFICES ASSUME NEW q \in Seats
                   PROVE  r.offset[q] = b.offset[q] - Bill(q, s)
        OBVIOUS
      <4>1. b.offset[q] \in Int /\ due[q] \in Nat
        BY <2>2, <2>4 DEF Coins
      <4>2. r.offset[q] = b.offset[q] + due[q] - (IF q = d THEN Sum(due) ELSE 0) - 0
        BY <2>13, <3>2, <3>3
      <4>3. Bill(q, s) = IF q = d THEN Sum(due) ELSE -due[q]
        BY <3>5
      <4> QED
        BY <2>3, <2>11, <4>1, <4>2, <4>3
    <3>7. Billed(b.settles) \in [Seats -> Int] /\ \A q \in Seats : Bill(q, s) \in Int
      BY <2>2, <2>3, BilledType, BillType
    <3>8. \A q \in Seats : r.offset[q] - Billed(r.settles)[q] = b.offset[q] - Billed(b.settles)[q]
      <4> SUFFICES ASSUME NEW q \in Seats
                   PROVE  r.offset[q] - Billed(r.settles)[q] = b.offset[q] - Billed(b.settles)[q]
        OBVIOUS
      <4>1. Bill(q, s) \in Int /\ b.offset[q] \in Int /\ Billed(b.settles)[q] \in Int
        BY <2>2, <3>7
      <4>2. Billed(r.settles)[q] = Billed(b.settles)[q] - Bill(q, s) + 0
        BY <3>4, DeletedFair
      <4> QED
        BY <3>6, <4>1, <4>2
    <3> QED
      BY <3>1, <3>8
  <2>21. Ends(b, r)
    BY <2>15, <2>16, <2>17, <2>18, <2>19, <2>20 DEF Ends
  <2> QED
    BY <2>21 DEF r
<1> QED
  BY <1>1, <1>2

(* What a player who has left the game would get back goes to the system.       *)
LEMMA GiveBackKeeps ==
  ASSUME NEW b \in Books, AllFair(b.settles), NEW d \in Seats, NEW n \in 1..Len(b.settles),
         NEW l, d \notin l
  PROVE  Keeps(b, GiveBack(b, d, n, l), l)
<1> DEFINE s == b.settles[n]
<1>1. CASE s.kind \notin Kongs \/ s.idx # d \/ b.coin[d] = 0
  <2>1. GiveBack(b, d, n, l) = b
    BY <1>1 DEF GiveBack
  <2> QED
    BY <2>1 DEF Keeps
<1>2. CASE ~(s.kind \notin Kongs \/ s.idx # d \/ b.coin[d] = 0)
  <2> DEFINE share == Share(b.coin[d], s.part)
             held  == [i \in Seats |-> IF i \in l THEN share[i] ELSE 0]
             pay   == [Nothing EXCEPT ![d] = share]
             paid  == Paid(b, pay)
  <2>1. GiveBack(b, d, n, l).coin = [i \in Seats |-> paid.coin[i] - held[i]]
    BY <1>2 DEF GiveBack
  <2>2. b.coin \in Coins /\ b.coin[d] \in Nat /\ s.part \in Coins
    BY DEF Books, Coins, AllFair, Fair, Settle
  <2>3. share \in Coins /\ Sum(share) <= b.coin[d]
    BY <2>2, ShareProperties
  <2> HIDE DEF share
  <2>4. /\ pay \in Payments
        /\ \A q \in Seats : /\ Sum(pay[q]) = (IF q = d THEN Sum(share) ELSE 0)
                            /\ Net(pay, q) = share[q] - (IF q = d THEN Sum(share) ELSE 0)
    BY <2>3, OnePayer
  <2> HIDE DEF pay
  <2>5. Affordable(pay, b.coin)
    <3> SUFFICES ASSUME NEW q \in Seats
                 PROVE  Sum(pay[q]) <= b.coin[q]
      BY DEF Affordable
    <3>1. b.coin[q] \in Nat /\ Sum(pay[q]) = (IF q = d THEN Sum(share) ELSE 0)
      BY <2>2, <2>4 DEF Coins
    <3> QED
      BY <2>3, <3>1
  <2>6. paid.coin = [q \in Seats |-> b.coin[q] + Net(pay, q)]
    BY <2>4, <2>5, PaidProperties
  <2> HIDE DEF paid
  <2>7. ASSUME NEW q \in Seats, q \in l
        PROVE  GiveBack(b, d, n, l).coin[q] = b.coin[q]
    <3>1. q # d /\ held[q] = share[q] /\ share[q] \in Nat /\ b.coin[q] \in Nat
      BY <2>2, <2>3, <2>7 DEF Coins
    <3>2. Net(pay, q) = share[q] - 0
      BY <2>4, <3>1
    <3>3. paid.coin[q] = b.coin[q] + share[q]
      BY <2>6, <3>1, <3>2
    <3> HIDE DEF held
    <3> QED
      BY <2>1, <3>1, <3>3
  <2> QED
    BY <2>7 DEF Keeps
<1> QED
  BY <1>1, <1>2

LEMMA EndsTransitive ==
  ASSUME NEW a, AllFair(a.settles), NEW b, NEW c, Ends(a, b), Ends(b, c)
  PROVE  Ends(a, c)
<1>1. c \in Books /\ AllFair(c.settles)
  BY DEF Ends
<1>2. Sum(c.offset) + c.taken = Sum(a.offset) + a.taken
  BY DEF Ends
<1>3. Len(a.settles) <= Len(c.settles)
  BY DEF Ends, AllFair
<1>4. ASSUME NEW n \in 1..Len(c.settles), c.settles[n].kind \in Wins
      PROVE  n <= Len(a.settles) /\ c.settles[n] = a.settles[n]
  <2>1. n <= Len(b.settles) /\ c.settles[n] = b.settles[n]
    BY <1>4 DEF Ends
  <2>2. n \in 1..Len(b.settles) /\ b.settles[n].kind \in Wins
    BY <1>4, <2>1 DEF Ends, AllFair
  <2>3. n <= Len(a.settles) /\ b.settles[n] = a.settles[n]
    BY <2>2 DEF Ends
  <2> QED
    BY <2>1, <2>3
<1>5. ~c.cut => /\ ~a.cut
                /\ \A q \in Seats : c.offset[q] - Billed(c.settles)[q]
                                    = a.offset[q] - Billed(a.settles)[q]
  BY DEF Ends
<1> QED
  BY <1>1, <1>2, <1>3, <1>4, <1>5 DEF Ends

\* What Refunded does in its steps
RefundStep(b, da, l, f, m) ==
  IF m = 0 THEN b
  ELSE IF (m - 1) \div Len(settles) \in da
       THEN GiveBack(f[m - 1], (m - 1) \div Len(settles), ((m - 1) % Len(settles)) + 1, l)
       ELSE f[m - 1]
IsRefund(b, da, l, f, len) == f = [m \in 0..len |-> RefundStep(b, da, l, f, m)]

LEMMA RefundExists ==
  ASSUME NEW b, NEW da, NEW l, NEW len \in Nat
  PROVE  \E f : IsRefund(b, da, l, f, len)
<1> DEFINE K == {m \in 0..len : \E f : IsRefund(b, da, l, f, m)}
<1>1. 0 \in K
  <2> DEFINE f == [n \in 0..0 |-> b]
  <2>1. f = [n \in 0..0 |-> RefundStep(b, da, l, f, n)]
    BY DEF RefundStep
  <2>2. IsRefund(b, da, l, f, 0)
    BY <2>1 DEF IsRefund
  <2> QED
    BY <2>2
<1>2. ASSUME NEW m \in 1..len, m - 1 \in K
      PROVE  m \in K
  <2>1. PICK f : IsRefund(b, da, l, f, m - 1)
    BY <1>2
  <2> DEFINE g == [n \in 0..m |-> IF n = m THEN RefundStep(b, da, l, f, m) ELSE f[n]]
  <2>2. \A n \in 0..m : g[n] = RefundStep(b, da, l, g, n)
    <3> SUFFICES ASSUME NEW n \in 0..m
                 PROVE  g[n] = RefundStep(b, da, l, g, n)
      OBVIOUS
    <3>1. n # 0 => g[n - 1] = f[n - 1]
      OBVIOUS
    <3>2. RefundStep(b, da, l, g, n) = RefundStep(b, da, l, f, n)
      <4>1. CASE n = 0
        BY <4>1 DEF RefundStep
      <4>2. CASE n # 0
        <5> HIDE DEF g
        <5> QED
          BY <3>1, <4>2 DEF RefundStep
      <4> QED
        BY <4>1, <4>2
    <3>3. n # m => f[n] = RefundStep(b, da, l, f, n)
      BY <2>1 DEF IsRefund
    <3> QED
      BY <3>2, <3>3
  <2>3. g = [n \in 0..m |-> RefundStep(b, da, l, g, n)]
    BY <2>2
  <2> HIDE DEF g
  <2>4. IsRefund(b, da, l, g, m)
    BY <2>3 DEF IsRefund
  <2> QED
    BY <2>4
<1> HIDE DEF K
<1>3. \A m \in 0..len : m \in K
  BY <1>1, <1>2, UpTo
<1>4. len \in K
  BY <1>3
<1> QED
  BY <1>4 DEF K

(* The players da give back the kongs of a hand.                                *)
LEMMA RefundedEnds ==
  ASSUME settles \in Seq(Settle), NEW b \in Books, AllFair(b.settles),
         Len(settles) <= Len(b.settles), NEW da \in SUBSET Seats, NEW l, da \cap l = {}
  PROVE  Ends(b, Refunded(b, da, l)) /\ Keeps(b, Refunded(b, da, l), l)
<1> DEFINE len == Len(settles)
           F == CHOOSE f : f = [m \in 0..4 * len |-> RefundStep(b, da, l, f, m)]
<1>1. len \in Nat /\ 4 * len \in Nat
  OBVIOUS
<1>2. \E f : f = [m \in 0..4 * len |-> RefundStep(b, da, l, f, m)]
  <2>1. \E f : IsRefund(b, da, l, f, 4 * len)
    BY <1>1, RefundExists
  <2> QED
    BY <2>1 DEF IsRefund
<1>3. F = [m \in 0..4 * len |-> RefundStep(b, da, l, F, m)]
  BY <1>2
<1>4. Refunded(b, da, l) = F[4 * len]
  BY DEF Refunded, RefundStep
<1> HIDE DEF F
<1> DEFINE K == {m \in 0..4 * len : Ends(b, F[m]) /\ Keeps(b, F[m], l)}
<1>5. 0 \in K
  <2>1. F[0] = RefundStep(b, da, l, F, 0)
    BY <1>1, <1>3
  <2>2. F[0] = b
    BY <2>1 DEF RefundStep
  <2> QED
    BY <2>2, <1>1, EndsNothing DEF Keeps
<1>6. ASSUME NEW m \in 1..4 * len, m - 1 \in K
      PROVE  m \in K
  <2>1. F[m] = RefundStep(b, da, l, F, m)
    BY <1>1, <1>3
  <2>2. Ends(b, F[m - 1]) /\ Keeps(b, F[m - 1], l)
    BY <1>6
  <2>3. CASE (m - 1) \div len \in da
    <3> DEFINE d == (m - 1) \div len
               n == ((m - 1) % len) + 1
    <3>1. F[m] = GiveBack(F[m - 1], d, n, l)
      BY <2>1, <2>3 DEF RefundStep
    <3>2. d \in Seats /\ d \notin l
      BY <2>3
    <3>3. n \in 1..len
      <4>1. len > 0 /\ m - 1 \in Nat
        BY <1>1
      <4>2. (m - 1) % len \in 0..(len - 1)
        BY <1>1, <4>1
      <4> QED
        BY <1>1, <4>2
    <3>4. F[m - 1] \in Books /\ AllFair(F[m - 1].settles) /\ Len(b.settles) <= Len(F[m - 1].settles)
      BY <2>2 DEF Ends
    <3>5. n \in 1..Len(F[m - 1].settles)
      <4>1. /\ Len(b.settles) \in Nat /\ Len(settles) <= Len(b.settles)
            /\ Len(F[m - 1].settles) \in Nat
        BY <3>4 DEF AllFair
      <4> QED
        BY <1>1, <3>3, <3>4, <4>1
    <3> HIDE DEF d, n
    <3>6. Ends(F[m - 1], F[m]) /\ Keeps(F[m - 1], F[m], l)
      BY <3>1, <3>2, <3>4, <3>5, GiveBackEnds, GiveBackKeeps
    <3>7. Ends(b, F[m]) /\ Keeps(b, F[m], l)
      BY <2>2, <3>6, EndsTransitive DEF Keeps
    <3> QED
      BY <3>7, <1>1
  <2>4. CASE (m - 1) \div len \notin da
    <3>1. F[m] = F[m - 1]
      BY <2>1, <2>4 DEF RefundStep
    <3> QED
      BY <2>2, <3>1, <1>1
  <2> QED
    BY <2>3, <2>4
<1> HIDE DEF K
<1>7. \A m \in 0..4 * len : m \in K
  BY <1>1, <1>5, <1>6, UpTo
<1>8. 4 * len \in K
  BY <1>1, <1>7
<1> QED
  BY <1>4, <1>8 DEF K

-----------------------------------------------------------------------------
(* What is paid at the end of a hand *)

LEMMA BilledFour ==
  ASSUME NEW ss \in Seq(Settle),
         NEW r0 \in Settle, NEW r1 \in Settle, NEW r2 \in Settle, NEW r3 \in Settle,
         NEW four, four = [n \in 1..4 |-> IF n = 1 THEN r0 ELSE IF n = 2 THEN r1
                                          ELSE IF n = 3 THEN r2 ELSE r3]
  PROVE  /\ ss \o four \in Seq(Settle) /\ Len(ss \o four) = Len(ss) + 4
         /\ \A n \in 1..Len(ss) : (ss \o four)[n] = ss[n]
         /\ \A n \in 1..4 : (ss \o four)[Len(ss) + n] = four[n]
         /\ \A q \in Seats : Billed(ss \o four)[q] = Billed(ss)[q] + Bill(q, r0) + Bill(q, r1)
                                                     + Bill(q, r2) + Bill(q, r3)
<1> DEFINE s1 == Append(ss, r0)
           s2 == Append(s1, r1)
           s3 == Append(s2, r2)
           s4 == Append(s3, r3)
<1>1. four \in Seq(Settle) /\ Len(four) = 4
  <2>1. four \in [1..4 -> Settle] /\ 4 \in Nat
    OBVIOUS
  <2> QED
    BY <2>1
<1>2. /\ ss \o four \in Seq(Settle) /\ Len(ss \o four) = Len(ss) + 4
      /\ \A n \in 1..Len(ss) : (ss \o four)[n] = ss[n]
      /\ \A n \in 1..4 : (ss \o four)[Len(ss) + n] = four[n]
  BY <1>1
<1>3. s1 \in Seq(Settle) /\ s2 \in Seq(Settle) /\ s3 \in Seq(Settle) /\ s4 \in Seq(Settle)
  BY BilledAppend
<1>4. s4 = ss \o four
  <2>1. Len(s4) = Len(ss) + 4
    BY <1>3
  <2>2. \A n \in 1..Len(ss) : s4[n] = ss[n]
    BY <1>3
  <2>3. /\ s4[Len(ss) + 1] = r0 /\ s4[Len(ss) + 2] = r1
        /\ s4[Len(ss) + 3] = r2 /\ s4[Len(ss) + 4] = r3
    BY <1>3
  <2> HIDE DEF s4
  <2>4. \A n \in 1..Len(ss) + 4 : s4[n] = (ss \o four)[n]
    BY <1>2, <2>2, <2>3
  <2> DEFINE tt == ss \o four
  <2>5. /\ tt \in Seq(Settle) /\ s4 \in Seq(Settle) /\ Len(s4) = Len(tt)
        /\ \A n \in 1..Len(s4) : s4[n] = tt[n]
    BY <1>2, <1>3, <2>1, <2>4
  <2> HIDE DEF tt
  <2>6. s4 = tt
    BY <2>5, SeqEqual
  <2> QED
    BY <2>6 DEF tt
<1>5. \A q \in Seats : /\ Billed(s1)[q] = Billed(ss)[q] + Bill(q, r0)
                       /\ Billed(s2)[q] = Billed(s1)[q] + Bill(q, r1)
                       /\ Billed(s3)[q] = Billed(s2)[q] + Bill(q, r2)
                       /\ Billed(s4)[q] = Billed(s3)[q] + Bill(q, r3)
  <2> HIDE DEF s1, s2, s3, s4
  <2>1. /\ Billed(s1) = [q \in Seats |-> Billed(ss)[q] + Bill(q, r0)]
        /\ Billed(s2) = [q \in Seats |-> Billed(s1)[q] + Bill(q, r1)]
        /\ Billed(s3) = [q \in Seats |-> Billed(s2)[q] + Bill(q, r2)]
        /\ Billed(s4) = [q \in Seats |-> Billed(s3)[q] + Bill(q, r3)]
    BY <1>3, BilledAppend DEF s1, s2, s3, s4
  <2> QED
    BY <2>1
<1> HIDE DEF s1, s2, s3, s4
<1> QED
  BY <1>2, <1>4, <1>5

(* What the payers pay at the end of a hand, and the settlements it is recorded *)
(* in: one for each payer who has a coin.                                       *)
LEMMA PaidByAllEnds ==
  ASSUME NEW b \in Books, AllFair(b.settles), NEW due \in Payments, NEW payers \in SUBSET Seats,
         NEW kind \in Payers \ Wins,
         \A d \in Seats : due[d][d] = 0,
         \A d \in Seats : d \notin payers => \A q \in Seats : due[d][q] = 0
  PROVE  Ends(b, PaidByAll(b, due, payers, kind))
<1> DEFINE pay == Pay(b.coin, due)
           paid == Paid(b, pay)
           record(d) == IF d \in payers /\ b.coin[d] # 0
                        THEN [kind |-> kind, idx |-> d, among |-> {}, void |-> {}, part |-> pay[d]]
                        ELSE Deleted
           four == [n \in 1..4 |-> record(n - 1)]
           r == PaidByAll(b, due, payers, kind)
<1>1. /\ b.coin \in Coins /\ b.offset \in [Seats -> Int] /\ b.taken \in Nat
      /\ b.settles \in Seq(Settle) /\ b.cut \in BOOLEAN
  BY DEF Books, Coins
<1>2. /\ pay \in Payments /\ Affordable(pay, b.coin)
      /\ \A d, q \in Seats : pay[d][q] <= due[d][q]
  BY <1>1, PayProperties
<1>3. r = [paid EXCEPT !.settles = @ \o four]
  BY DEF PaidByAll
<1> HIDE DEF pay
<1>4. /\ paid \in Books
      /\ paid.offset = [q \in Seats |-> b.offset[q] + Net(pay, q)]
      /\ Sum(paid.offset) = Sum(b.offset)
      /\ paid.taken = b.taken /\ paid.settles = b.settles /\ paid.cut = b.cut
  BY <1>2, PaidProperties
<1> HIDE DEF paid, r
<1>5. \A d \in Seats : /\ record(d) \in Settle /\ Fair(record(d))
                       /\ record(d).kind \notin Wins
                       /\ \A q \in Seats : Bill(q, record(d))
                                           = pay[d][q] - (IF q = d THEN Sum(pay[d]) ELSE 0)
  <2> SUFFICES ASSUME NEW d \in Seats
               PROVE  /\ record(d) \in Settle /\ Fair(record(d))
                      /\ record(d).kind \notin Wins
                      /\ \A q \in Seats : Bill(q, record(d))
                                          = pay[d][q] - (IF q = d THEN Sum(pay[d]) ELSE 0)
    OBVIOUS
  <2>1. /\ pay[d] \in Coins /\ pay[d][d] = 0 /\ Sum(pay[d]) \in Nat
        /\ \A q \in Seats : pay[d][q] \in Nat /\ due[d][q] \in Nat
    <3>1. pay[d] \in Coins /\ \A q \in Seats : pay[d][q] \in Nat /\ due[d][q] \in Nat
      BY <1>2 DEF Payments, Coins
    <3>2. pay[d][d] <= 0
      BY <1>2
    <3> QED
      BY <3>1, <3>2, SumType
  <2>2. CASE d \in payers /\ b.coin[d] # 0
    <3> DEFINE s == [kind |-> kind, idx |-> d, among |-> {}, void |-> {}, part |-> pay[d]]
    <3>1. record(d) = s
      BY <2>2
    <3>2. s \in Settle /\ s.part[s.idx] = 0
      BY <2>1 DEF Settle, Coins, Payers
    <3>3. s.kind \notin Wins
      BY DEF Wins, Payers
    <3>4. s.kind \in Payers /\ s.idx = d /\ s.part = pay[d]
      OBVIOUS
    <3> HIDE DEF s
    <3>5. \A q \in Seats : Bill(q, s) = pay[d][q] - (IF q = d THEN Sum(pay[d]) ELSE 0)
      <4> SUFFICES ASSUME NEW q \in Seats
                   PROVE  Bill(q, s) = pay[d][q] - (IF q = d THEN Sum(pay[d]) ELSE 0)
        OBVIOUS
      <4>1. Bill(q, s) = (-1) * (IF q = d THEN Sum(pay[d]) ELSE -pay[d][q])
        BY <3>4 DEF Bill
      <4>2. pay[d][q] \in Nat
        BY <2>1
      <4> QED
        BY <2>1, <4>1, <4>2
    <3> QED
      BY <3>1, <3>2, <3>3, <3>5 DEF Fair
  <2>3. CASE ~(d \in payers /\ b.coin[d] # 0)
    <3>1. record(d) = Deleted
      BY <2>3
    <3>2. Sum(pay[d]) = 0 /\ \A q \in Seats : pay[d][q] = 0
      <4>1. CASE d \notin payers
        <5>1. \A q \in Seats : pay[d][q] = 0
          BY <1>2, <2>1, <4>1
        <5> QED
          BY <5>1, FourSeats DEF Sum
      <4>2. CASE b.coin[d] = 0
        <5>1. ~(Sum(pay[d]) > 0)
          BY <1>2, <2>1, <4>2 DEF Affordable
        <5> QED
          BY <2>1, <5>1, SumZero
      <4> QED
        BY <2>3, <4>1, <4>2
    <3>3. Deleted.kind \notin Wins
      BY DEF Deleted, Wins
    <3>4. \A q \in Seats : Bill(q, Deleted) = pay[d][q] - (IF q = d THEN Sum(pay[d]) ELSE 0)
      BY <3>2, DeletedFair
    <3> HIDE DEF record
    <3> QED
      BY <3>1, <3>3, <3>4, DeletedFair DEF Fair
  <2> QED
    BY <2>2, <2>3
<1>6. four = [n \in 1..4 |-> IF n = 1 THEN record(0) ELSE IF n = 2 THEN record(1)
                             ELSE IF n = 3 THEN record(2) ELSE record(3)]
  <2> HIDE DEF record
  <2>1. \A n \in 1..4 : record(n - 1) = IF n = 1 THEN record(0) ELSE IF n = 2 THEN record(1)
                                        ELSE IF n = 3 THEN record(2) ELSE record(3)
    OBVIOUS
  <2> QED
    BY <2>1
<1> HIDE DEF record, four
<1>7. /\ record(0) \in Settle /\ record(1) \in Settle /\ record(2) \in Settle /\ record(3) \in Settle
  BY <1>5, FourSeats
<1>8. /\ b.settles \o four \in Seq(Settle) /\ Len(b.settles \o four) = Len(b.settles) + 4
      /\ \A n \in 1..Len(b.settles) : (b.settles \o four)[n] = b.settles[n]
      /\ \A n \in 1..4 : (b.settles \o four)[Len(b.settles) + n] = four[n]
      /\ \A q \in Seats : Billed(b.settles \o four)[q]
                          = Billed(b.settles)[q] + Bill(q, record(0)) + Bill(q, record(1))
                            + Bill(q, record(2)) + Bill(q, record(3))
  <2> DEFINE r0 == record(0)
             r1 == record(1)
             r2 == record(2)
             r3 == record(3)
  <2>1. r0 \in Settle /\ r1 \in Settle /\ r2 \in Settle /\ r3 \in Settle
    BY <1>7
  <2>2. four = [n \in 1..4 |-> IF n = 1 THEN r0 ELSE IF n = 2 THEN r1
                               ELSE IF n = 3 THEN r2 ELSE r3]
    BY <1>6
  <2> HIDE DEF r0, r1, r2, r3
  <2> DEFINE ss == b.settles
  <2>3. ss \in Seq(Settle)
    BY <1>1
  <2> HIDE DEF ss
  <2>4. /\ ss \o four \in Seq(Settle) /\ Len(ss \o four) = Len(ss) + 4
        /\ \A n \in 1..Len(ss) : (ss \o four)[n] = ss[n]
        /\ \A n \in 1..4 : (ss \o four)[Len(ss) + n] = four[n]
        /\ \A q \in Seats : Billed(ss \o four)[q] = Billed(ss)[q] + Bill(q, r0) + Bill(q, r1)
                                                      + Bill(q, r2) + Bill(q, r3)
    BY <2>1, <2>2, <2>3, BilledFour
  <2> QED
    BY <2>4 DEF r0, r1, r2, r3, ss
<1>9. /\ r.settles = b.settles \o four /\ r.offset = paid.offset /\ r.taken = b.taken
      /\ r.cut = b.cut /\ r \in Books
  BY <1>3, <1>4, <1>8 DEF Books
<1>10. ASSUME NEW n \in 1..Len(r.settles)
       PROVE  \/ n <= Len(b.settles) /\ r.settles[n] = b.settles[n]
              \/ Fair(r.settles[n]) /\ r.settles[n].kind \notin Wins
  <2>1. Len(b.settles) \in Nat /\ n \in 1..(Len(b.settles) + 4)
    BY <1>1, <1>8, <1>9
  <2>2. CASE n <= Len(b.settles)
    BY <1>8, <1>9, <2>1, <2>2
  <2>3. CASE n > Len(b.settles)
    <3> DEFINE m == n - Len(b.settles)
    <3>1. m \in 1..4 /\ n = Len(b.settles) + m /\ m - 1 \in Seats
      BY <2>1, <2>3 DEF Seats
    <3> HIDE DEF m
    <3>2. r.settles[n] = four[m]
      BY <1>8, <1>9, <3>1
    <3>3. four[m] = record(m - 1)
      BY <3>1 DEF four
    <3> QED
      BY <1>5, <3>1, <3>2, <3>3
  <2> QED
    BY <2>1, <2>2, <2>3
<1>11. AllFair(r.settles)
  <2>1. ASSUME NEW n \in 1..Len(r.settles) PROVE Fair(r.settles[n])
    BY <1>10, <2>1 DEF AllFair
  <2> QED
    BY <1>8, <1>9, <2>1 DEF AllFair
<1>12. \A q \in Seats : r.offset[q] - Billed(r.settles)[q] = b.offset[q] - Billed(b.settles)[q]
  <2> SUFFICES ASSUME NEW q \in Seats
               PROVE  r.offset[q] - Billed(r.settles)[q] = b.offset[q] - Billed(b.settles)[q]
    OBVIOUS
  <2>1. /\ pay[0][q] \in Nat /\ pay[1][q] \in Nat /\ pay[2][q] \in Nat /\ pay[3][q] \in Nat
        /\ Sum(pay[q]) \in Nat
    BY <1>2, FourSeats, SumType DEF Payments, Coins
  <2>2. \A d \in Seats : Bill(q, record(d)) = pay[d][q] - (IF q = d THEN Sum(pay[q]) ELSE 0)
    BY <1>5
  <2>3. /\ Bill(q, record(0)) = pay[0][q] - (IF q = 0 THEN Sum(pay[q]) ELSE 0)
        /\ Bill(q, record(1)) = pay[1][q] - (IF q = 1 THEN Sum(pay[q]) ELSE 0)
        /\ Bill(q, record(2)) = pay[2][q] - (IF q = 2 THEN Sum(pay[q]) ELSE 0)
        /\ Bill(q, record(3)) = pay[3][q] - (IF q = 3 THEN Sum(pay[q]) ELSE 0)
    BY <2>2, FourSeats
  <2>4. /\ Bill(q, record(0)) \in Int /\ Bill(q, record(1)) \in Int
        /\ Bill(q, record(2)) \in Int /\ Bill(q, record(3)) \in Int
    BY <2>1, <2>3
  <2>5. Bill(q, record(0)) + Bill(q, record(1)) + Bill(q, record(2)) + Bill(q, record(3))
        = Net(pay, q)
    <3>1. CASE q = 0
      BY <2>1, <2>3, <3>1 DEF Net
    <3>2. CASE q = 1
      BY <2>1, <2>3, <3>2 DEF Net
    <3>3. CASE q = 2
      BY <2>1, <2>3, <3>3 DEF Net
    <3>4. CASE q = 3
      BY <2>1, <2>3, <3>4 DEF Net
    <3> QED
      BY <3>1, <3>2, <3>3, <3>4, FourSeats
  <2>6. Billed(b.settles)[q] \in Int /\ b.offset[q] \in Int /\ Net(pay, q) \in Int
    BY <1>1, <1>2, BilledType, NetType
  <2>7. Billed(r.settles)[q] = Billed(b.settles)[q] + Net(pay, q)
    <3>1. Billed(r.settles)[q] = Billed(b.settles)[q] + Bill(q, record(0)) + Bill(q, record(1))
                                 + Bill(q, record(2)) + Bill(q, record(3))
      BY <1>8, <1>9
    <3> HIDE DEF record
    <3> QED
      BY <2>4, <2>5, <2>6, <3>1
  <2>8. r.offset[q] = b.offset[q] + Net(pay, q)
    BY <1>4, <1>9
  <2> QED
    BY <2>6, <2>7, <2>8
<1>13. Len(b.settles) <= Len(r.settles)
  BY <1>1, <1>8, <1>9
<1>14. Sum(r.offset) + r.taken = Sum(b.offset) + b.taken
  BY <1>4, <1>9
<1>15. \A n \in 1..Len(r.settles) :
         r.settles[n].kind \in Wins => n <= Len(b.settles) /\ r.settles[n] = b.settles[n]
  BY <1>10
<1>16. Ends(b, r)
  BY <1>9, <1>11, <1>12, <1>13, <1>14, <1>15 DEF Ends
<1> QED
  BY <1>16 DEF r

(* Who neither owes nor is owed anything keeps his coins.                       *)
LEMMA PaidByAllKeeps ==
  ASSUME NEW b \in Books, NEW due \in Payments, NEW payers, NEW kind, NEW l,
         \A d, q \in Seats : d \in l \/ q \in l => due[d][q] = 0
  PROVE  Keeps(b, PaidByAll(b, due, payers, kind), l)
<1> DEFINE pay == Pay(b.coin, due)
<1>1. b.coin \in Coins
  BY DEF Books, Coins
<1>2. /\ pay \in Payments /\ Affordable(pay, b.coin)
      /\ \A d, q \in Seats : pay[d][q] <= due[d][q]
  BY <1>1, PayProperties
<1>3. PaidByAll(b, due, payers, kind).coin = Paid(b, pay).coin
  <2> DEFINE paid == Paid(b, pay)
  <2>1. paid \in Books
    BY <1>2, PaidProperties
  <2>2. \E ss : PaidByAll(b, due, payers, kind) = [paid EXCEPT !.settles = ss]
    BY DEF PaidByAll
  <2> HIDE DEF paid
  <2>3. PaidByAll(b, due, payers, kind).coin = paid.coin
    BY <2>1, <2>2 DEF Books
  <2> QED
    BY <2>3 DEF paid
<1>4. Paid(b, pay).coin = [q \in Seats |-> b.coin[q] + Net(pay, q)]
  BY <1>2, PaidProperties
<1> HIDE DEF pay
<1>5. ASSUME NEW q \in Seats, q \in l
      PROVE  Net(pay, q) = 0 /\ b.coin[q] \in Nat
  <2>1. \A d, e \in Seats : pay[d][e] \in Nat /\ due[d][e] \in Nat
    BY <1>2 DEF Payments
  <2>2. \A d \in Seats : pay[d][q] = 0 /\ pay[q][d] = 0
    <3> SUFFICES ASSUME NEW d \in Seats
                 PROVE  pay[d][q] = 0 /\ pay[q][d] = 0
      OBVIOUS
    <3>1. due[d][q] = 0 /\ due[q][d] = 0
      BY <1>5
    <3>2. pay[d][q] <= due[d][q] /\ pay[q][d] <= due[q][d]
      BY <1>2
    <3> QED
      BY <2>1, <3>1, <3>2
  <2>3. /\ pay[0][q] = 0 /\ pay[1][q] = 0 /\ pay[2][q] = 0 /\ pay[3][q] = 0
        /\ pay[q][0] = 0 /\ pay[q][1] = 0 /\ pay[q][2] = 0 /\ pay[q][3] = 0
    BY <2>2, FourSeats
  <2>4. Net(pay, q) = 0
    BY <2>3 DEF Net, Sum
  <2> QED
    BY <1>1, <2>4 DEF Coins
<1>6. ASSUME NEW q \in Seats, q \in l
      PROVE  PaidByAll(b, due, payers, kind).coin[q] = b.coin[q]
  BY <1>3, <1>4, <1>5, <1>6
<1> QED
  BY <1>6 DEF Keeps

-----------------------------------------------------------------------------
(* What a hand is worth *)

(* A set of naturals with a bound has a greatest element.                       *)
LEMMA GreatestElement ==
  ASSUME NEW T, NEW N \in Nat, T \subseteq 0..N, T # {}
  PROVE  \E x \in T : \A y \in T : y <= x
<1> DEFINE U == {N - x : x \in T}
<1>1. U \subseteq Nat /\ U # {}
  <2>1. \A x \in T : N - x \in Nat
    OBVIOUS
  <2> QED
    BY <2>1
<1> HIDE DEF U
<1>2. PICK u \in U : \A w \in U : u <= w
  BY <1>1, LeastElement
<1>3. PICK x \in T : u = N - x
  BY DEF U
<1>4. ASSUME NEW y \in T PROVE y <= x
  <2>1. N - y \in U
    BY DEF U
  <2>2. N - x <= N - y
    BY <1>2, <1>3, <2>1
  <2> QED
    BY <2>2
<1> QED
  BY <1>4

LEMMA FanRange ==
  ASSUME NEW a \in Patterns
  PROVE  Fan(a) \in 0..5 /\ Rank(a) \in 0..6
BY DEF Patterns, Fan, Rank

LEMMA PatternProperties ==
  ASSUME NEW h
  PROVE  Pattern(h) \in Patterns /\ Meets(h, Pattern(h))
<1> DEFINE S == {b \in Patterns : Meets(h, b)}
           T == {Rank(b) : b \in S}
<1>1. "PingHu" \in S
  BY DEF Patterns, Meets
<1>2. T \subseteq 0..6 /\ T # {}
  BY <1>1, FanRange
<1> HIDE DEF T
<1>3. PICK x \in T : \A y \in T : y <= x
  BY <1>2, GreatestElement
<1>4. PICK a \in S : x = Rank(a)
  BY DEF T
<1>5. \A b \in Patterns : Meets(h, b) => Rank(b) <= Rank(a)
  BY <1>3, <1>4 DEF T
<1>6. \E c \in S : \A b \in Patterns : Meets(h, b) => Rank(b) <= Rank(c)
  BY <1>5
<1>7. Pattern(h) \in S
  BY <1>6 DEF Pattern
<1> QED
  BY <1>7

(* A hand has four melds at most, so that its kongs and the pongs of which it   *)
(* has the fourth card are four, besides three fours of a kind.                 *)
LEMMA GenRange ==
  ASSUME NEW h \in Hand, Realizable(h)
  PROVE  GenShu(h) \in 0..7 /\ HuGen(h) \in 0..7
<1>1. /\ h.four \in 0..3 /\ h.penged \in 0..4 /\ h.kept \in 0..4
      /\ h.ganged \in 0..4 /\ h.anGanged \in 0..4
  BY DEF Hand
<1>2. 14 - 3 * (h.penged + h.ganged + h.anGanged) >= 2 /\ h.kept <= h.penged
  BY DEF Realizable, Held
<1>3. h.kept + h.ganged + h.anGanged <= 4
  BY <1>1, <1>2
<1>4. GenShu(h) \in 0..7
  BY <1>1, <1>3 DEF GenShu
<1>5. CASE Pattern(h) \in {"LongQiDui", "QingLongQiDui"}
  <2>1. Meets(h, "LongQiDui") \/ Meets(h, "QingLongQiDui")
    BY <1>5, PatternProperties
  <2>2. h.four > 0
    BY <2>1 DEF Meets
  <2>3. GenShu(h) >= 1
    BY <1>1, <2>2 DEF GenShu
  <2>4. HuGen(h) = GenShu(h) - 1
    BY <1>5 DEF HuGen
  <2> QED
    BY <1>4, <2>3, <2>4
<1>6. CASE Pattern(h) \notin {"LongQiDui", "QingLongQiDui"}
  <2>1. HuGen(h) = GenShu(h) - 0
    BY <1>6 DEF HuGen
  <2> QED
    BY <1>4, <2>1
<1> QED
  BY <1>4, <1>5, <1>6

LEMMA HuFanRange ==
  ASSUME NEW h \in Hand, Realizable(h), NEW g \in BOOLEAN, NEW z \in BOOLEAN
  PROVE  HuFan(h, g, z) \in 0..14
<1>1. Fan(Pattern(h)) \in 0..5
  BY PatternProperties, FanRange
<1>2. HuGen(h) \in 0..7
  BY GenRange
<1> QED
  BY <1>1, <1>2 DEF HuFan

(* The byte of the multiplier is zero from eight doublings on, and only then.   *)
LEMMA DoubledProperties ==
  ASSUME NEW n \in 0..14
  PROVE  Doubled(n) \in 0..255 /\ (Doubled(n) = 0 <=> n >= 8)
<1>1. CASE n = 0
  BY <1>1 DEF Doubled
<1>2. CASE n = 1
  BY <1>2 DEF Doubled
<1>3. CASE n = 2
  BY <1>3 DEF Doubled
<1>4. CASE n = 3
  BY <1>4 DEF Doubled
<1>5. CASE n = 4
  BY <1>5 DEF Doubled
<1>6. CASE n = 5
  BY <1>6 DEF Doubled
<1>7. CASE n = 6
  BY <1>7 DEF Doubled
<1>8. CASE n = 7
  BY <1>8 DEF Doubled
<1>9. CASE n = 8
  BY <1>9 DEF Doubled
<1>10. CASE n = 9
  BY <1>10 DEF Doubled
<1>11. CASE n = 10
  BY <1>11 DEF Doubled
<1>12. CASE n = 11
  BY <1>12 DEF Doubled
<1>13. CASE n = 12
  BY <1>13 DEF Doubled
<1>14. CASE n = 13
  BY <1>14 DEF Doubled
<1>15. CASE n = 14
  BY <1>15 DEF Doubled
<1> QED
  BY <1>1, <1>2, <1>3, <1>4, <1>5, <1>6, <1>7, <1>8, <1>9, <1>10, <1>11, <1>12, <1>13,
     <1>14, <1>15

LEMMA BeiShuProperties ==
  ASSUME NEW n \in 0..14
  PROVE  BeiShu(n) \in 0..MAX_BEISHU /\ (BeiShu(n) = 0 <=> n >= 8)
BY DoubledProperties DEF BeiShu, Cap, MAX_BEISHU

(* Every hand there is, however it wins, is worth 14 fan at most, its multiplier *)
(* never exceeds the cap, and it is nothing from eight fan on, and only then.    *)
THEOREM MultiplierCorrect ==
  ASSUME NEW h \in Hand, Realizable(h), NEW g \in BOOLEAN, NEW z \in BOOLEAN
  PROVE  /\ HuFan(h, g, z) \in 0..14
         /\ BeiShu(HuFan(h, g, z)) \in 0..MAX_BEISHU
         /\ BeiShu(HuFan(h, g, z)) = 0 <=> HuFan(h, g, z) >= 8
BY HuFanRange, BeiShuProperties

LEMMA DueProperties ==
  ASSUME NEW h \in Hands, NEW g \in BOOLEAN, NEW z \in BOOLEAN
  PROVE  /\ HuFan(h, g, z) \in 0..14
         /\ BaseBet * BeiShu(HuFan(h, g, z)) \in Nat
         /\ BaseBet * BeiShu(HuFan(h, g, z)) = 0 <=> HuFan(h, g, z) >= 8
<1>1. h \in Hand /\ Realizable(h)
  BY SettleAssumption
<1>2. HuFan(h, g, z) \in 0..14
  BY <1>1, MultiplierCorrect
<1>3. /\ BeiShu(HuFan(h, g, z)) \in Nat
      /\ BeiShu(HuFan(h, g, z)) = 0 <=> HuFan(h, g, z) >= 8
  BY <1>1, MultiplierCorrect DEF MAX_BEISHU
<1>4. BaseBet \in Nat \ {0}
  BY SettleAssumption
<1>5. \A i \in Nat \ {0}, j \in Nat : i * j \in Nat /\ (i * j = 0 <=> j = 0)
  OBVIOUS
<1> QED
  BY <1>2, <1>3, <1>4, <1>5

LEMMA WaitBeiType == WaitBei \subseteq Nat
<1> SUFFICES ASSUME NEW hands \in WaitHands
             PROVE  Cap(MaxPossibleBeiShu(hands)) \in Nat
  BY DEF WaitBei
<1> DEFINE bei(h) == Doubled(Fan(Pattern(h)) + GenShu(h))
           T == {bei(h) : h \in hands}
<1>1. hands # {} /\ \A h \in hands : h \in Hand /\ Realizable(h)
  BY SettleAssumption
<1>2. \A h \in hands : bei(h) \in 0..255
  <2> SUFFICES ASSUME NEW h \in hands
               PROVE  bei(h) \in 0..255
    OBVIOUS
  <2>1. Fan(Pattern(h)) \in 0..5
    BY PatternProperties, FanRange
  <2>2. GenShu(h) \in 0..7
    BY <1>1, GenRange
  <2> QED
    BY <2>1, <2>2, DoubledProperties
<1>3. MaxPossibleBeiShu(hands) = CHOOSE b \in T : \A h \in hands : bei(h) <= b
  BY DEF MaxPossibleBeiShu
<1> HIDE DEF bei
<1>4. T \subseteq 0..255 /\ T # {}
  BY <1>1, <1>2
<1>5. \E b \in T : \A y \in T : y <= b
  <2>1. T \subseteq 0..255 /\ T # {} /\ 255 \in Nat
    BY <1>4
  <2> HIDE DEF T
  <2> QED
    BY <2>1, GreatestElement
<1>6. \E b \in T : \A h \in hands : bei(h) <= b
  BY <1>5
<1>7. MaxPossibleBeiShu(hands) \in T
  BY <1>3, <1>6
<1> QED
  BY <1>4, <1>7 DEF Cap, MAX_BEISHU

-----------------------------------------------------------------------------
(* The end of a hand *)

LEMMA SeatsFinite ==
  ASSUME NEW S \in SUBSET Seats
  PROVE  Cardinality(S) \in Nat /\ (S # {} => Cardinality(S) > 0)
<1>1. IsFiniteSet(Seats)
  <2>1. 0 \in Int /\ 3 \in Int
    OBVIOUS
  <2>2. IsFiniteSet(0..3)
    BY <2>1, FS_Interval
  <2> QED
    BY <2>2 DEF Seats
<1>2. IsFiniteSet(S)
  BY <1>1, FS_Subset
<1>3. Cardinality(S) \in Nat /\ (Cardinality(S) = 0 <=> S = {})
  BY <1>2, FS_CardinalityType, FS_EmptySet
<1> QED
  BY <1>3

LEMMA HuaZhuEnds ==
  ASSUME NEW b \in Books, AllFair(b.settles), NEW hua \in SUBSET Seats, NEW rest \in SUBSET Seats,
         hua \cap rest = {}, NEW l, l \cap hua = {}, l \cap rest = {}
  PROVE  Ends(b, HuaZhu(b, hua, rest)) /\ Keeps(b, HuaZhu(b, hua, rest), l)
<1> DEFINE n == Cardinality(rest)
           owed(c) == IF c < BaseBet * MAX_BEISHU * n THEN c \div n + 1 ELSE BaseBet * MAX_BEISHU
           due == [d \in Seats |-> [q \in Seats |-> IF d \in hua /\ q \in rest THEN owed(b.coin[d])
                                                                             ELSE 0]]
<1>1. HuaZhu(b, hua, rest) = PaidByAll(b, due, hua, "HuaZhu")
  BY DEF HuaZhu
<1>2. ASSUME NEW d \in Seats, NEW q \in rest
      PROVE  owed(b.coin[d]) \in Nat
  <2>1. n \in Nat /\ n > 0
    BY SeatsFinite
  <2>2. b.coin[d] \in Nat
    BY DEF Books
  <2>3. BaseBet * MAX_BEISHU \in Nat
    BY SettleAssumption DEF MAX_BEISHU
  <2> HIDE DEF n
  <2>4. \A i \in Nat : i \div n \in Nat
    BY <2>1
  <2> QED
    BY <2>2, <2>3, <2>4
<1> HIDE DEF n, owed
<1>3. \A d, q \in Seats : due[d][q] \in Nat
  BY <1>2
<1>4. due \in Payments
  BY <1>3 DEF Payments
<1>5. \A d \in Seats : due[d][d] = 0
  OBVIOUS
<1>6. \A d \in Seats : d \notin hua => \A q \in Seats : due[d][q] = 0
  OBVIOUS
<1>7. "HuaZhu" \in Payers \ Wins
  BY DEF Payers, Wins
<1>8. \A d, q \in Seats : d \in l \/ q \in l => due[d][q] = 0
  OBVIOUS
<1> HIDE DEF due
<1> QED
  BY <1>1, <1>4, <1>5, <1>6, <1>7, <1>8, PaidByAllEnds, PaidByAllKeeps

LEMMA DaJiaoEnds ==
  ASSUME NEW b \in Books, AllFair(b.settles), NEW da \in SUBSET Seats, NEW ting \in SUBSET Seats,
         da \cap ting = {}, NEW bei \in [ting -> WaitBei],
         NEW l, l \cap da = {}, l \cap ting = {}
  PROVE  Ends(b, DaJiao(b, da, ting, bei)) /\ Keeps(b, DaJiao(b, da, ting, bei), l)
<1> DEFINE due == [d \in Seats |-> [q \in Seats |-> IF d \in da /\ q \in ting THEN BaseBet * bei[q]
                                                                            ELSE 0]]
<1>1. DaJiao(b, da, ting, bei) = PaidByAll(b, due, da, "DaJiao")
  BY DEF DaJiao
<1>2. \A q \in ting : BaseBet * bei[q] \in Nat
  <2>1. \A q \in ting : bei[q] \in Nat
    BY WaitBeiType
  <2>2. BaseBet \in Nat
    BY SettleAssumption
  <2> QED
    BY <2>1, <2>2
<1>3. \A d, q \in Seats : due[d][q] \in Nat
  BY <1>2
<1>4. due \in Payments
  BY <1>3 DEF Payments
<1>5. \A d \in Seats : due[d][d] = 0
  OBVIOUS
<1>6. \A d \in Seats : d \notin da => \A q \in Seats : due[d][q] = 0
  OBVIOUS
<1>7. "DaJiao" \in Payers \ Wins
  BY DEF Payers, Wins
<1>8. \A d, q \in Seats : d \in l \/ q \in l => due[d][q] = 0
  OBVIOUS
<1> HIDE DEF due
<1> QED
  BY <1>1, <1>4, <1>5, <1>6, <1>7, <1>8, PaidByAllEnds, PaidByAllKeeps

(* The three settlements at the end of a hand, one after the other.             *)
LEMMA EndHandEnds ==
  ASSUME NEW b \in Books, b.settles = settles, AllFair(settles), NEW l \in SUBSET Seats, EndHand(b, l)
  PROVE  \E r : Ends(b, r) /\ Keeps(b, r, l) /\ Become(r)
<1> DEFINE Ended(hua, ting, bei) ==
             LET rest == Seats \ (l \cup hua)
                 da   == IF ting = {} THEN {} ELSE rest \ (hu \cup ting)
             IN  \E b1 \in {HuaZhu(b, hua, rest)} :
                 \E b2 \in {Refunded(b1, da, l)} :
                 \E b3 \in {DaJiao(b2, da, ting, bei)} : Become(b3)
<1>1. PICK hua \in SUBSET (Seats \ l) :
        \E ting \in SUBSET (Seats \ (l \cup hua \cup hu)) :
        \E bei \in [ting -> WaitBei] : Ended(hua, ting, bei)
  BY DEF EndHand
<1>2. PICK ting \in SUBSET (Seats \ (l \cup hua \cup hu)) :
        \E bei \in [ting -> WaitBei] : Ended(hua, ting, bei)
  BY <1>1
<1>3. PICK bei \in [ting -> WaitBei] : Ended(hua, ting, bei)
  BY <1>2
<1> DEFINE rest == Seats \ (l \cup hua)
           da   == IF ting = {} THEN {} ELSE rest \ (hu \cup ting)
           b1   == HuaZhu(b, hua, rest)
           b2   == Refunded(b1, da, l)
           b3   == DaJiao(b2, da, ting, bei)
<1>4. Become(b3)
  BY <1>3
<1>5. /\ rest \in SUBSET Seats /\ da \in SUBSET Seats /\ hua \in SUBSET Seats
      /\ ting \in SUBSET Seats /\ hua \cap rest = {} /\ da \cap ting = {}
      /\ l \cap hua = {} /\ l \cap rest = {} /\ l \cap ting = {} /\ l \cap da = {}
  OBVIOUS
<1> HIDE DEF rest, da
<1>6. Ends(b, b1) /\ Keeps(b, b1, l)
  BY <1>5, HuaZhuEnds
<1> HIDE DEF b1
<1>7. Ends(b1, b2) /\ Keeps(b1, b2, l)
  <2>1. b1 \in Books /\ AllFair(b1.settles) /\ Len(settles) <= Len(b1.settles)
    BY <1>6 DEF Ends
  <2>2. settles \in Seq(Settle)
    BY DEF AllFair
  <2> QED
    BY <1>5, <2>1, <2>2, RefundedEnds
<1> HIDE DEF b2
<1>8. Ends(b2, b3) /\ Keeps(b2, b3, l)
  <2>1. b2 \in Books /\ AllFair(b2.settles)
    BY <1>7 DEF Ends
  <2> QED
    BY <1>5, <2>1, DaJiaoEnds
<1> HIDE DEF b3
<1>9. Ends(b, b2)
  BY <1>6, <1>7, EndsTransitive
<1>30. Ends(b, b3) /\ Keeps(b, b3, l)
  BY <1>6, <1>7, <1>8, <1>9, EndsTransitive DEF Keeps
<1> QED
  BY <1>4, <1>30

-----------------------------------------------------------------------------
(* The inductive invariant *)

\* A win has brought nothing from those for whom it was of eight fan or more, and only
\* from them
WinsPaid(ss) ==
  \A n \in 1..Len(ss) : ss[n].kind \in Wins =>
     \A q \in ss[n].among : ss[n].part[q] = 0 <=> q \in ss[n].void

\* The books are in order: they balance, the bills explain them, as long as no refund has
\* been cut short, and the settlements are as they should be
InOrder(b) ==
  /\ b \in Books
  /\ Sum(b.offset) + b.taken = 0
  /\ AllFair(b.settles)
  /\ ~b.cut => \A q \in Seats : b.offset[q] = Billed(b.settles)[q]
  /\ WinsPaid(b.settles)

Inv ==
  /\ phase \in {"play", "won", "supply", "end"}
  /\ hu \in SUBSET Seats /\ lost \in SUBSET Seats
  /\ InOrder(Now)

(* What happens to books at the end of a hand leaves them in order.             *)
LEMMA EndsInOrder ==
  ASSUME NEW b, InOrder(b), NEW r, Ends(b, r)
  PROVE  InOrder(r)
<1>1. r \in Books /\ AllFair(r.settles) /\ Sum(r.offset) + r.taken = 0
  BY DEF Ends, InOrder
<1>2. ASSUME ~r.cut, NEW q \in Seats
      PROVE  r.offset[q] = Billed(r.settles)[q]
  <2>1. b.offset[q] = Billed(b.settles)[q]
    BY <1>2 DEF Ends, InOrder
  <2>2. r.offset[q] - Billed(r.settles)[q] = b.offset[q] - Billed(b.settles)[q]
    BY <1>2 DEF Ends
  <2>3. r.offset[q] \in Int /\ b.offset[q] \in Int
    BY <1>1 DEF Books, InOrder
  <2>4. Billed(r.settles)[q] \in Int
    BY <1>1, BilledType DEF AllFair
  <2> QED
    BY <2>1, <2>2, <2>3, <2>4
<1>3. WinsPaid(r.settles)
  <2> SUFFICES ASSUME NEW n \in 1..Len(r.settles), r.settles[n].kind \in Wins
               PROVE  \A q \in r.settles[n].among :
                         r.settles[n].part[q] = 0 <=> q \in r.settles[n].void
    BY DEF WinsPaid
  <2>1. n <= Len(b.settles) /\ r.settles[n] = b.settles[n]
    BY DEF Ends
  <2>2. n \in 1..Len(b.settles)
    BY <1>1, <2>1 DEF InOrder, AllFair
  <2> QED
    BY <2>1, <2>2 DEF InOrder, WinsPaid
<1> QED
  BY <1>1, <1>2, <1>3 DEF InOrder

(* A kong or a win is recorded as it was paid.                                  *)
LEMMA SettledInOrder ==
  ASSUME InOrder(Now), NEW pay \in Payments, Affordable(pay, coin), NEW s, Fair(s),
         \A q \in Seats : Bill(q, s) = Net(pay, q),
         s.kind \in Wins => \A q \in s.among : s.part[q] = 0 <=> q \in s.void
  PROVE  InOrder(Settled(pay, s))
<1> DEFINE p == Paid(Now, pay)
           r == Settled(pay, s)
<1>1. /\ Now \in Books /\ Now.coin = coin /\ Now.offset = offset /\ Now.taken = taken
      /\ Now.settles = settles /\ Now.cut = cut
  BY DEF InOrder, Now
<1>2. /\ p \in Books
      /\ p.offset = [q \in Seats |-> offset[q] + Net(pay, q)]
      /\ Sum(p.offset) = Sum(offset)
      /\ p.taken = taken /\ p.settles = settles /\ p.cut = cut
  <2>1. Affordable(pay, Now.coin)
    BY <1>1
  <2>2. /\ p \in Books /\ p.offset = [q \in Seats |-> Now.offset[q] + Net(pay, q)]
        /\ Sum(p.offset) = Sum(Now.offset)
        /\ p.taken = Now.taken /\ p.settles = Now.settles /\ p.cut = Now.cut
    BY <1>1, <2>1, PaidProperties
  <2>3. \A q \in Seats : Now.offset[q] + Net(pay, q) = offset[q] + Net(pay, q)
    BY <1>1
  <2> QED
    BY <1>1, <2>2, <2>3
<1>3. r = [p EXCEPT !.settles = Append(@, s)]
  BY DEF Settled
<1>4. AllFair(settles) /\ settles \in Seq(Settle) /\ s \in Settle
  BY <1>1 DEF InOrder, AllFair, Fair
<1>5. /\ Append(settles, s) \in Seq(Settle)
      /\ Billed(Append(settles, s)) = [q \in Seats |-> Billed(settles)[q] + Bill(q, s)]
  BY <1>4, BilledAppend
<1>6. \A n \in 1..Len(Append(settles, s)) :
        Append(settles, s)[n] = s \/ (n \in 1..Len(settles) /\ Append(settles, s)[n] = settles[n])
  BY <1>4
<1> HIDE DEF p, r
<1>7. /\ r \in Books /\ r.offset = p.offset /\ r.taken = taken /\ r.cut = cut
      /\ r.settles = Append(settles, s)
  BY <1>2, <1>3, <1>5 DEF Books
<1>8. Sum(r.offset) + r.taken = 0
  BY <1>1, <1>2, <1>7 DEF InOrder
<1>9. AllFair(r.settles)
  BY <1>4, <1>5, <1>6, <1>7 DEF AllFair
<1>10. ASSUME ~r.cut, NEW q \in Seats
       PROVE  r.offset[q] = Billed(r.settles)[q]
  <2>1. offset[q] = Billed(settles)[q]
    BY <1>1, <1>7, <1>10 DEF InOrder
  <2>2. r.offset[q] = offset[q] + Net(pay, q)
    BY <1>2, <1>7
  <2>3. Billed(r.settles)[q] = Billed(settles)[q] + Bill(q, s)
    BY <1>5, <1>7
  <2> QED
    BY <2>1, <2>2, <2>3
<1>11. WinsPaid(r.settles)
  <2>1. WinsPaid(settles)
    BY <1>1 DEF InOrder
  <2> QED
    BY <2>1, <1>6, <1>7 DEF WinsPaid
<1>12. InOrder(r)
  BY <1>7, <1>8, <1>9, <1>10, <1>11 DEF InOrder
<1> QED
  BY <1>12 DEF r

LEMMA BecomeInOrder ==
  ASSUME NEW r, InOrder(r), Become(r)
  PROVE  InOrder(Now')
<1>1. r = [coin |-> r.coin, offset |-> r.offset, taken |-> r.taken, settles |-> r.settles,
           cut |-> r.cut]
  BY DEF InOrder, Books
<1>2. Now' = r
  BY <1>1 DEF Become, Now
<1> QED
  BY <1>2

-----------------------------------------------------------------------------
(* Kongs and wins *)

\* What the others pay player g
PartOf(pay, g) == [q \in Seats |-> pay[q][g]]

\* What payers who owe player g the same pay him
Collected(c, g, payers, due) ==
  LET pay  == Pay(c, OwedBy(payers, g, due))
      part == PartOf(pay, g)
  IN  /\ pay \in Payments /\ Affordable(pay, c)
      /\ part \in Coins /\ part[g] = 0
      /\ \A q \in Seats : Net(pay, q) = IF q = g THEN Sum(part) ELSE -part[q]
      /\ \A q \in payers : part[q] = AtMost(due, c[q])
      /\ \A q \in Seats \ payers : part[q] = 0

LEMMA CollectProperties ==
  ASSUME NEW c \in Coins, NEW g \in Seats, NEW payers \in SUBSET (Seats \ {g}), NEW due \in Nat
  PROVE  Collected(c, g, payers, due)
<1> DEFINE owed == OwedBy(payers, g, due)
           pay  == Pay(c, owed)
           part == PartOf(pay, g)
<1>1. \A d, q \in Seats : owed[d][q] = IF d \in payers /\ q = g THEN due ELSE 0
  BY DEF OwedBy, None
<1>2. owed \in Payments
  <2>1. \A d \in Seats : owed[d] \in [Seats -> Nat]
    BY DEF OwedBy, None
  <2> QED
    BY <2>1 DEF Payments, OwedBy
<1> HIDE DEF owed
<1>3. \A d \in Seats : pay[d] = Share(c[d], owed[d])
  BY DEF Pay
<1>4. /\ pay \in Payments /\ Affordable(pay, c)
      /\ \A d, q \in Seats : pay[d][q] <= owed[d][q]
  BY <1>2, PayProperties
<1>5. \A q \in Seats : part[q] = pay[q][g]
  BY DEF PartOf
<1>6. part = [q \in Seats |-> part[q]]
  BY DEF PartOf
<1> HIDE DEF pay, part
<1>7. \A d, q \in Seats : pay[d][q] \in Nat
  BY <1>4 DEF Payments
<1>8. \A d, q \in Seats : (q # g \/ d \notin payers) => pay[d][q] = 0
  BY <1>1, <1>4, <1>7
<1>9. part \in Coins /\ part[g] = 0 /\ \A q \in Seats : part[q] = pay[q][g]
  BY <1>5, <1>6, <1>7, <1>8 DEF Coins
<1>10. \A q \in Seats : Sum(pay[q]) = part[q]
  <2> SUFFICES ASSUME NEW q \in Seats
               PROVE  Sum(pay[q]) = part[q]
    OBVIOUS
  <2>1. \A e \in Seats : e # g => pay[q][e] = 0
    BY <1>8
  <2>2. pay[q][g] \in Nat /\ part[q] = pay[q][g]
    BY <1>7, <1>9
  <2> QED
    BY <2>1, <2>2, FourSeats DEF Sum
<1>11. \A q \in Seats : Net(pay, q) = IF q = g THEN Sum(part) ELSE -part[q]
  <2> SUFFICES ASSUME NEW q \in Seats
               PROVE  Net(pay, q) = IF q = g THEN Sum(part) ELSE -part[q]
    OBVIOUS
  <2>1. CASE q = g
    <3>1. Sum(pay[q]) = 0
      BY <1>9, <1>10, <2>1
    <3>2. /\ pay[0][q] = part[0] /\ pay[1][q] = part[1] /\ pay[2][q] = part[2] /\ pay[3][q] = part[3]
          /\ part[0] \in Nat /\ part[1] \in Nat /\ part[2] \in Nat /\ part[3] \in Nat
      BY <1>9, <2>1, FourSeats DEF Coins
    <3> QED
      BY <2>1, <3>1, <3>2 DEF Net, Sum
  <2>2. CASE q # g
    <3>1. pay[0][q] = 0 /\ pay[1][q] = 0 /\ pay[2][q] = 0 /\ pay[3][q] = 0
      BY <1>8, <2>2, FourSeats
    <3>2. Sum(pay[q]) = part[q] /\ part[q] \in Nat
      BY <1>9, <1>10 DEF Coins
    <3> QED
      BY <2>2, <3>1, <3>2 DEF Net
  <2> QED
    BY <2>1, <2>2
<1>12. ASSUME NEW q \in payers
      PROVE  part[q] = AtMost(due, c[q])
  <2>1. q \in Seats /\ c[q] \in Nat /\ owed[q] = [None EXCEPT ![g] = due]
    BY DEF owed, OwedBy, Coins
  <2>2. pay[q] = Share(c[q], owed[q])
    BY <1>3, <2>1
  <2>3. \A e \in Seats : owed[q][e] = IF e = g THEN due ELSE 0
    BY <1>1, <2>1
  <2>4. Before(owed[q], g) = 0
    BY <2>3, FourSeats DEF Before
  <2>5. pay[q][g] = AtMost(0 + due, c[q]) - AtMost(0, c[q])
    BY <2>2, <2>3, <2>4 DEF Share
  <2> QED
    BY <1>9, <2>1, <2>5 DEF AtMost
<1>13. \A q \in Seats \ payers : part[q] = 0
  BY <1>8, <1>9
<1> QED
  BY <1>4, <1>9, <1>11, <1>12, <1>13 DEF Collected, pay, part, owed

LEMMA ActiveType == Active(lost) \in SUBSET Seats
BY DEF Active

(* Nobody acts while a player who is still in the game is broke.                *)
LEMMA ActiveHaveCoins ==
  ASSUME InOrder(Now), MayAct, NEW q \in Active(lost)
  PROVE  coin[q] \in Nat \ {0}
<1>1. q \in Seats /\ q \notin lost
  BY DEF Active
<1>2. coin[q] \in Nat
  BY <1>1 DEF InOrder, Now, Books
<1>3. ~(coin[q] <= 0)
  BY <1>1 DEF MayAct, Awaited, Out
<1> QED
  BY <1>2, <1>3

(* Whatever the others pay player g, for a kong or a win, is recorded as it was *)
(* paid.  Of a win it is nothing from eight fan on.                             *)
LEMMA CollectedInOrder ==
  ASSUME InOrder(Now), NEW g \in Seats, NEW kind \in Kongs \cup {"ZiMo"},
         NEW payers \in SUBSET (Seats \ {g}), NEW due \in Nat, NEW void \in SUBSET Seats,
         kind = "ZiMo" => /\ \A q \in payers : coin[q] \in Nat \ {0}
                          /\ \A q \in payers : due = 0 <=> q \in void
  PROVE  LET pay == Pay(coin, OwedBy(payers, g, due))
         IN  InOrder(Settled(pay, [kind |-> kind, idx |-> g, among |-> payers, void |-> void,
                                   part |-> [q \in Seats |-> pay[q][g]]]))
<1> DEFINE pay  == Pay(coin, OwedBy(payers, g, due))
           part == [q \in Seats |-> pay[q][g]]
           s    == [kind |-> kind, idx |-> g, among |-> payers, void |-> void, part |-> part]
<1>1. coin \in Coins
  BY DEF InOrder, Now, Books, Coins
<1>2. s.kind = kind /\ s.idx = g /\ s.part = part /\ s.among = payers /\ s.void = void
  OBVIOUS
<1>3. /\ pay \in Payments /\ Affordable(pay, coin)
      /\ part \in Coins /\ part[g] = 0
      /\ \A q \in Seats : Net(pay, q) = IF q = g THEN Sum(part) ELSE -part[q]
      /\ \A q \in payers : part[q] = AtMost(due, coin[q])
  <2>1. pay = Pay(coin, OwedBy(payers, g, due)) /\ part = PartOf(pay, g)
    BY DEF PartOf
  <2>2. Collected(coin, g, payers, due)
    BY <1>1, CollectProperties
  <2> HIDE DEF pay, part
  <2> QED
    BY <2>1, <2>2 DEF Collected
<1> HIDE DEF pay, part
<1>4. Fair(s)
  BY <1>3 DEF Fair, Settle, Coins, Kongs, Wins
<1>5. s = [kind |-> kind, idx |-> g, among |-> payers, void |-> void, part |-> part]
  OBVIOUS
<1> HIDE DEF s
<1>6. s.kind \notin Payers
  BY <1>2 DEF Kongs, Payers
<1>7. \A q \in Seats : Bill(q, s) = Net(pay, q)
  <2> SUFFICES ASSUME NEW q \in Seats
               PROVE  Bill(q, s) = Net(pay, q)
    OBVIOUS
  <2>1. Bill(q, s) = 1 * (IF q = g THEN Sum(part) ELSE -part[q])
    BY <1>2, <1>6 DEF Bill
  <2>2. Sum(part) \in Nat /\ part[q] \in Nat
    BY <1>3, SumType DEF Coins
  <2> QED
    BY <1>3, <2>1, <2>2
<1>8. s.kind \in Wins => \A q \in s.among : s.part[q] = 0 <=> q \in s.void
  <2> SUFFICES ASSUME s.kind \in Wins, NEW q \in payers
               PROVE  part[q] = 0 <=> q \in void
    BY <1>2
  <2>1. kind = "ZiMo"
    BY <1>2 DEF Kongs, Wins
  <2>2. coin[q] \in Nat \ {0} /\ (due = 0 <=> q \in void)
    BY <2>1
  <2>3. part[q] = AtMost(due, coin[q])
    BY <1>3
  <2> QED
    BY <2>2, <2>3 DEF AtMost
<1>9. InOrder(Settled(pay, s))
  BY <1>3, <1>4, <1>7, <1>8, SettledInOrder
<1> QED
  BY <1>5, <1>9 DEF pay, part

LEMMA KongInOrder ==
  ASSUME Inv, NEW g \in Seats, NEW kind \in Kongs, NEW payers \in SUBSET (Seats \ {g}),
         NEW due \in Nat, Kong(g, kind, payers, due)
  PROVE  Inv'
<1> DEFINE pay == Pay(coin, OwedBy(payers, g, due))
           r   == Settled(pay, [kind |-> kind, idx |-> g, among |-> payers, void |-> {},
                                part |-> [q \in Seats |-> pay[q][g]]])
<1>1. Become(r) /\ phase' \in {"play", "supply"} /\ UNCHANGED <<hu, lost>>
  BY DEF Kong
<1>2. InOrder(r)
  <2>1. kind # "ZiMo" /\ {} \in SUBSET Seats /\ kind \in Kongs \cup {"ZiMo"}
    BY DEF Kongs
  <2>2. InOrder(Now)
    BY DEF Inv
  <2> QED
    BY <2>1, <2>2, CollectedInOrder
<1> HIDE DEF r
<1>3. InOrder(Now')
  BY <1>1, <1>2, BecomeInOrder
<1> QED
  BY <1>1, <1>3 DEF Inv, InOrder, Now

LEMMA ZiMoInOrder ==
  ASSUME Inv, NEW i \in Active(lost), NEW h \in Hands, NEW gangHu \in BOOLEAN, ZiMo(i, h, gangHu)
  PROVE  Inv'
<1> DEFINE fan    == HuFan(h, gangHu, TRUE)
           due    == BaseBet * BeiShu(fan)
           losers == Active(lost) \ {i}
           void   == IF fan >= 8 THEN losers ELSE {}
           pay    == Pay(coin, OwedBy(losers, i, due))
           r      == Settled(pay, [kind |-> "ZiMo", idx |-> i, among |-> losers, void |-> void,
                                   part |-> [q \in Seats |-> pay[q][i]]])
<1>1. MayAct /\ Become(r) /\ phase' = "won" /\ hu' = hu \cup {i} /\ UNCHANGED lost
  BY DEF ZiMo, MayWin
<1>2. i \in Seats /\ losers \in SUBSET (Seats \ {i}) /\ void \in SUBSET Seats
  BY DEF Active
<1>3. due \in Nat /\ (due = 0 <=> fan >= 8)
  BY DueProperties
<1>4. \A q \in losers : coin[q] \in Nat \ {0}
  BY <1>1, ActiveHaveCoins DEF Inv
<1>5. \A q \in losers : due = 0 <=> q \in void
  <2> HIDE DEF due, fan
  <2> QED
    BY <1>3
<1>6. InOrder(r)
  <2>1. InOrder(Now) /\ "ZiMo" \in Kongs \cup {"ZiMo"}
    BY DEF Inv
  <2> HIDE DEF due, losers, void
  <2> QED
    BY <1>2, <1>3, <1>4, <1>5, <2>1, CollectedInOrder
<1> HIDE DEF r
<1>7. InOrder(Now')
  BY <1>1, <1>6, BecomeInOrder
<1> QED
  BY <1>1, <1>2, <1>7 DEF Inv, InOrder, Now

(* The coins of three players, when the fourth has none.                        *)
LEMMA SumOfThree ==
  ASSUME NEW f \in Coins, NEW i \in Seats, NEW j \in Seats, NEW k \in Seats,
         i # j, i # k, j # k, \A q \in Seats \ {i, j, k} : f[q] = 0
  PROVE  Sum(f) = f[i] + f[j] + f[k]
<1>1. f[0] \in Nat /\ f[1] \in Nat /\ f[2] \in Nat /\ f[3] \in Nat
  BY FourSeats DEF Coins
<1>2. /\ 0 \notin {i, j, k} => f[0] = 0
      /\ 1 \notin {i, j, k} => f[1] = 0
      /\ 2 \notin {i, j, k} => f[2] = 0
      /\ 3 \notin {i, j, k} => f[3] = 0
  BY FourSeats
<1>3. Sum(f) = f[0] + f[1] + f[2] + f[3]
  BY DEF Sum
<1>4. CASE i = 0
  BY <1>1, <1>2, <1>3, <1>4, FourSeats
<1>5. CASE i = 1
  BY <1>1, <1>2, <1>3, <1>5, FourSeats
<1>6. CASE i = 2
  BY <1>1, <1>2, <1>3, <1>6, FourSeats
<1>7. CASE i = 3
  BY <1>1, <1>2, <1>3, <1>7, FourSeats
<1> QED
  BY <1>4, <1>5, <1>6, <1>7, FourSeats

\* The n winners q on one card of player v, who has c coins: due[m] is due to the m-th,
\* after owed[m] to those before; won are those who win, and paid is what they are paid
WinnersOn(c, n, due, v, q, owed, won, paid) ==
  /\ \A m \in 1..n : due[m] \in Nat
  /\ q \in [1..n -> Seats \ {v}] /\ \A a, b \in 1..n : q[a] = q[b] => a = b
  /\ owed[1] = 0 /\ (n > 1 => owed[2] = due[1]) /\ (n > 2 => owed[3] = due[1] + due[2])
  /\ won \in SUBSET (1..n) /\ \A m \in 1..n : m \in won <=> m = 1 \/ owed[m] < c
  /\ paid \in Coins
  /\ \A m \in won : paid[q[m]] = AtMost(owed[m] + due[m], c) - AtMost(owed[m], c)
  /\ \A i \in Seats : (\A m \in won : q[m] # i) => paid[i] = 0

(* What the winners on one card are paid, in the order they have answered.      *)
LEMMA WinnersPaid ==
  ASSUME NEW c \in Nat \ {0}, NEW n \in 1..3, NEW due, NEW v \in Seats, NEW q, NEW owed, NEW won,
         NEW paid, WinnersOn(c, n, due, v, q, owed, won, paid)
  PROVE  /\ paid[v] = 0
         /\ Sum(paid) <= c
         /\ \A m \in won : paid[q[m]] = 0 <=> due[m] = 0
         /\ (\E m \in 1..n : m \notin won) => Sum(paid) = c
         /\ \A m \in won : \A k \in 1..m : k \in won
<1> USE DEF WinnersOn
<1>1. paid[v] = 0
  OBVIOUS
<1>2. ASSUME NEW m \in won
      PROVE  paid[q[m]] = 0 <=> due[m] = 0
  <2>1. m \in 1..n /\ owed[m] \in Nat /\ owed[m] < c /\ due[m] \in Nat
    <3>1. CASE m = 1
      BY <3>1
    <3>2. CASE m = 2
      BY <3>2
    <3>3. CASE m = 3
      BY <3>3
    <3> QED
      BY <3>1, <3>2, <3>3
  <2>2. paid[q[m]] = AtMost(owed[m] + due[m], c) - AtMost(owed[m], c)
    OBVIOUS
  <2> QED
    BY <2>1, <2>2 DEF AtMost
<1>3. 1 \in won /\ won \subseteq 1..n
  OBVIOUS
<1>4. paid[q[1]] = AtMost(due[1], c)
  <2>1. paid[q[1]] = AtMost(0 + due[1], c) - AtMost(0, c)
    BY <1>3
  <2>2. due[1] \in Nat
    BY <1>3
  <2> QED
    BY <2>1, <2>2 DEF AtMost
<1>5. ASSUME NEW m \in 1..n, m \notin won
      PROVE  paid[q[m]] = 0
  <2>1. \A k \in won : q[k] # q[m]
    BY <1>3, <1>5
  <2> QED
    BY <2>1
<1>6. n > 1 => \/ paid[q[2]] = AtMost(due[1] + due[2], c) - AtMost(due[1], c)
               \/ paid[q[2]] = 0 /\ ~(due[1] < c) /\ 2 \notin won
  <2> SUFFICES ASSUME n > 1
               PROVE  \/ paid[q[2]] = AtMost(due[1] + due[2], c) - AtMost(due[1], c)
                      \/ paid[q[2]] = 0 /\ ~(due[1] < c) /\ 2 \notin won
    OBVIOUS
  <2>1. 2 \in 1..n /\ owed[2] = due[1]
    OBVIOUS
  <2>2. 2 \notin won => paid[q[2]] = 0 /\ ~(due[1] < c)
    BY <1>5, <2>1
  <2>3. 2 \in won => paid[q[2]] = AtMost(owed[2] + due[2], c) - AtMost(owed[2], c)
    OBVIOUS
  <2> QED
    BY <2>1, <2>2, <2>3
<1>7. n > 2 => \/ paid[q[3]] = AtMost(due[1] + due[2] + due[3], c) - AtMost(due[1] + due[2], c)
               \/ paid[q[3]] = 0
  <2> SUFFICES ASSUME n > 2
               PROVE  \/ paid[q[3]] = AtMost(due[1] + due[2] + due[3], c) - AtMost(due[1] + due[2], c)
                      \/ paid[q[3]] = 0
    OBVIOUS
  <2>1. 3 \in 1..n /\ owed[3] = due[1] + due[2]
    OBVIOUS
  <2>2. 3 \notin won => paid[q[3]] = 0
    BY <1>5, <2>1
  <2>3. 3 \in won => paid[q[3]] = AtMost(owed[3] + due[3], c) - AtMost(owed[3], c)
    OBVIOUS
  <2> QED
    BY <2>1, <2>2, <2>3
<1>8. \A i \in Seats : i \notin {q[m] : m \in 1..n} => paid[i] = 0
  BY <1>3
<1>9. ASSUME n = 1
      PROVE  Sum(paid) <= c
  <2>1. PICK j \in Seats, k \in Seats : j # q[1] /\ k # q[1] /\ j # k
    BY <1>9 DEF Seats
  <2>2. \A i \in Seats : i # q[1] => paid[i] = 0
    BY <1>8, <1>9
  <2>3. Sum(paid) = paid[q[1]] + 0 + 0
    BY <1>9, <2>1, <2>2, SumOfThree
  <2>4. due[1] \in Nat
    BY <1>9
  <2> QED
    BY <1>4, <2>3, <2>4 DEF AtMost
<1>10. ASSUME n = 2
       PROVE  Sum(paid) <= c
  <2>1. q[1] \in Seats /\ q[2] \in Seats /\ q[1] # q[2]
    BY <1>10
  <2>2. PICK k \in Seats : k # q[1] /\ k # q[2]
    BY <2>1 DEF Seats
  <2>3. \A i \in Seats : i # q[1] /\ i # q[2] => paid[i] = 0
    BY <1>8, <1>10
  <2>4. Sum(paid) = paid[q[1]] + paid[q[2]] + 0
    BY <2>1, <2>2, <2>3, SumOfThree
  <2>5. due[1] \in Nat /\ due[2] \in Nat
    BY <1>10
  <2>6. \/ paid[q[2]] = AtMost(due[1] + due[2], c) - AtMost(due[1], c)
        \/ paid[q[2]] = 0
    BY <1>6, <1>10
  <2> HIDE DEF WinnersOn
  <2> QED
    BY <1>4, <2>4, <2>5, <2>6 DEF AtMost
<1>11. ASSUME n = 3
       PROVE  Sum(paid) <= c
  <2>1. /\ q[1] \in Seats /\ q[2] \in Seats /\ q[3] \in Seats
        /\ q[1] # q[2] /\ q[1] # q[3] /\ q[2] # q[3]
    BY <1>11
  <2>2. \A i \in Seats : i # q[1] /\ i # q[2] /\ i # q[3] => paid[i] = 0
    BY <1>8, <1>11
  <2>3. Sum(paid) = paid[q[1]] + paid[q[2]] + paid[q[3]]
    BY <2>1, <2>2, SumOfThree
  <2>4. due[1] \in Nat /\ due[2] \in Nat /\ due[3] \in Nat
    BY <1>11
  <2>5. \/ paid[q[2]] = AtMost(due[1] + due[2], c) - AtMost(due[1], c)
        \/ paid[q[2]] = 0 /\ ~(due[1] < c)
    BY <1>6, <1>11
  <2>6. \/ paid[q[3]] = AtMost(due[1] + due[2] + due[3], c) - AtMost(due[1] + due[2], c)
        \/ paid[q[3]] = 0
    BY <1>7, <1>11
  <2> HIDE DEF WinnersOn
  <2> QED
    BY <1>4, <2>3, <2>4, <2>5, <2>6 DEF AtMost
<1>14. ASSUME NEW m \in won, NEW k \in 1..m
       PROVE  k \in won
  <2>1. m \in 1..n /\ n \in 1..3
    OBVIOUS
  <2>2. k = 1 \/ k = m \/ (m = 3 /\ k = 2)
    BY <2>1
  <2>3. CASE m = 3 /\ k = 2
    <3>1. /\ owed[3] = due[1] + due[2] /\ owed[3] < c /\ owed[2] = due[1] /\ 2 \in 1..n
          /\ due[1] \in Nat /\ due[2] \in Nat
      BY <2>1, <2>3
    <3>2. owed[2] < c
      BY <3>1
    <3> QED
      BY <2>3, <3>1, <3>2
  <2> QED
    BY <1>3, <2>2, <2>3
<1>12. ASSUME NEW m \in 1..n, m \notin won
       PROVE  Sum(paid) = c
  <2>1. (m = 2 \/ m = 3) /\ (m = 2 => n > 1) /\ (m = 3 => n = 3)
    BY <1>3, <1>12
  <2>2. ~(owed[m] < c) /\ paid[q[m]] = 0
    BY <1>5, <1>12
  <2>3. CASE n = 2
    <3>1. due[1] \in Nat /\ ~(due[1] < c) /\ paid[q[2]] = 0
      BY <2>1, <2>2, <2>3
    <3>2. q[1] \in Seats /\ q[2] \in Seats /\ q[1] # q[2]
      BY <2>3
    <3>3. PICK k \in Seats : k # q[1] /\ k # q[2]
      BY <3>2 DEF Seats
    <3>4. \A i \in Seats : i # q[1] /\ i # q[2] => paid[i] = 0
      BY <1>8, <2>3
    <3>5. Sum(paid) = paid[q[1]] + paid[q[2]] + 0
      BY <3>2, <3>3, <3>4, SumOfThree
    <3> HIDE DEF WinnersOn
    <3> QED
      BY <1>4, <3>1, <3>5 DEF AtMost
  <2>4. CASE n = 3
    <3>1. due[1] \in Nat /\ due[2] \in Nat
      BY <2>4
    <3>2. /\ q[1] \in Seats /\ q[2] \in Seats /\ q[3] \in Seats
          /\ q[1] # q[2] /\ q[1] # q[3] /\ q[2] # q[3]
      BY <2>4
    <3>3. \A i \in Seats : i # q[1] /\ i # q[2] /\ i # q[3] => paid[i] = 0
      BY <1>8, <2>4
    <3>4. Sum(paid) = paid[q[1]] + paid[q[2]] + paid[q[3]]
      BY <3>2, <3>3, SumOfThree
    <3>5. 3 \notin won
      BY <2>1, <2>2, <2>4, <3>1
    <3>6. paid[q[3]] = 0 /\ ~(due[1] + due[2] < c)
      BY <1>5, <2>4, <3>5
    <3>7. \/ paid[q[2]] = AtMost(due[1] + due[2], c) - AtMost(due[1], c)
          \/ paid[q[2]] = 0 /\ ~(due[1] < c)
      BY <1>6, <2>4
    <3> HIDE DEF WinnersOn
    <3> QED
      BY <1>4, <3>1, <3>4, <3>6, <3>7 DEF AtMost
  <2> QED
    BY <2>1, <2>3, <2>4
<1> HIDE DEF WinnersOn
<1>13. Sum(paid) <= c
  BY <1>9, <1>10, <1>11
<1> QED
  BY <1>1, <1>2, <1>12, <1>13, <1>14

(* Winners on a card are different players who are in the game.                 *)
LEMMA WinnerListsType ==
  ASSUME NEW v \in Seats, NEW q \in WinnerLists(v)
  PROVE  \E n \in 1..3 : /\ q \in [1..n -> Active(lost) \ {v}]
                         /\ \A a, b \in 1..n : q[a] = q[b] => a = b
<1>1. MaxWinners \in Nat
  BY SettleAssumption
<1>2. PICK n \in 1..MaxWinners : /\ q \in [1..n -> Active(lost) \ {v}]
                                 /\ \A a, b \in 1..n : q[a] = q[b] => a = b
  BY DEF WinnerLists
<1>3. n \in Nat /\ n >= 1
  BY <1>1
<1>4. n <= 3
  <2> SUFFICES ASSUME n >= 4
               PROVE  FALSE
    BY <1>3
  <2>1. 1 \in 1..n /\ 2 \in 1..n /\ 3 \in 1..n /\ 4 \in 1..n
    BY <1>3
  <2>2. /\ q[1] \in Seats \ {v} /\ q[2] \in Seats \ {v} /\ q[3] \in Seats \ {v}
        /\ q[4] \in Seats \ {v}
    BY <1>2, <2>1, ActiveType
  <2>3. /\ q[1] # q[2] /\ q[1] # q[3] /\ q[1] # q[4] /\ q[2] # q[3] /\ q[2] # q[4]
        /\ q[3] # q[4]
    BY <1>2, <2>1
  <2> QED
    BY <2>2, <2>3, FourSeats
<1> QED
  BY <1>2, <1>3, <1>4

\* Of the n players q who claim a card of player v the first win, those of won, and
\* are paid paid: all that v has, if there are others
WonBy(v, q, n, won, paid) ==
  /\ n \in 1..3 /\ q \in [1..n -> Active(lost) \ {v}]
  /\ won \in SUBSET (1..n) /\ 1 \in won /\ \A m \in won : \A k \in 1..m : k \in won
  /\ paid \in Coins /\ paid[v] = 0
  /\ \A i \in Seats : i \notin {q[m] : m \in won} => paid[i] = 0
  /\ Sum(paid) <= coin[v] /\ ((\E m \in 1..n : m \notin won) => Sum(paid) = coin[v])

LEMMA DianPaoPays ==
  ASSUME Inv, NEW v \in Active(lost), NEW q \in WinnerLists(v),
         NEW hands \in [{q[n] : n \in DOMAIN q} -> Hands], NEW gangHu \in BOOLEAN,
         DianPao(q, v, hands, gangHu)
  PROVE  \E n, won, paid, s :
           /\ WonBy(v, q, n, won, paid) /\ MayAct /\ s.kind = "DianPao" /\ s.idx = v
           /\ InOrder(Settled([Nothing EXCEPT ![v] = paid], s))
           /\ Become(Settled([Nothing EXCEPT ![v] = paid], s))
           /\ phase' = "won" /\ hu' = hu \cup {q[m] : m \in won} /\ lost' = lost
<1>1. v \in Seats
  BY ActiveType
<1>2. PICK n \in 1..3 : /\ q \in [1..n -> Active(lost) \ {v}]
                        /\ \A a, b \in 1..n : q[a] = q[b] => a = b
  BY <1>1, WinnerListsType
<1> DEFINE fan(m)  == HuFan(hands[q[m]], gangHu, FALSE)
           due(m)  == BaseBet * BeiShu(fan(m))
           owed(m) == (IF m > 1 THEN due(1) ELSE 0) + (IF m > 2 THEN due(2) ELSE 0)
           won     == {m \in DOMAIN q : m = 1 \/ owed(m) < coin[v]}
           winners == {q[m] : m \in won}
           place(i) == CHOOSE m \in won : q[m] = i
           part(i)  == AtMost(owed(place(i)) + due(place(i)), coin[v])
                         - AtMost(owed(place(i)), coin[v])
           paid    == [i \in Seats |-> IF i \in winners THEN part(i) ELSE 0]
           pay     == [Nothing EXCEPT ![v] = paid]
           void    == {q[m] : m \in {k \in won : fan(k) >= 8}}
           s       == [kind |-> "DianPao", idx |-> v, among |-> winners, part |-> paid,
                       void |-> void]
           dues    == [m \in 1..n |-> due(m)]
           owes    == [m \in 1..n |-> owed(m)]
<1>3. /\ MayAct /\ Become(Settled(pay, s)) /\ phase' = "won" /\ hu' = hu \cup winners
      /\ UNCHANGED lost
  BY DEF DianPao, MayWin
<1>4. /\ DOMAIN q = 1..n /\ \A m \in 1..n : m \in 1..3 /\ q[m] \in Seats \ {v}
      /\ q \in [1..n -> Seats \ {v}]
  BY <1>2, ActiveType
<1>5. \A m \in 1..n : due(m) \in Nat /\ (due(m) = 0 <=> fan(m) >= 8)
  <2> SUFFICES ASSUME NEW m \in 1..n
               PROVE  due(m) \in Nat /\ (due(m) = 0 <=> fan(m) >= 8)
    OBVIOUS
  <2>1. hands[q[m]] \in Hands
    BY <1>4
  <2> QED
    BY <2>1, DueProperties
<1>6. coin[v] \in Nat \ {0}
  BY <1>3, ActiveHaveCoins DEF Inv
<1>7. /\ InOrder(Now) /\ coin \in Coins
  BY DEF Inv, InOrder, Now, Books, Coins
<1>8. s.kind = "DianPao" /\ s.idx = v /\ s.part = paid /\ s.among = winners /\ s.void = void
  OBVIOUS
<1> HIDE DEF due, fan
<1>9. \A m \in 1..n : /\ dues[m] = due(m) /\ dues[m] \in Nat
                      /\ owes[m] = owed(m) /\ owed(m) \in Nat
  <2>1. 1 \in 1..n /\ \A m \in 1..n : m > 2 => 2 \in 1..n
    OBVIOUS
  <2> QED
    BY <1>5, <2>1
<1>10. owes[1] = 0 /\ (n > 1 => owes[2] = dues[1]) /\ (n > 2 => owes[3] = dues[1] + dues[2])
  <2>1. owes[1] = 0
    OBVIOUS
  <2>2. n > 1 => owes[2] = dues[1]
    BY <1>9
  <2>3. n > 2 => owes[3] = dues[1] + dues[2]
    BY <1>9
  <2> QED
    BY <2>1, <2>2, <2>3
<1>11. won = {m \in 1..n : m = 1 \/ owes[m] < coin[v]} /\ won \subseteq 1..n
  BY <1>4, <1>9
<1> HIDE DEF dues, owes, owed, won
<1>12. \A m \in won : place(q[m]) = m
  BY <1>2, <1>11
<1>13. \A m \in won : paid[q[m]] = AtMost(owes[m] + dues[m], coin[v]) - AtMost(owes[m], coin[v])
  <2> SUFFICES ASSUME NEW m \in won
               PROVE  paid[q[m]] = AtMost(owes[m] + dues[m], coin[v]) - AtMost(owes[m], coin[v])
    OBVIOUS
  <2>1. m \in 1..n /\ q[m] \in Seats /\ q[m] \in winners
    BY <1>4, <1>11
  <2>2. paid[q[m]] = part(q[m])
    BY <2>1
  <2>3. place(q[m]) = m
    BY <1>12
  <2>4. part(q[m]) = AtMost(owed(m) + due(m), coin[v]) - AtMost(owed(m), coin[v])
    BY <2>3
  <2> QED
    BY <1>9, <2>1, <2>2, <2>4
<1>14. \A i \in Seats : i \notin winners => paid[i] = 0
  OBVIOUS
<1>15. paid \in Coins
  <2>1. \A i \in Seats : paid[i] \in Nat
    <3> SUFFICES ASSUME NEW m \in won
                 PROVE  paid[q[m]] \in Nat
      BY <1>14
    <3>1. m \in 1..n /\ owes[m] \in Nat /\ dues[m] \in Nat
      BY <1>9, <1>11
    <3>2. AtMost(owes[m] + dues[m], coin[v]) - AtMost(owes[m], coin[v]) \in Nat
      BY <1>6, <3>1 DEF AtMost
    <3> QED
      BY <1>13, <3>2
  <2>2. paid = [i \in Seats |-> paid[i]]
    OBVIOUS
  <2> HIDE DEF paid
  <2> QED
    BY <2>1, <2>2 DEF Coins
<1> HIDE DEF paid, place, part
<1>16. /\ paid[v] = 0 /\ Sum(paid) <= coin[v]
       /\ \A m \in won : paid[q[m]] = 0 <=> dues[m] = 0
       /\ (\E m \in 1..n : m \notin won) => Sum(paid) = coin[v]
       /\ \A m \in won : \A k \in 1..m : k \in won
  <2>1. \A m \in 1..n : dues[m] \in Nat
    BY <1>9
  <2>2. \A i \in Seats : (\A m \in won : q[m] # i) => paid[i] = 0
    BY <1>14
  <2>3. won \in SUBSET (1..n) /\ \A m \in 1..n : m \in won <=> m = 1 \/ owes[m] < coin[v]
    BY <1>11
  <2> HIDE DEF winners, void, pay, s
  <2>4. WinnersOn(coin[v], n, dues, v, q, owes, won, paid)
    BY <1>2, <1>4, <1>10, <1>13, <1>15, <2>1, <2>2, <2>3 DEF WinnersOn
  <2> QED
    BY <1>1, <1>6, <2>4, WinnersPaid
<1>17. winners \in SUBSET Seats /\ void \in SUBSET Seats
  BY <1>4, <1>11
<1>18. /\ pay \in Payments
       /\ \A i \in Seats : /\ Sum(pay[i]) = (IF i = v THEN Sum(paid) ELSE 0)
                           /\ Net(pay, i) = paid[i] - (IF i = v THEN Sum(paid) ELSE 0)
  BY <1>1, <1>15, OnePayer
<1> HIDE DEF pay
<1>19. Affordable(pay, coin)
  BY <1>7, <1>16, <1>18 DEF Affordable, Coins
<1>20. Fair(s)
  BY <1>1, <1>15, <1>16, <1>17 DEF Fair, Settle, Coins, Wins
<1>21. \A m \in won : q[m] \in void <=> fan(m) >= 8
  BY <1>2, <1>11
<1> HIDE DEF void, s
<1>22. \A i \in Seats : Bill(i, s) = Net(pay, i)
  <2> SUFFICES ASSUME NEW i \in Seats
               PROVE  Bill(i, s) = Net(pay, i)
    OBVIOUS
  <2>1. Bill(i, s) = (-1) * (IF i = v THEN Sum(paid) ELSE -paid[i])
    BY <1>8 DEF Bill, Payers
  <2>2. Sum(paid) \in Nat /\ paid[i] \in Nat
    BY <1>15, SumType DEF Coins
  <2> QED
    BY <1>16, <1>18, <2>1, <2>2
<1>23. \A i \in s.among : s.part[i] = 0 <=> i \in s.void
  <2> SUFFICES ASSUME NEW m \in won
               PROVE  paid[q[m]] = 0 <=> q[m] \in void
    BY <1>8
  <2>1. m \in 1..n
    BY <1>11
  <2> QED
    BY <1>5, <1>9, <1>16, <1>21, <2>1
<1>24. InOrder(Settled(pay, s))
  BY <1>7, <1>18, <1>19, <1>20, <1>22, <1>23, SettledInOrder
<1>25. WonBy(v, q, n, won, paid)
  <2>1. 1 \in won
    BY <1>11
  <2> QED
    BY <1>2, <1>11, <1>14, <1>15, <1>16, <2>1 DEF WonBy
<1> HIDE DEF winners
<1>26. winners = {q[m] : m \in won}
  BY DEF winners
<1> QED
  BY <1>3, <1>8, <1>24, <1>25, <1>26 DEF pay

LEMMA DianPaoInOrder ==
  ASSUME Inv, NEW v \in Active(lost), NEW q \in WinnerLists(v),
         NEW hands \in [{q[n] : n \in DOMAIN q} -> Hands], NEW gangHu \in BOOLEAN,
         DianPao(q, v, hands, gangHu)
  PROVE  Inv'
<1>1. PICK n, won, paid, s :
        /\ WonBy(v, q, n, won, paid) /\ MayAct /\ s.kind = "DianPao" /\ s.idx = v
        /\ InOrder(Settled([Nothing EXCEPT ![v] = paid], s))
        /\ Become(Settled([Nothing EXCEPT ![v] = paid], s))
        /\ phase' = "won" /\ hu' = hu \cup {q[m] : m \in won} /\ lost' = lost
  BY DianPaoPays
<1>2. InOrder(Now')
  BY <1>1, BecomeInOrder
<1>3. {q[m] : m \in won} \in SUBSET Seats
  BY <1>1, ActiveType DEF WonBy
<1> QED
  BY <1>1, <1>2, <1>3 DEF Inv, InOrder, Now

-----------------------------------------------------------------------------
(* The end of a hand, and waiting for coins *)

LEMMA EndHandInOrder ==
  ASSUME NEW b, InOrder(b), b.settles = settles, NEW l \in SUBSET Seats, EndHand(b, l)
  PROVE  InOrder(Now')
<1>1. PICK r : Ends(b, r) /\ Become(r)
  BY EndHandEnds DEF InOrder
<1> QED
  BY <1>1, EndsInOrder, BecomeInOrder

LEMMA SuppliedInOrder ==
  ASSUME Inv, NEW c \in Coins, NEW l \in SUBSET Seats, Supplied(c, l)
  PROVE  InOrder(Now') /\ phase' \in {"play", "supply", "end"}
<1> DEFINE b == [Now EXCEPT !.coin = c]
<1>1. InOrder(Now)
  BY DEF Inv
<1>2. /\ b \in Books /\ b.offset = Now.offset /\ b.taken = Now.taken
      /\ b.settles = Now.settles /\ b.cut = Now.cut
  BY <1>1 DEF InOrder, Books, Coins
<1>3. Now.settles = settles
  BY DEF Now
<1>4. \/ Become(b) /\ phase' \in {"play", "supply"}
      \/ EndHand(b, l) /\ phase' = "end"
  BY DEF Supplied
<1> HIDE DEF b
<1>5. InOrder(b)
  BY <1>1, <1>2 DEF InOrder
<1>6. CASE Become(b) /\ phase' \in {"play", "supply"}
  BY <1>5, <1>6, BecomeInOrder
<1>7. CASE EndHand(b, l) /\ phase' = "end"
  BY <1>2, <1>3, <1>5, <1>7, EndHandInOrder
<1> QED
  BY <1>4, <1>6, <1>7

(* A hand starts with nothing settled.                                          *)
LEMMA NothingSettled ==
  ASSUME NEW c \in Coins
  PROVE  InOrder([coin |-> c, offset |-> None, taken |-> 0, settles |-> <<>>, cut |-> FALSE])
<1> DEFINE b == [coin |-> c, offset |-> None, taken |-> 0, settles |-> <<>>, cut |-> FALSE]
<1>1. <<>> \in Seq(Settle) /\ Len(<<>>) = 0 /\ None \in [Seats -> Int]
  BY DEF None
<1>2. b \in Books
  BY <1>1 DEF Books, Coins
<1>3. b.offset = None /\ b.taken = 0 /\ b.settles = <<>>
  OBVIOUS
<1> HIDE DEF b
<1>4. Sum(b.offset) + b.taken = 0
  BY <1>3, FourSeats DEF Sum, None
<1>5. AllFair(b.settles) /\ WinsPaid(b.settles)
  BY <1>1, <1>3 DEF AllFair, WinsPaid
<1>6. \A q \in Seats : b.offset[q] = Billed(b.settles)[q]
  BY <1>3, BilledNone
<1>7. InOrder(b)
  BY <1>2, <1>4, <1>5, <1>6 DEF InOrder
<1> QED
  BY <1>7 DEF b

LEMMA InitInv == Init => Inv
<1> SUFFICES ASSUME Init
             PROVE  Inv
  OBVIOUS
<1>1. coin \in Coins
  BY SettleAssumption DEF Init, Coins
<1>2. Now = [coin |-> coin, offset |-> None, taken |-> 0, settles |-> <<>>, cut |-> FALSE]
  BY DEF Init, Now
<1>3. InOrder(Now)
  BY <1>1, <1>2, NothingSettled
<1> QED
  BY <1>3 DEF Init, Inv

LEMMA NextInv == Inv /\ [Next]_vars => Inv'
<1> SUFFICES ASSUME Inv, [Next]_vars
             PROVE  Inv'
  OBVIOUS
<1>1. BaseBet \in Nat /\ 2 * BaseBet \in Nat
  BY SettleAssumption
<1>2. coin \in Coins /\ hu \in SUBSET Seats /\ lost \in SUBSET Seats
  BY DEF Inv, InOrder, Now, Books, Coins
<1>3. ASSUME NEW i \in Active(lost), NEW v \in Active(lost) \ {i}, MingGang(i, v)
      PROVE  Inv'
  <2>1. i \in Seats /\ {v} \in SUBSET (Seats \ {i}) /\ "MingGang" \in Kongs
    BY <1>3, ActiveType DEF Kongs
  <2>2. Kong(i, "MingGang", {v}, 2 * BaseBet)
    BY <1>3 DEF MingGang
  <2> QED
    BY <1>1, <2>1, <2>2, KongInOrder
<1>4. ASSUME NEW i \in Active(lost), AnGang(i) \/ BuGang(i)
      PROVE  Inv'
  <2>1. /\ i \in Seats /\ Active(lost) \ {i} \in SUBSET (Seats \ {i})
        /\ "AnGang" \in Kongs /\ "BuGang" \in Kongs
    BY ActiveType DEF Kongs
  <2>2. CASE AnGang(i)
    <3>1. Kong(i, "AnGang", Active(lost) \ {i}, 2 * BaseBet)
      BY <2>2 DEF AnGang
    <3> QED
      BY <1>1, <2>1, <3>1, KongInOrder
  <2>3. CASE BuGang(i)
    <3>1. Kong(i, "BuGang", Active(lost) \ {i}, BaseBet)
      BY <2>3 DEF BuGang
    <3> QED
      BY <1>1, <2>1, <3>1, KongInOrder
  <2> QED
    BY <1>4, <2>2, <2>3
<1>5. ASSUME NEW i \in Active(lost), NEW h \in Hands, NEW g \in BOOLEAN, ZiMo(i, h, g)
      PROVE  Inv'
  BY <1>5, ZiMoInOrder
<1>6. ASSUME NEW i \in Active(lost), NEW q \in WinnerLists(i), NEW g \in BOOLEAN,
             NEW hands \in [{q[n] : n \in DOMAIN q} -> Hands], DianPao(q, i, hands, g)
      PROVE  Inv'
  BY <1>6, DianPaoInOrder
<1>7. ASSUME NEW q \in Seats, AddCoin(q)
      PROVE  Inv'
  <2>1. [coin EXCEPT ![q] = @ + BuyCoins] \in Coins
    BY <1>2, SettleAssumption DEF Coins
  <2>2. Supplied([coin EXCEPT ![q] = @ + BuyCoins], lost) /\ UNCHANGED <<hu, lost>>
    BY <1>7 DEF AddCoin
  <2>3. InOrder(Now') /\ phase' \in {"play", "supply", "end"}
    BY <1>2, <2>1, <2>2, SuppliedInOrder
  <2> QED
    BY <1>2, <2>2, <2>3 DEF Inv, InOrder, Now
<1>8. ASSUME NEW S \in SUBSET Seats, DecideLose(S)
      PROVE  Inv'
  <2>1. lost' = lost \cup S /\ hu' = hu \ S /\ Supplied(coin, lost')
    BY <1>8 DEF DecideLose
  <2>2. lost' \in SUBSET Seats /\ hu' \in SUBSET Seats
    BY <1>2, <2>1
  <2>3. InOrder(Now') /\ phase' \in {"play", "supply", "end"}
    BY <1>2, <2>1, <2>2, SuppliedInOrder
  <2> QED
    BY <2>2, <2>3 DEF Inv, InOrder, Now
<1>9. CASE GameEnd
  <2>1. EndHand(Now, lost) /\ phase' = "end" /\ UNCHANGED <<hu, lost>>
    BY <1>9 DEF GameEnd
  <2>2. InOrder(Now) /\ Now.settles = settles
    BY DEF Inv, Now
  <2>3. InOrder(Now')
    BY <1>2, <2>1, <2>2, EndHandInOrder
  <2> QED
    BY <1>2, <2>1, <2>3 DEF Inv, InOrder, Now
<1>10. CASE NewHand
  <2>1. coin' \in Coins
    BY <1>10, SettleAssumption DEF NewHand, Coins
  <2>2. Now' = [coin |-> coin', offset |-> None, taken |-> 0, settles |-> <<>>, cut |-> FALSE]
    BY <1>10 DEF NewHand, Now
  <2>3. InOrder(Now')
    BY <2>1, <2>2, NothingSettled
  <2> QED
    BY <1>10, <2>3 DEF NewHand, Inv, InOrder, Now
<1>11. CASE UNCHANGED vars
  BY <1>11 DEF vars, Inv, InOrder, Now
<1>12. Awaited(coin, lost) \in SUBSET Seats /\ \A q \in Awaited(coin, lost) : {q} \in SUBSET Seats
  BY DEF Awaited, Out
<1> QED
  BY <1>3, <1>4, <1>5, <1>6, <1>7, <1>8, <1>9, <1>10, <1>11, <1>12 DEF Next

-----------------------------------------------------------------------------
(* What XLMJRoom sees of a settlement *)

LEMMA TableSeats ==
  /\ Table!Seats = Seats
  /\ Table!Active(Status) = Active(lost)
<1>1. Table!Seats = Seats
  BY DEF Table!Seats, Seats
<1>2. \A q \in Seats : /\ Status[q] # "DecideLose" <=> q \notin lost
                       /\ q \notin lost => (Status[q] # "AlreadyHu" <=> q \notin hu)
  BY DEF Status
<1>3. Table!Active(Status) = Active(lost)
  BY <1>1, <1>2 DEF Table!Active, Active
<1> QED
  BY <1>1, <1>3

(* Those who pay a player may be broke then, and nobody else.                   *)
LEMMA CollectedTable ==
  ASSUME Inv, MayAct, NEW g \in Active(lost), NEW payers \in SUBSET (Active(lost) \ {g}),
         NEW due \in Nat, NEW s, Become(Settled(Pay(coin, OwedBy(payers, g, due)), s))
  PROVE  Table!Pay(payers, g)
<1> DEFINE pay  == Pay(coin, OwedBy(payers, g, due))
           part == PartOf(pay, g)
<1>1. coin \in Coins /\ Now \in Books /\ Now.coin = coin
  BY DEF Inv, InOrder, Now, Books, Coins
<1>2. g \in Seats /\ payers \in SUBSET (Seats \ {g})
  BY ActiveType
<1>3. /\ pay \in Payments /\ Affordable(pay, coin) /\ part \in Coins
      /\ \A q \in Seats : Net(pay, q) = IF q = g THEN Sum(part) ELSE -part[q]
      /\ \A q \in Seats \ payers : part[q] = 0
  <2>1. Collected(coin, g, payers, due)
    BY <1>1, <1>2, CollectProperties
  <2>2. pay = Pay(coin, OwedBy(payers, g, due)) /\ part = PartOf(pay, g)
    OBVIOUS
  <2> HIDE DEF pay, part
  <2> QED
    BY <2>1, <2>2 DEF Collected
<1>4. coin' = [q \in Seats |-> coin[q] + Net(pay, q)]
  <2>0. Become(Settled(pay, s))
    OBVIOUS
  <2> HIDE DEF pay, part
  <2>1. /\ Paid(Now, pay) \in Books
        /\ Paid(Now, pay).coin = [q \in Seats |-> coin[q] + Net(pay, q)]
    <3>1. Affordable(pay, Now.coin)
      BY <1>1, <1>3
    <3>2. /\ Paid(Now, pay) \in Books
          /\ Paid(Now, pay).coin = [q \in Seats |-> Now.coin[q] + Net(pay, q)]
      BY <1>1, <1>3, <3>1, PaidProperties
    <3>3. \A q \in Seats : Now.coin[q] + Net(pay, q) = coin[q] + Net(pay, q)
      BY <1>1
    <3> QED
      BY <3>2, <3>3
  <2>2. coin' = Settled(pay, s).coin
    BY <2>0 DEF Become
  <2>3. Settled(pay, s).coin = Paid(Now, pay).coin
    BY <2>1 DEF Settled, Books
  <2> QED
    BY <2>1, <2>2, <2>3
<1> HIDE DEF pay, part
<1>5. \A q \in payers \cup {g} : coin[q] \in Nat \ {0} /\ q \notin Out(coin)
  <2>1. \A q \in Active(lost) : coin[q] \in Nat \ {0}
    BY ActiveHaveCoins DEF Inv
  <2> QED
    BY <2>1 DEF Out
<1> DEFINE ruined == {q \in payers : coin'[q] <= 0}
<1>6. \A q \in Seats : q \in Out(coin)' <=> q \in Out(coin) \/ q \in ruined
  <2> SUFFICES ASSUME NEW q \in Seats
               PROVE  coin'[q] <= 0 <=> coin[q] <= 0 \/ q \in ruined
    BY DEF Out
  <2>1. coin[q] \in Nat /\ part[q] \in Nat /\ Sum(part) \in Nat
    BY <1>1, <1>3, SumType DEF Coins
  <2>2. CASE q = g
    <3>1. coin'[q] = coin[q] + Sum(part) /\ coin[q] # 0 /\ q \notin payers
      BY <1>2, <1>3, <1>4, <1>5, <2>2
    <3> QED
      BY <2>1, <3>1
  <2>3. CASE q \in payers
    <3>1. coin[q] # 0
      BY <1>5, <2>3
    <3> QED
      BY <2>1, <2>3, <3>1
  <2>4. CASE q # g /\ q \notin payers
    <3>1. coin'[q] = coin[q] + (-part[q]) /\ part[q] = 0
      BY <1>3, <1>4, <2>4
    <3> QED
      BY <2>1, <2>4, <3>1
  <2> QED
    BY <2>2, <2>3, <2>4
<1>7. ruined \in SUBSET (payers \ Out(coin))
  BY <1>5
<1>8. Out(coin)' = (IF payers \subseteq Out(coin) THEN Out(coin) ELSE Out(coin) \ {g}) \cup ruined
  <2>1. Out(coin)' \subseteq Seats /\ Out(coin) \subseteq Seats /\ ruined \subseteq Seats
    BY <1>2 DEF Out
  <2>2. g \notin Out(coin)
    BY <1>5
  <2> HIDE DEF ruined
  <2> QED
    BY <1>6, <2>1, <2>2
<1> HIDE DEF ruined
<1> QED
  BY <1>7, <1>8 DEF Table!Pay

LEMMA SettledBooks ==
  ASSUME InOrder(Now), NEW pay \in Payments, Affordable(pay, coin), NEW s, Become(Settled(pay, s))
  PROVE  /\ coin' = [q \in Seats |-> coin[q] + Net(pay, q)]
         /\ settles' = Append(settles, s)
<1>1. Now \in Books /\ Now.coin = coin /\ Now.settles = settles
  BY DEF InOrder, Now
<1>2. Affordable(pay, Now.coin)
  BY <1>1
<1>3. /\ Paid(Now, pay) \in Books
      /\ Paid(Now, pay).coin = [q \in Seats |-> Now.coin[q] + Net(pay, q)]
      /\ Paid(Now, pay).settles = settles
  BY <1>1, <1>2, PaidProperties
<1>4. \A q \in Seats : Now.coin[q] + Net(pay, q) = coin[q] + Net(pay, q)
  BY <1>1
<1>5. Settled(pay, s).coin = Paid(Now, pay).coin /\ Settled(pay, s).settles = Append(settles, s)
  BY <1>3 DEF Settled, Books
<1> QED
  BY <1>3, <1>4, <1>5 DEF Become

(* Those who are paid win, the first of the list, and if there are others the   *)
(* payer is broke.                                                              *)
LEMMA WinnersTable ==
  ASSUME Inv, MayAct, NEW v \in Active(lost), NEW q, NEW n, NEW won, NEW paid, NEW s,
         WonBy(v, q, n, won, paid),
         Become(Settled([Nothing EXCEPT ![v] = paid], s)),
         hu' = hu \cup {q[m] : m \in won}, lost' = lost
  PROVE  Table!PayWinners(q, v)
<1> DEFINE pay     == [Nothing EXCEPT ![v] = paid]
           winners == {q[m] : m \in won}
<1>1. InOrder(Now) /\ coin \in Coins
  BY DEF Inv, InOrder, Now, Books, Coins
<1>2. v \in Seats /\ Active(lost) \in SUBSET Seats
  BY ActiveType
<1>3. /\ n \in 1..3 /\ q \in [1..n -> Active(lost) \ {v}] /\ won \in SUBSET (1..n)
      /\ 1 \in won /\ \A m \in won : \A k \in 1..m : k \in won
  BY DEF WonBy
<1>4. /\ paid \in Coins /\ paid[v] = 0 /\ Sum(paid) <= coin[v]
      /\ \A i \in Seats : i \notin winners => paid[i] = 0
      /\ (\E m \in 1..n : m \notin won) => Sum(paid) = coin[v]
  BY DEF WonBy
<1>5. PICK k \in 1..n : won = 1..k
  <2>1. 1..1 = {1} /\ 1..2 = {1, 2} /\ 1..3 = {1, 2, 3}
    OBVIOUS
  <2>2. won \subseteq {1, 2, 3} /\ 1 \in won /\ (3 \in won => 2 \in won)
        /\ \A m \in won : m \in 1..n
    <3>1. 1..n \subseteq 1..3
      BY <1>3
    <3>2. 3 \in won => 2 \in 1..3
      OBVIOUS
    <3> QED
      BY <1>3, <2>1, <3>1, <3>2
  <2>3. CASE 3 \in won
    <3>1. won = 1..3 /\ 3 \in 1..n
      BY <2>1, <2>2, <2>3
    <3> QED
      BY <3>1
  <2>4. CASE 3 \notin won /\ 2 \in won
    <3>1. won = 1..2 /\ 2 \in 1..n
      BY <2>1, <2>2, <2>4
    <3> QED
      BY <3>1
  <2>5. CASE 3 \notin won /\ 2 \notin won
    <3>1. won = 1..1 /\ 1 \in 1..n
      BY <2>1, <2>2, <2>5
    <3> QED
      BY <3>1
  <2> QED
    BY <2>3, <2>4, <2>5
<1>6. \A i \in Active(lost) : coin[i] \in Nat \ {0} /\ i \notin Out(coin) /\ i \notin lost
  BY <1>1, ActiveHaveCoins DEF Out, Active
<1>7. winners = {q[m] : m \in 1..k} /\ winners \subseteq Active(lost) \ {v}
  BY <1>3, <1>5
<1>8. /\ pay \in Payments
      /\ \A i \in Seats : /\ Sum(pay[i]) = (IF i = v THEN Sum(paid) ELSE 0)
                          /\ Net(pay, i) = paid[i] - (IF i = v THEN Sum(paid) ELSE 0)
  BY <1>2, <1>4, OnePayer
<1>9. Become(Settled(pay, s))
  OBVIOUS
<1> HIDE DEF pay
<1>10. Affordable(pay, coin)
  <2> SUFFICES ASSUME NEW i \in Seats
               PROVE  Sum(pay[i]) <= coin[i]
    BY DEF Affordable
  <2>1. coin[i] \in Nat
    BY <1>1 DEF Coins
  <2> QED
    BY <1>4, <1>8, <2>1
<1>11. \A i \in Seats : coin'[i] = coin[i] + Net(pay, i)
  BY <1>1, <1>8, <1>9, <1>10, SettledBooks
<1>12. Sum(paid) \in Nat /\ coin[v] \in Nat \ {0}
  BY <1>4, <1>6, SumType
<1>13. coin'[v] = coin[v] - Sum(paid)
  BY <1>2, <1>4, <1>8, <1>11, <1>12
<1>14. \A i \in Seats : i # v => coin'[i] = coin[i] + paid[i] /\ coin[i] \in Nat /\ paid[i] \in Nat
  <2> SUFFICES ASSUME NEW i \in Seats, i # v
               PROVE  coin'[i] = coin[i] + paid[i] /\ coin[i] \in Nat /\ paid[i] \in Nat
    OBVIOUS
  <2>1. coin[i] \in Nat /\ paid[i] \in Nat
    BY <1>1, <1>4 DEF Coins
  <2>2. Net(pay, i) = paid[i] - 0
    BY <1>8
  <2> QED
    BY <1>11, <2>1, <2>2
<1> HIDE DEF winners
<1>15. \A i \in Seats : i # v => (coin'[i] <= 0 <=> coin[i] <= 0)
  <2> SUFFICES ASSUME NEW i \in Seats, i # v
               PROVE  coin'[i] <= 0 <=> coin[i] <= 0
    OBVIOUS
  <2>1. i \notin winners => paid[i] = 0
    BY <1>4
  <2>2. i \in winners => coin[i] \in Nat \ {0}
    BY <1>6, <1>7
  <2> QED
    BY <1>14, <2>1, <2>2
<1>16. Out(coin)' = (Out(coin) \ winners) \cup (IF coin'[v] <= 0 THEN {v} ELSE {})
  <2>1. \A i \in Seats : i \in Out(coin)' <=> coin'[i] <= 0
    BY DEF Out
  <2>2. \A i \in Seats : i \in Out(coin) <=> coin[i] <= 0
    BY DEF Out
  <2>3. v \notin Out(coin) /\ Out(coin) \cap winners = {}
    BY <1>6, <1>7
  <2>4. Out(coin)' \subseteq Seats /\ Out(coin) \subseteq Seats
    BY DEF Out
  <2> QED
    BY <1>2, <1>15, <2>1, <2>2, <2>3, <2>4
<1>17. k < Len(q) => coin'[v] <= 0
  <2> SUFFICES ASSUME k < Len(q)
               PROVE  coin'[v] <= 0
    OBVIOUS
  <2>1. Len(q) = n
    BY <1>3
  <2>2. k + 1 \in 1..n /\ k + 1 \notin won
    BY <1>3, <1>5, <2>1
  <2>3. Sum(paid) = coin[v]
    BY <1>4, <2>2
  <2> QED
    BY <1>12, <1>13, <2>3
<1>18. Status' = [i \in Seats |-> IF i \in winners THEN "AlreadyHu" ELSE Status[i]]
  <2>1. Status' = [i \in Seats |-> IF i \in lost' THEN "DecideLose"
                                   ELSE IF i \in hu' THEN "AlreadyHu" ELSE "CanAct"]
    BY DEF Status
  <2>2. Status = [i \in Seats |-> IF i \in lost THEN "DecideLose"
                                  ELSE IF i \in hu THEN "AlreadyHu" ELSE "CanAct"]
    BY DEF Status
  <2>3. hu' = hu \cup winners /\ lost' = lost /\ winners \cap lost = {}
    BY <1>6, <1>7 DEF winners
  <2> HIDE DEF Status
  <2> QED
    BY <2>1, <2>2, <2>3
<1>19. Len(q) = n /\ k \in 1..Len(q) /\ v \notin Out(coin)
  BY <1>3, <1>5, <1>6
<1> DEFINE ruined == coin'[v] <= 0
<1>20. ruined \in BOOLEAN /\ (ruined <=> coin'[v] <= 0)
  BY <1>12, <1>13
<1> HIDE DEF ruined
<1> QED
  BY <1>7, <1>16, <1>17, <1>18, <1>19, <1>20, TableSeats DEF Table!PayWinners

(* At the end of a hand those who have left the game keep what they have.       *)
LEMMA EndTable ==
  ASSUME NEW b, InOrder(b), b.settles = settles, lost' \in SUBSET Seats, EndHand(b, lost'),
         \A q \in lost' : b.coin[q] = coin[q]
  PROVE  Out(coin') \in Table!Settled(Out(coin), Status')
<1>1. PICK r : Ends(b, r) /\ Keeps(b, r, lost') /\ Become(r)
  BY EndHandEnds DEF InOrder
<1>2. \A q \in Seats : q \in lost' => coin'[q] = coin[q]
  BY <1>1 DEF Keeps, Become
<1>3. \A q \in Seats : q \in lost' => (q \in Out(coin') <=> q \in Out(coin))
  BY <1>2 DEF Out
<1>4. \A q \in Seats : Status'[q] = "DecideLose" => q \in lost'
  BY DEF Status
<1>5. Out(coin') \in SUBSET Seats
  BY DEF Out
<1> QED
  BY <1>3, <1>4, <1>5, TableSeats DEF Table!Settled

(* Waiting for coins settles nothing, unless the hand ends.                     *)
LEMMA SuppliedTable ==
  ASSUME Inv, NEW c \in Coins, lost' \in SUBSET Seats, Supplied(c, lost'),
         Awaited(c, lost') = {} => \A q \in lost' : c[q] = coin[q]
  PROVE  TableStep
<1> DEFINE b == [Now EXCEPT !.coin = c]
<1>1. InOrder(Now) /\ Now.settles = settles
  BY DEF Inv, Now
<1>2. /\ b \in Books /\ b.offset = Now.offset /\ b.taken = Now.taken /\ b.coin = c
      /\ b.settles = Now.settles /\ b.cut = Now.cut
  BY <1>1 DEF InOrder, Books, Coins
<1>3. \/ Become(b) /\ phase' \in {"play", "supply"}
      \/ Awaited(c, lost') = {} /\ EndHand(b, lost') /\ phase' = "end"
  BY DEF Supplied
<1> HIDE DEF b
<1>4. InOrder(b)
  BY <1>1, <1>2 DEF InOrder
<1>5. CASE Become(b) /\ phase' \in {"play", "supply"}
  <2>1. settles' = settles /\ Len(settles) \in Nat /\ phase' # "end"
    BY <1>1, <1>2, <1>5 DEF Become, InOrder, AllFair
  <2> QED
    BY <2>1 DEF TableStep
<1>6. CASE Awaited(c, lost') = {} /\ EndHand(b, lost') /\ phase' = "end"
  <2>1. Out(coin') \in Table!Settled(Out(coin), Status')
    BY <1>1, <1>2, <1>4, <1>6, EndTable
  <2> QED
    BY <1>6, <2>1 DEF TableStep
<1> QED
  BY <1>3, <1>5, <1>6

(* A settlement in the middle of a hand is the last on the list.                *)
LEMMA LastSettled ==
  ASSUME InOrder(Now), NEW pay \in Payments, Affordable(pay, coin), NEW s, Become(Settled(pay, s))
  PROVE  Last(settles') = s
<1>1. settles \in Seq(Settle) /\ settles' = Append(settles, s)
  BY SettledBooks DEF InOrder, Now, AllFair
<1>2. Len(settles') = Len(settles) + 1 /\ settles'[Len(settles) + 1] = s
  BY <1>1
<1> QED
  BY <1>2 DEF Last

\* What players pay for the win or the kong of one of them
LEMMA CollectedStep ==
  ASSUME Inv, MayAct, NEW g \in Active(lost), NEW payers \in SUBSET (Active(lost) \ {g}),
         NEW due \in Nat, NEW s, Become(Settled(Pay(coin, OwedBy(payers, g, due)), s)),
         phase' # "end", s.idx = g, s.among = payers, s.kind \in Kongs \cup {"ZiMo"},
         s.kind # "MingGang" => payers = Active(lost) \ {g}
  PROVE  TableStep
<1>1. Table!Pay(payers, g)
  BY CollectedTable
<1>2. Last(settles') = s
  <2>1. coin \in Coins /\ InOrder(Now)
    BY DEF Inv, InOrder, Now, Books, Coins
  <2>2. g \in Seats /\ payers \in SUBSET (Seats \ {g})
    BY ActiveType
  <2>3. Collected(coin, g, payers, due)
    BY <2>1, <2>2, CollectProperties
  <2> DEFINE pay == Pay(coin, OwedBy(payers, g, due))
  <2>4. pay \in Payments /\ Affordable(pay, coin)
    BY <2>3 DEF Collected
  <2>5. Become(Settled(pay, s))
    OBVIOUS
  <2> HIDE DEF pay
  <2> QED
    BY <2>1, <2>4, <2>5, LastSettled
<1>3. s.kind # "MingGang" => Table!Active(Status) \ {g} = payers
  BY TableSeats
<1>4. s.kind # "DianPao"
  BY DEF Kongs
<1> QED
  BY <1>1, <1>2, <1>3, <1>4 DEF TableStep

LEMMA DianPaoStep ==
  ASSUME Inv, NEW v \in Active(lost), NEW q \in WinnerLists(v),
         NEW hands \in [{q[n] : n \in DOMAIN q} -> Hands], NEW gangHu \in BOOLEAN,
         DianPao(q, v, hands, gangHu)
  PROVE  TableStep
<1>1. PICK n, won, paid, s :
        /\ WonBy(v, q, n, won, paid) /\ MayAct /\ s.kind = "DianPao" /\ s.idx = v
        /\ InOrder(Settled([Nothing EXCEPT ![v] = paid], s))
        /\ Become(Settled([Nothing EXCEPT ![v] = paid], s))
        /\ phase' = "won" /\ hu' = hu \cup {q[m] : m \in won} /\ lost' = lost
  BY DianPaoPays
<1>2. Table!PayWinners(q, v)
  BY <1>1, WinnersTable
<1> DEFINE pay == [Nothing EXCEPT ![v] = paid]
<1>3. v \in Seats /\ paid \in Coins /\ Sum(paid) <= coin[v]
  BY <1>1, ActiveType DEF WonBy
<1>4. InOrder(Now) /\ coin \in Coins
  BY DEF Inv, InOrder, Now, Books, Coins
<1>5. /\ pay \in Payments
      /\ \A i \in Seats : Sum(pay[i]) = (IF i = v THEN Sum(paid) ELSE 0)
  BY <1>3, OnePayer
<1>6. Become(Settled(pay, s))
  BY <1>1
<1> HIDE DEF pay
<1>7. Affordable(pay, coin)
  <2> SUFFICES ASSUME NEW i \in Seats
               PROVE  Sum(pay[i]) <= coin[i]
    BY DEF Affordable
  <2>1. coin[i] \in Nat
    BY <1>4 DEF Coins
  <2> QED
    BY <1>3, <1>5, <2>1
<1>8. Last(settles') = s
  BY <1>4, <1>5, <1>6, <1>7, LastSettled
<1> QED
  BY <1>1, <1>2, <1>8 DEF TableStep

LEMMA NextTable == Inv /\ [Next]_vars => [TableStep]_vars
<1> SUFFICES ASSUME Inv, Next
             PROVE  TableStep
  OBVIOUS
<1>1. BaseBet \in Nat /\ 2 * BaseBet \in Nat
  BY SettleAssumption
<1>2. /\ InOrder(Now) /\ Now.settles = settles /\ Now.coin = coin
      /\ coin \in Coins /\ lost \in SUBSET Seats
  BY DEF Inv, InOrder, Now, Books, Coins
<1>3. ASSUME NEW g \in Active(lost), NEW kind \in Kongs, NEW payers \in SUBSET (Active(lost) \ {g}),
             NEW due \in Nat, MayAct, Kong(g, kind, payers, due),
             kind # "MingGang" => payers = Active(lost) \ {g}
      PROVE  TableStep
  <2> DEFINE pay == Pay(coin, OwedBy(payers, g, due))
             s   == [kind |-> kind, idx |-> g, among |-> payers, void |-> {},
                     part |-> [q \in Seats |-> pay[q][g]]]
  <2>1. Become(Settled(pay, s)) /\ phase' \in {"play", "supply"}
    BY <1>3 DEF Kong
  <2>2. s.idx = g /\ s.among = payers /\ s.kind = kind
    OBVIOUS
  <2> HIDE DEF s
  <2> QED
    BY <1>3, <2>1, <2>2, CollectedStep
<1>4. ASSUME NEW i \in Active(lost), NEW v \in Active(lost) \ {i}, MingGang(i, v)
      PROVE  TableStep
  <2>1. {v} \in SUBSET (Active(lost) \ {i}) /\ "MingGang" \in Kongs
    BY DEF Kongs
  <2>2. Kong(i, "MingGang", {v}, 2 * BaseBet) /\ MayAct
    BY <1>4 DEF MingGang
  <2> QED
    BY <1>1, <1>3, <2>1, <2>2
<1>5. ASSUME NEW i \in Active(lost), AnGang(i) \/ BuGang(i)
      PROVE  TableStep
  <2>1. "AnGang" \in Kongs /\ "BuGang" \in Kongs
    BY DEF Kongs
  <2>2. CASE AnGang(i)
    <3>1. Kong(i, "AnGang", Active(lost) \ {i}, 2 * BaseBet) /\ MayAct
      BY <2>2 DEF AnGang
    <3> QED
      BY <1>1, <1>3, <2>1, <3>1
  <2>3. CASE BuGang(i)
    <3>1. Kong(i, "BuGang", Active(lost) \ {i}, BaseBet) /\ MayAct
      BY <2>3 DEF BuGang
    <3> QED
      BY <1>1, <1>3, <2>1, <3>1
  <2> QED
    BY <1>5, <2>2, <2>3
<1>6. ASSUME NEW i \in Active(lost), NEW h \in Hands, NEW g \in BOOLEAN, ZiMo(i, h, g)
      PROVE  TableStep
  <2> DEFINE fan    == HuFan(h, g, TRUE)
             due    == BaseBet * BeiShu(fan)
             losers == Active(lost) \ {i}
             pay    == Pay(coin, OwedBy(losers, i, due))
             s      == [kind |-> "ZiMo", idx |-> i, among |-> losers,
                        part |-> [q \in Seats |-> pay[q][i]],
                        void |-> IF fan >= 8 THEN losers ELSE {}]
  <2>1. MayAct /\ Become(Settled(pay, s)) /\ phase' = "won"
    BY <1>6 DEF ZiMo, MayWin
  <2>2. s.idx = i /\ s.among = losers /\ s.kind \in Kongs \cup {"ZiMo"}
    OBVIOUS
  <2>3. due \in Nat
    BY DueProperties
  <2> HIDE DEF s, due
  <2> QED
    BY <2>1, <2>2, <2>3, CollectedStep
<1>7. ASSUME NEW i \in Active(lost), NEW q \in WinnerLists(i), NEW g \in BOOLEAN,
             NEW hands \in [{q[n] : n \in DOMAIN q} -> Hands], DianPao(q, i, hands, g)
      PROVE  TableStep
  BY <1>7, DianPaoStep
<1>8. ASSUME NEW q \in Seats, AddCoin(q)
      PROVE  TableStep
  <2> DEFINE c == [coin EXCEPT ![q] = @ + BuyCoins]
  <2>1. c \in Coins /\ \A p \in Seats : p # q => c[p] = coin[p]
    BY <1>2, SettleAssumption DEF Coins
  <2>2. Supplied(c, lost) /\ lost' = lost /\ Awaited(coin, lost) # {}
    BY <1>8 DEF AddCoin, MayBuy
  <2> HIDE DEF c
  <2>3. ASSUME Awaited(c, lost) = {}
        PROVE  \A p \in lost : c[p] = coin[p]
    <3>1. q \notin lost
      <4> SUFFICES ASSUME q \in lost
                   PROVE  FALSE
        OBVIOUS
      <4>1. PICK p \in Seats : coin[p] <= 0 /\ p \notin lost
        BY <2>2 DEF Awaited, Out
      <4>2. c[p] <= 0
        BY <2>1, <4>1
      <4> QED
        BY <2>3, <4>1, <4>2 DEF Awaited, Out
    <3> QED
      BY <1>2, <2>1, <3>1
  <2> QED
    BY <1>2, <2>1, <2>2, <2>3, SuppliedTable
<1>9. ASSUME NEW S \in SUBSET Seats, DecideLose(S)
      PROVE  TableStep
  <2>1. lost' = lost \cup S /\ Supplied(coin, lost')
    BY <1>9 DEF DecideLose
  <2>2. lost' \in SUBSET Seats
    BY <1>2, <2>1
  <2> QED
    BY <1>2, <2>1, <2>2, SuppliedTable
<1>10. CASE GameEnd
  <2>1. EndHand(Now, lost) /\ phase' = "end" /\ lost' = lost
    BY <1>10 DEF GameEnd
  <2>2. Out(coin') \in Table!Settled(Out(coin), Status')
    BY <1>2, <2>1, EndTable
  <2> QED
    BY <2>1, <2>2 DEF TableStep
<1>11. CASE NewHand
  <2>1. settles' = <<>> /\ phase' = "play"
    BY <1>11 DEF NewHand
  <2>2. Len(settles) \in Nat /\ Len(settles') = 0
    BY <1>2, <2>1 DEF InOrder, AllFair
  <2> QED
    BY <2>1, <2>2 DEF TableStep
<1>12. Awaited(coin, lost) \in SUBSET Seats /\ \A q \in Awaited(coin, lost) : {q} \in SUBSET Seats
  BY DEF Awaited, Out
<1> QED
  BY <1>4, <1>5, <1>6, <1>7, <1>8, <1>9, <1>10, <1>11, <1>12 DEF Next

-----------------------------------------------------------------------------

(* The books of a table are in order in every state of every hand.              *)
THEOREM InvCorrect == Spec => []Inv
<1>1. Init => Inv
  BY InitInv
<1>2. Inv /\ [Next]_vars => Inv'
  BY NextInv
<1> QED
  BY <1>1, <1>2, PTL DEF Spec

(* Whatever kongs, wins and ends of hands are settled in whatever order, the     *)
(* coins won and lost at a table of four come to nothing and nobody is left      *)
(* owing.                                                                        *)
THEOREM BooksBalanceCorrect == Spec => []BooksBalance
<1>1. Inv => BooksBalance
  BY DEF Inv, InOrder, Now, Books, BooksBalance
<1> QED
  BY <1>1, InvCorrect, PTL

(* The bills of a hand explain what each player has won or lost; of hands in     *)
(* which the refund of a kong was cut short (`cut') nothing is claimed.          *)
THEOREM BillsAddUpCorrect == Spec => []BillsAddUp
<1>1. Inv => BillsAddUp
  <2> SUFFICES ASSUME Inv, ~cut
               PROVE  Billed(settles) = offset
    BY DEF BillsAddUp
  <2>1. /\ offset \in [Seats -> Int] /\ settles \in Seq(Settle)
        /\ \A q \in Seats : offset[q] = Billed(settles)[q]
    BY DEF Inv, InOrder, Now, Books
  <2>2. Billed(settles) \in [Seats -> Int]
    BY <2>1, BilledType DEF Inv, InOrder, Now, AllFair
  <2> QED
    BY <2>1, <2>2
<1> QED
  BY <1>1, InvCorrect, PTL

(* No win is recorded without a payment but those of eight fan or more.          *)
THEOREM VoidOnlyFromEightFanCorrect == Spec => []VoidOnlyFromEightFan
<1>1. Inv => VoidOnlyFromEightFan
  BY DEF Inv, InOrder, Now, AllFair, WinsPaid, VoidOnlyFromEightFan
<1> QED
  BY <1>1, InvCorrect, PTL

(* Whatever a kong, a win or the end of a hand does to the coins is among the    *)
(* things that XLMJRoom lets it do: the two modules fit each other.              *)
THEOREM TableCoinsCorrect == Spec => TableCoins
<1>1. Inv /\ [Next]_vars => [TableStep]_vars
  BY NextTable
<1> QED
  BY <1>1, InvCorrect, PTL DEF Spec, TableCoins
=============================================================================
