-------------------------- MODULE PlayerCoins_proofs --------------------------
(***************************************************************************)
(* A proof that the coins of module PlayerCoins are those the player is    *)
(* due, however the messages of the two processes cross.                   *)
(***************************************************************************)
EXTENDS PlayerCoins, TLAPS, SequenceTheorems

-----------------------------------------------------------------------------
(* Messages under way *)

Msgs(s) == {s[i] : i \in 1..Len(s)}

(* What becomes of a sequence of messages when one is sent, the first is heard, *)
(* or the k-th is lost.                                                         *)
LEMMA SentIs ==
  ASSUME NEW S, NEW s \in Seq(S), NEW m \in S
  PROVE  /\ Append(s, m) \in Seq(S) /\ Len(Append(s, m)) = Len(s) + 1
         /\ Append(s, m)[Len(s) + 1] = m
         /\ \A i \in 1..Len(s) : Append(s, m)[i] = s[i]
         /\ Msgs(Append(s, m)) = Msgs(s) \cup {m}
<1>1. /\ Append(s, m) \in Seq(S) /\ Len(Append(s, m)) = Len(s) + 1
      /\ Append(s, m)[Len(s) + 1] = m
      /\ \A i \in 1..Len(s) : Append(s, m)[i] = s[i]
  OBVIOUS
<1> DEFINE t == Append(s, m)
<1>2. Len(s) \in Nat
  OBVIOUS
<1> HIDE DEF t
<1>3. Msgs(t) \subseteq Msgs(s) \cup {m}
  BY <1>1, <1>2 DEF Msgs, t
<1>4. m \in Msgs(t) /\ Msgs(s) \subseteq Msgs(t)
  <2>1. Len(s) + 1 \in 1..Len(t) /\ t[Len(s) + 1] = m
    BY <1>1, <1>2 DEF t
  <2>2. \A i \in 1..Len(s) : i \in 1..Len(t) /\ t[i] = s[i]
    BY <1>1, <1>2 DEF t
  <2> QED
    BY <2>1, <2>2 DEF Msgs
<1> QED
  BY <1>1, <1>3, <1>4 DEF t

LEMMA HeardIs ==
  ASSUME NEW S, NEW s \in Seq(S), s # <<>>
  PROVE  /\ Head(s) \in S /\ Tail(s) \in Seq(S) /\ Len(s) \in Nat \ {0} /\ Len(Tail(s)) = Len(s) - 1
         /\ Head(s) = s[1]
         /\ \A i \in 1..Len(Tail(s)) : i + 1 \in 1..Len(s) /\ Tail(s)[i] = s[i + 1]
         /\ Msgs(s) = {Head(s)} \cup Msgs(Tail(s))
<1> DEFINE t == Tail(s)
<1>1. /\ Head(s) \in S /\ t \in Seq(S) /\ Len(s) \in Nat \ {0} /\ Len(t) = Len(s) - 1
      /\ Head(s) = s[1]
  OBVIOUS
<1>2. \A i \in 1..Len(t) : i + 1 \in 1..Len(s) /\ t[i] = s[i + 1]
  OBVIOUS
<1> HIDE DEF t
<1>3. Msgs(t) \subseteq Msgs(s) /\ Head(s) \in Msgs(s)
  <2>1. 1 \in 1..Len(s)
    BY <1>1
  <2> QED
    BY <1>1, <1>2, <2>1 DEF Msgs
<1>4. ASSUME NEW i \in 1..Len(s), i # 1
      PROVE  s[i] \in Msgs(t)
  <2>1. i - 1 \in 1..Len(t) /\ t[i - 1] = s[i - 1 + 1]
    BY <1>1, <1>2, <1>4
  <2> QED
    BY <2>1 DEF Msgs
<1>5. Msgs(s) = {Head(s)} \cup Msgs(t)
  BY <1>1, <1>3, <1>4 DEF Msgs
<1> QED
  BY <1>1, <1>2, <1>5 DEF t

Without(s, k) == SubSeq(s, 1, k - 1) \o SubSeq(s, k + 1, Len(s))

LEMMA LostIs ==
  ASSUME NEW S, NEW s \in Seq(S), NEW k \in 1..Len(s)
  PROVE  /\ Without(s, k) \in Seq(S) /\ Len(s) \in Nat /\ Len(Without(s, k)) = Len(s) - 1
         /\ \A i \in 1..Len(Without(s, k)) :
              /\ i \in 1..Len(s) /\ i + 1 \in 1..Len(s)
              /\ Without(s, k)[i] = IF i < k THEN s[i] ELSE s[i + 1]
         /\ Msgs(Without(s, k)) \subseteq Msgs(s) /\ Msgs(s) \subseteq Msgs(Without(s, k)) \cup {s[k]}
<1> DEFINE a == SubSeq(s, 1, k - 1)
           b == SubSeq(s, k + 1, Len(s))
           t == a \o b
<1>1. Len(s) \in Nat /\ k \in Nat /\ 1 <= k /\ k <= Len(s)
  OBVIOUS
<1>2. a \in Seq(S) /\ Len(a) = k - 1 /\ \A i \in 1..k - 1 : a[i] = s[i]
  BY <1>1
<1>3. b \in Seq(S) /\ Len(b) = Len(s) - k /\ \A i \in 1..Len(s) - k : b[i] = s[i + k]
  BY <1>1
<1> HIDE DEF a, b
<1>4. t \in Seq(S) /\ Len(t) = Len(s) - 1
  <2>1. t \in Seq(S) /\ Len(t) = Len(a) + Len(b)
    BY <1>2, <1>3, ConcatProperties
  <2> QED
    BY <1>1, <1>2, <1>3, <2>1
<1>5. ASSUME NEW i \in 1..Len(t)
      PROVE  /\ i \in 1..Len(s) /\ i + 1 \in 1..Len(s)
             /\ t[i] = IF i < k THEN s[i] ELSE s[i + 1]
  <2>1. i \in 1..Len(s) /\ i + 1 \in 1..Len(s) /\ i \in 1..Len(a) + Len(b)
    BY <1>1, <1>2, <1>3, <1>4
  <2>2. t[i] = IF i <= Len(a) THEN a[i] ELSE b[i - Len(a)]
    BY <1>2, <1>3, <2>1
  <2>3. CASE i < k
    BY <1>1, <1>2, <2>1, <2>2, <2>3
  <2>4. CASE ~(i < k)
    <3>1. i - Len(a) \in 1..Len(s) - k /\ i - Len(a) + k = i + 1
      BY <1>1, <1>2, <1>4, <2>1, <2>4
    <3>2. b[i - Len(a)] = s[i + 1]
      BY <1>3, <3>1
    <3> QED
      BY <1>1, <1>2, <2>1, <2>2, <2>4, <3>2
  <2> QED
    BY <2>3, <2>4
<1> HIDE DEF t
<1>6. Msgs(t) \subseteq Msgs(s)
  BY <1>5 DEF Msgs
<1>7. ASSUME NEW j \in 1..Len(s), j # k
      PROVE  s[j] \in Msgs(t)
  <2>1. CASE j < k
    <3>1. j \in 1..Len(t) /\ t[j] = s[j]
      BY <1>1, <1>4, <1>5, <2>1
    <3> QED
      BY <3>1 DEF Msgs
  <2>2. CASE ~(j < k)
    <3>1. j - 1 \in 1..Len(t) /\ ~(j - 1 < k) /\ j - 1 + 1 = j
      BY <1>1, <1>4, <1>7, <2>2
    <3>2. t[j - 1] = s[j]
      BY <1>5, <3>1
    <3> QED
      BY <3>1, <3>2 DEF Msgs
  <2> QED
    BY <2>1, <2>2
<1>8. Msgs(s) \subseteq Msgs(t) \cup {s[k]}
  BY <1>7 DEF Msgs
<1> QED
  BY <1>1, <1>4, <1>5, <1>6, <1>8 DEF a, b, t, Without

-----------------------------------------------------------------------------
(* The coins that messages carry *)

Worth(m) == IF m.kind \in {"add", "back"} THEN m.n ELSE 0

\* f[n] is what the first n messages carry
IsSums(f, s) ==
  /\ f \in [0..Len(s) -> Int] /\ f[0] = 0
  /\ \A n \in 1..Len(s) : Worth(s[n]) \in Int /\ f[n] = f[n - 1] + Worth(s[n])

Carries(s, x) == \E f : IsSums(f, s) /\ f[Len(s)] = x

LEMMA CarriesNothing ==
  /\ Carries(<<>>, 0)
  /\ \A x : Carries(<<>>, x) => x = 0
<1>1. Len(<<>>) = 0
  OBVIOUS
<1>2. IsSums([n \in 0..0 |-> 0], <<>>)
  BY <1>1 DEF IsSums
<1> QED
  BY <1>1, <1>2 DEF Carries, IsSums

LEMMA CarriesSent ==
  ASSUME NEW S, NEW s \in Seq(S), NEW m \in S, NEW x \in Int, Carries(s, x), Worth(m) \in Int
  PROVE  Carries(Append(s, m), x + Worth(m))
<1> DEFINE t == Append(s, m)
<1>1. /\ Len(s) \in Nat /\ Len(t) = Len(s) + 1 /\ t[Len(s) + 1] = m
      /\ \A i \in 1..Len(s) : t[i] = s[i]
  BY SentIs
<1>2. PICK f : IsSums(f, s) /\ f[Len(s)] = x
  BY DEF Carries
<1> HIDE DEF t
<1> DEFINE g == [n \in 0..Len(t) |-> IF n <= Len(s) THEN f[n] ELSE x + Worth(m)]
<1>3. \A n \in 0..Len(s) : g[n] = f[n] /\ f[n] \in Int
  <2>1. f \in [0..Len(s) -> Int]
    BY <1>2 DEF IsSums
  <2> QED
    BY <1>1, <2>1
<1>4. g[Len(t)] = x + Worth(m) /\ g[0] = 0
  BY <1>1, <1>2, <1>3 DEF IsSums
<1>5. g \in [0..Len(t) -> Int]
  <2>1. \A n \in 0..Len(t) : n \notin 0..Len(s) => n = Len(t)
    BY <1>1
  <2>2. \A n \in 0..Len(t) : g[n] \in Int
    BY <1>3, <1>4, <2>1
  <2> QED
    BY <2>2
<1>6. ASSUME NEW n \in 1..Len(t)
      PROVE  Worth(t[n]) \in Int /\ g[n] = g[n - 1] + Worth(t[n])
  <2>1. CASE n = Len(s) + 1
    <3>1. n - 1 \in 0..Len(s) /\ n - 1 = Len(s) /\ n = Len(t)
      BY <1>1, <2>1
    <3> HIDE DEF g
    <3> QED
      BY <1>1, <1>2, <1>3, <1>4, <2>1, <3>1
  <2>2. CASE n # Len(s) + 1
    <3>1. n \in 1..Len(s) /\ n \in 0..Len(s) /\ n - 1 \in 0..Len(s) /\ t[n] = s[n]
      BY <1>1, <2>2
    <3>2. Worth(s[n]) \in Int /\ f[n] = f[n - 1] + Worth(s[n])
      BY <1>2, <3>1 DEF IsSums
    <3> HIDE DEF g
    <3> QED
      BY <1>3, <3>1, <3>2
  <2> QED
    BY <2>1, <2>2
<1> HIDE DEF g
<1> QED
  BY <1>4, <1>5, <1>6 DEF Carries, IsSums, t

LEMMA CarriesHeard ==
  ASSUME NEW S, NEW s \in Seq(S), s # <<>>, NEW x \in Int, Carries(s, x), Worth(Head(s)) \in Int
  PROVE  Carries(Tail(s), x - Worth(Head(s)))
<1> DEFINE t == Tail(s)
           w == Worth(Head(s))
<1>1. /\ Len(s) \in Nat \ {0} /\ Len(t) = Len(s) - 1 /\ w = Worth(s[1])
      /\ \A i \in 1..Len(t) : t[i] = s[i + 1]
  BY HeardIs
<1>2. PICK f : IsSums(f, s) /\ f[Len(s)] = x
  BY DEF Carries
<1> HIDE DEF t
<1> DEFINE g == [n \in 0..Len(t) |-> f[n + 1] - w]
<1>3. w \in Int
  OBVIOUS
<1> HIDE DEF w
<1>4. \A n \in 0..Len(t) : n + 1 \in 0..Len(s) /\ g[n] = f[n + 1] - w /\ f[n + 1] \in Int
  <2>1. f \in [0..Len(s) -> Int]
    BY <1>2 DEF IsSums
  <2> QED
    BY <1>1, <2>1
<1>5. g \in [0..Len(t) -> Int]
  BY <1>3, <1>4
<1>6. f[1] = f[0] + Worth(s[1]) /\ f[0] = 0
  BY <1>1, <1>2 DEF IsSums
<1>7. g[0] = 0 /\ g[Len(t)] = x - w
  BY <1>1, <1>2, <1>3, <1>4, <1>6
<1>8. ASSUME NEW n \in 1..Len(t)
      PROVE  Worth(t[n]) \in Int /\ g[n] = g[n - 1] + Worth(t[n])
  <2>1. /\ n \in 0..Len(t) /\ n - 1 \in 0..Len(t) /\ n + 1 \in 1..Len(s) /\ n - 1 + 1 = n
        /\ n + 1 - 1 = n
    BY <1>1
  <2>2. Worth(s[n + 1]) \in Int /\ f[n + 1] = f[n] + Worth(s[n + 1])
    BY <1>2, <2>1 DEF IsSums
  <2>3. g[n] = f[n + 1] - w /\ g[n - 1] = f[n] - w /\ f[n] \in Int /\ f[n + 1] \in Int
    BY <1>4, <2>1
  <2>4. t[n] = s[n + 1]
    BY <1>1
  <2>5. Worth(s[n + 1]) = Worth(t[n])
    BY <2>4
  <2> HIDE DEF g
  <2> QED
    BY <1>3, <2>2, <2>3, <2>5
<1> HIDE DEF g
<1> QED
  BY <1>5, <1>7, <1>8 DEF Carries, IsSums, t, w

LEMMA CarriesLost ==
  ASSUME NEW S, NEW s \in Seq(S), NEW k \in 1..Len(s), NEW x, Carries(s, x), Worth(s[k]) = 0
  PROVE  Carries(Without(s, k), x)
<1> DEFINE t == Without(s, k)
<1>1. /\ Len(s) \in Nat /\ Len(t) = Len(s) - 1 /\ k \in Nat /\ 1 <= k /\ k <= Len(s)
      /\ \A i \in 1..Len(t) : t[i] = IF i < k THEN s[i] ELSE s[i + 1]
  BY LostIs
<1>2. PICK f : IsSums(f, s) /\ f[Len(s)] = x
  BY DEF Carries
<1> HIDE DEF t
<1>3. /\ f \in [0..Len(s) -> Int] /\ f[0] = 0
      /\ \A n \in 1..Len(s) : Worth(s[n]) \in Int /\ f[n] = f[n - 1] + Worth(s[n])
  BY <1>2 DEF IsSums
<1>4. f[k] = f[k - 1]
  <2>1. f[k] = f[k - 1] + 0 /\ k - 1 \in 0..Len(s)
    BY <1>1, <1>3
  <2> QED
    BY <1>3, <2>1
<1> DEFINE g == [n \in 0..Len(t) |-> IF n < k THEN f[n] ELSE f[n + 1]]
<1>5. ASSUME NEW n \in 0..Len(t)
      PROVE  g[n] \in Int
  <2>1. n \in 0..Len(s) /\ n + 1 \in 0..Len(s)
    BY <1>1
  <2>2. f[n] \in Int /\ f[n + 1] \in Int
    BY <1>3, <2>1
  <2> QED
    BY <2>2
<1>6. g[0] = 0 /\ g[Len(t)] = x
  <2>1. g[0] = 0
    BY <1>1, <1>3
  <2>2. CASE Len(t) < k
    <3>1. g[Len(t)] = f[Len(t)] /\ Len(t) = k - 1 /\ k = Len(s)
      BY <1>1, <2>2
    <3> HIDE DEF g
    <3> QED
      BY <1>2, <1>4, <2>1, <3>1
  <2>3. CASE ~(Len(t) < k)
    <3>1. g[Len(t)] = f[Len(t) + 1] /\ Len(t) + 1 = Len(s)
      BY <1>1, <2>3
    <3> HIDE DEF g
    <3> QED
      BY <1>2, <2>1, <3>1
  <2> QED
    BY <2>2, <2>3
<1>7. ASSUME NEW n \in 1..Len(t)
      PROVE  Worth(t[n]) \in Int /\ g[n] = g[n - 1] + Worth(t[n])
  <2>1. /\ n \in 0..Len(t) /\ n - 1 \in 0..Len(t) /\ n \in 1..Len(s) /\ n + 1 \in 1..Len(s)
        /\ n - 1 + 1 = n /\ n + 1 - 1 = n
    BY <1>1
  <2>2. CASE n < k
    <3>1. t[n] = s[n] /\ g[n] = f[n] /\ g[n - 1] = f[n - 1]
      BY <1>1, <2>1, <2>2
    <3> HIDE DEF g
    <3> QED
      BY <1>3, <2>1, <3>1
  <2>3. CASE ~(n < k)
    <3>1. t[n] = s[n + 1] /\ g[n] = f[n + 1] /\ g[n - 1] = f[n]
      <4>1. CASE n = k
        BY <1>1, <1>4, <2>1, <4>1
      <4>2. CASE n # k
        BY <1>1, <2>1, <2>3, <4>2
      <4> QED
        BY <4>1, <4>2
    <3>2. Worth(s[n + 1]) \in Int /\ f[n + 1] = f[n] + Worth(s[n + 1])
      BY <1>3, <2>1
    <3> HIDE DEF g
    <3> QED
      BY <3>1, <3>2
  <2> QED
    BY <2>2, <2>3
<1>8. g \in [0..Len(t) -> Int]
  BY <1>5
<1> HIDE DEF g
<1> QED
  BY <1>6, <1>7, <1>8 DEF Carries, IsSums, t

-----------------------------------------------------------------------------
(* The types of the variables *)

ToTable  == [kind : {"enter", "add"}, room : MaybeRoom, n : Nat]
Answer   == [kind : {"answer"}, room : MaybeRoom]
Back     == [kind : {"back"}, room : {"private"}, n : Nat]
DoLeave  == [kind : {"doLeave"}, room : Rooms, n : Nat, num : Nat, as : {"no", "lost", "gone"}]
Sync     == [kind : {"sync"}, num : Nat, n : Nat]
ToServer == Answer \cup Back \cup DoLeave \cup Sync

CoinsType ==
  /\ coin \in Nat /\ real \in Nat /\ settles \in Nat /\ heard \in Nat
  /\ due \in Int /\ vanished \in Nat
  /\ \/ game \in {"NotIn", "Entering"} /\ at = NoRoom
     \/ game = "StayIn" /\ at \in Rooms
  /\ toMJ \in Seq(ToTable) /\ toDS \in Seq(ToServer)
  /\ seat \in [Rooms -> Nat \cup {Empty}] /\ loser \in {"no", "lost", "gone"}
  /\ seat["public"] = Empty => loser = "no"
  /\ running \in SUBSET Sync

LEMMA QueueTypes ==
  CoinsType => toMJ \in Seq(ToTable) /\ toDS \in Seq(ToServer)
BY DEF CoinsType

LEMMA LostDS ==
  ASSUME CoinsType, NEW k \in 1..Len(toDS), toDS' = Without(toDS, k)
  PROVE  /\ Len(toDS) \in Nat /\ Len(toDS') = Len(toDS) - 1
         /\ \A i \in 1..Len(toDS') : /\ i \in 1..Len(toDS) /\ i + 1 \in 1..Len(toDS)
                                     /\ toDS'[i] = IF i < k THEN toDS[i] ELSE toDS[i + 1]
<1> DEFINE w == Without(toDS, k)
<1>1. toDS \in Seq(ToServer)
  BY QueueTypes
<1>2. /\ Len(toDS) \in Nat /\ Len(w) = Len(toDS) - 1
      /\ \A i \in 1..Len(w) : /\ i \in 1..Len(toDS) /\ i + 1 \in 1..Len(toDS)
                              /\ w[i] = IF i < k THEN toDS[i] ELSE toDS[i + 1]
  BY <1>1, LostIs
<1> QED
  BY <1>2

(* Messages differ by their kind.                                               *)
LEMMA Kinds ==
  /\ \A m \in ToServer : /\ m.kind = "answer"  => m \in Answer
                         /\ m.kind = "back"    => m \in Back
                         /\ m.kind = "doLeave" => m \in DoLeave
                         /\ m.kind = "sync"    => m \in Sync
                         /\ m.kind \in {"answer", "back", "doLeave", "sync"}
  /\ \A m \in ToTable : m.kind \in {"enter", "add"} /\ m.room \in MaybeRoom /\ m.n \in Nat
  /\ \A m \in Answer : m.kind = "answer" /\ m.room \in MaybeRoom
  /\ \A m \in Back : m.kind = "back" /\ m.room = "private" /\ m.n \in Nat
  /\ \A m \in DoLeave : /\ m.kind = "doLeave" /\ m.room \in Rooms /\ m.n \in Nat /\ m.num \in Nat
                        /\ m.as \in {"no", "lost", "gone"}
  /\ \A m \in Sync : m.kind = "sync" /\ m.num \in Nat /\ m.n \in Nat
BY DEF ToServer, ToTable, Answer, Back, DoLeave, Sync

LEMMA Constants ==
  /\ NoRoom \notin Rooms /\ Rooms = {"public", "private"} /\ MaybeRoom = Rooms \cup {NoRoom}
  /\ StartCoin \in Nat /\ Points \in Nat /\ DeskFee \in Nat
BY CoinsAssumption DEF Rooms, MaybeRoom

(* What messages a step sends.                                                  *)
LEMMA MessageTypes ==
  ASSUME CoinsType
  PROVE  /\ \A r \in Rooms, n \in Nat : Report(r, n) \in ToServer
         /\ \A r \in MaybeRoom : [kind |-> "answer", room |-> r] \in ToServer
         /\ \A n \in Nat : [kind |-> "back", room |-> "private", n |-> n] \in ToServer
         /\ \A c \in Nat : Request(c) \in Sync
         /\ \A r \in MaybeRoom, n \in Nat : /\ [kind |-> "enter", room |-> r, n |-> n] \in ToTable
                                            /\ [kind |-> "add", room |-> r, n |-> n] \in ToTable
         /\ Sync \subseteq ToServer /\ at \in MaybeRoom
         /\ \A r \in Rooms : seat[r] # Empty => seat[r] \in Nat
         /\ Empty \in Int /\ Empty \notin Nat
<1>1. \A r \in Rooms, n \in Nat : Report(r, n) \in ToServer
  BY DEF Report, ToServer, DoLeave, CoinsType
<1>2. \A r \in MaybeRoom : [kind |-> "answer", room |-> r] \in ToServer
  BY DEF ToServer, Answer
<1>3. \A n \in Nat : [kind |-> "back", room |-> "private", n |-> n] \in ToServer
  BY DEF ToServer, Back
<1>4. \A c \in Nat : Request(c) \in Sync
  BY DEF Request, Sync, CoinsType
<1>5. \A r \in MaybeRoom, n \in Nat : /\ [kind |-> "enter", room |-> r, n |-> n] \in ToTable
                                      /\ [kind |-> "add", room |-> r, n |-> n] \in ToTable
  BY DEF ToTable
<1>6. Sync \subseteq ToServer /\ at \in MaybeRoom
  BY Constants DEF ToServer, CoinsType
<1>7. Empty \in Int /\ Empty \notin Nat /\ \A r \in Rooms : seat[r] # Empty => seat[r] \in Nat
  BY DEF CoinsType, Empty
<1> QED
  BY <1>1, <1>2, <1>3, <1>4, <1>5, <1>6, <1>7

LEMMA InitType == Init => CoinsType
<1>1. {} \in SUBSET Sync /\ <<>> \in Seq(ToTable) /\ <<>> \in Seq(ToServer)
  OBVIOUS
<1> QED
  BY <1>1, Constants DEF Init, CoinsType

LEMMA NextType == CoinsType /\ [Next]_vars => CoinsType'
<1> SUFFICES ASSUME CoinsType, [Next]_vars
             PROVE  CoinsType'
  OBVIOUS
<1>1. /\ \A m \in ToTable : Append(toMJ, m) \in Seq(ToTable)
      /\ \A m \in ToServer : Append(toDS, m) \in Seq(ToServer)
      /\ toMJ # <<>> => Head(toMJ) \in ToTable /\ Tail(toMJ) \in Seq(ToTable)
      /\ toDS # <<>> => Head(toDS) \in ToServer /\ Tail(toDS) \in Seq(ToServer)
  BY DEF CoinsType
<1>2. Empty \in Int /\ Empty \notin Nat /\ \A r \in Rooms : seat[r] # Empty => seat[r] \in Nat
  BY MessageTypes
<1>3. ASSUME NEW r \in Rooms, NEW n \in Nat
      PROVE  Report(r, n) \in ToServer
  BY MessageTypes
<1>4. ASSUME NEW r \in MaybeRoom
      PROVE  [kind |-> "answer", room |-> r] \in ToServer
  BY MessageTypes
<1>5. ASSUME NEW r \in MaybeRoom, NEW n \in Nat
      PROVE  /\ [kind |-> "enter", room |-> r, n |-> n] \in ToTable
             /\ [kind |-> "add", room |-> r, n |-> n] \in ToTable
  BY MessageTypes
<1>6. ASSUME NEW n \in Nat
      PROVE  [kind |-> "back", room |-> "private", n |-> n] \in ToServer
  BY MessageTypes
<1>7. ASSUME NEW c \in Nat
      PROVE  Request(c) \in Sync /\ Request(c) \in ToServer
  BY MessageTypes
<1> USE DEF CoinsType
<1>8. at \in MaybeRoom
  BY MessageTypes
<1>9. ASSUME NEW n \in Nat, AddMoney(n)
      PROVE  coin' \in Nat /\ toMJ' \in Seq(ToTable)
  <2>1. CASE game = "NotIn"
    BY <1>9, <2>1 DEF AddMoney
  <2>2. CASE game # "NotIn"
    <3>1. toMJ' = Append(toMJ, [kind |-> "add", room |-> at, n |-> n]) /\ coin' = coin
      BY <1>9, <2>2 DEF AddMoney
    <3> QED
      BY <1>1, <1>5, <1>8, <3>1
  <2> QED
    BY <2>1, <2>2
<1>10. CASE AskEnter
  BY <1>1, <1>5, <1>10, Constants DEF AskEnter, tables
<1>11. CASE Gift
  <2>1. AddMoney(1) /\ due' = due + 1 /\ UNCHANGED <<game, at, toDS, tables, vanished, heard>>
    BY <1>11 DEF Gift
  <2>2. coin' \in Nat /\ toMJ' \in Seq(ToTable)
    BY <1>9, <2>1
  <2> QED
    BY <2>1, <2>2 DEF tables
<1>12. CASE Spend
  <2>1. /\ coin > 0 /\ coin' = coin - 1 /\ due' = due - 1
        /\ UNCHANGED <<game, at, toMJ, toDS, tables, vanished, heard>>
    BY <1>12 DEF Spend
  <2> QED
    BY <2>1 DEF tables
<1>13. CASE ServeEnter
  <2>1. /\ toMJ # <<>> /\ toMJ' = Tail(toMJ)
        /\ UNCHANGED <<server, loser, running, settles, due, vanished, heard>>
        /\ ComeBack(Head(toMJ)) \/ SitDown(Head(toMJ)) \/ Refuse(Head(toMJ))
    BY <1>13 DEF ServeEnter
  <2>2. Head(toMJ) \in ToTable /\ Head(toMJ).n \in Nat
    BY <1>1, <2>1, Kinds
  <2>3. real' \in Nat /\ toDS' \in Seq(ToServer) /\ seat' \in [Rooms -> Nat \cup {Empty}]
        /\ (seat'["public"] = Empty => seat["public"] = Empty)
    <3>1. CASE ComeBack(Head(toMJ))
      BY <1>1, <1>4, <2>2, <3>1, Constants DEF ComeBack
    <3>2. CASE SitDown(Head(toMJ))
      BY <1>1, <1>2, <1>4, <2>2, <3>2, Constants DEF SitDown
    <3>3. CASE Refuse(Head(toMJ))
      BY <1>1, <1>4, <3>3, Constants DEF Refuse
    <3> QED
      BY <2>1, <3>1, <3>2, <3>3
  <2> QED
    BY <1>1, <2>1, <2>3 DEF server
<1>14. CASE ServeAdd
  <2>1. /\ toMJ # <<>> /\ toMJ' = Tail(toMJ)
        /\ UNCHANGED <<server, loser, real, running, settles, due, heard>>
    BY <1>14 DEF ServeAdd
  <2>2. Head(toMJ) \in ToTable /\ Head(toMJ).n \in Nat
    BY <1>1, <2>1, Kinds
  <2>3. seat' \in [Rooms -> Nat \cup {Empty}] /\ vanished' \in Nat /\ toDS' \in Seq(ToServer)
        /\ (seat'["public"] = Empty => seat["public"] = Empty)
    <3> DEFINE msg == Head(toMJ)
    <3>1. CASE /\ seat["public"] # Empty
               /\ seat' = [seat EXCEPT !["public"] = @ + msg.n]
               /\ vanished' = IF loser = "gone" THEN vanished + msg.n ELSE vanished
               /\ UNCHANGED toDS
      BY <1>2, <2>2, <3>1, Constants
    <3>2. CASE /\ toDS' = Append(toDS, [kind |-> "back", room |-> "private", n |-> msg.n])
               /\ UNCHANGED <<seat, vanished>>
      BY <1>1, <1>6, <2>2, <3>2
    <3>3. CASE vanished' = vanished + msg.n /\ UNCHANGED <<seat, toDS>>
      BY <2>2, <3>3
    <3> QED
      BY <1>14, <3>1, <3>2, <3>3 DEF ServeAdd
  <2> QED
    BY <1>1, <2>1, <2>3 DEF server
<1>15. CASE StartGame
  BY <1>2, <1>15, Constants DEF StartGame, server
<1>16. ASSUME NEW r \in Rooms, NEW n \in {-1, 1}, AddOffset(r, n)
       PROVE  CoinsType'
  <2>1. seat[r] + n \in Nat
    BY <1>2, <1>16 DEF AddOffset
  <2>2. Request(seat[r] + n) \in Sync /\ Request(seat[r] + n) \in ToServer
    BY <1>7, <2>1
  <2> QED
    BY <1>1, <1>2, <1>16, <2>1, <2>2, Constants DEF AddOffset, server
<1>17. CASE DecideLose
  BY <1>2, <1>17 DEF DecideLose, server
<1>18. CASE LoserLeaves
  BY <1>1, <1>2, <1>3, <1>18, Constants DEF LoserLeaves, server
<1>19. CASE LeavePublic
  BY <1>1, <1>2, <1>3, <1>19, Constants DEF LeavePublic, server
<1>20. CASE LeavePrivate
  BY <1>1, <1>2, <1>3, <1>20, Constants DEF LeavePrivate, server
<1>21. CASE Lose
  BY <1>21, LostIs DEF Lose, Without, server, tables
<1>22. CASE Resend
  <2>1. \A q \in running : q \in ToServer
    BY DEF ToServer
  <2> QED
    BY <1>1, <1>22, <2>1 DEF Resend, server, tables
<1>23. CASE HearAnswer
  <2>1. Head(toDS).room \in MaybeRoom
    BY <1>1, <1>23, Kinds DEF HearAnswer
  <2> QED
    BY <1>1, <1>23, <2>1, Constants DEF HearAnswer, tables
<1>24. CASE HearDoLeave
  <2>1. Head(toDS).n \in Nat /\ Head(toDS).num \in Nat
    BY <1>1, <1>24, Kinds DEF HearDoLeave
  <2> QED
    BY <1>1, <1>24, <2>1 DEF HearDoLeave, tables
<1>25. CASE HearSync
  <2>1. Head(toDS) \in Sync /\ Head(toDS).n \in Nat /\ Head(toDS).num \in Nat
    BY <1>1, <1>25, Kinds DEF HearSync
  <2>2. heard' \in Nat
    <3>1. heard' = IF Head(toDS).num <= heard THEN heard ELSE Head(toDS).num - 1
      BY <1>25 DEF HearSync
    <3> QED
      BY <2>1, <3>1
  <2>3. running' \in SUBSET Sync
    BY <1>25 DEF HearSync
  <2> QED
    BY <1>1, <1>25, <2>1, <2>2, <2>3 DEF HearSync
<1>26. CASE HearBack
  <2>1. /\ toDS # <<>> /\ toDS' = Tail(toDS) /\ UNCHANGED <<game, at, tables, due, heard>>
        /\ Head(toDS).kind = "back"
    BY <1>26 DEF HearBack
  <2>2. Head(toDS).n \in Nat
    BY <1>1, <2>1, Kinds
  <2>3. coin' \in Nat /\ toMJ' \in Seq(ToTable) /\ vanished' \in Nat
    <3>1. CASE AddMoney(Head(toDS).n) /\ UNCHANGED vanished
      BY <1>9, <2>2, <3>1
    <3>2. CASE coin' = coin + Head(toDS).n /\ UNCHANGED <<toMJ, vanished>>
      BY <2>2, <3>2
    <3>3. CASE coin' = coin + Head(toDS).n /\ vanished' = vanished + Head(toDS).n /\ UNCHANGED toMJ
      BY <2>2, <3>3
    <3> QED
      BY <1>26, <3>1, <3>2, <3>3 DEF HearBack
  <2> QED
    BY <1>1, <2>1, <2>3 DEF tables
<1>27. CASE UNCHANGED vars
  BY <1>27 DEF vars, server, tables
<1> QED
  BY <1>10, <1>11, <1>12, <1>13, <1>14, <1>15, <1>16, <1>17, <1>18, <1>19, <1>20, <1>21, <1>22, <1>23,
     <1>24, <1>25, <1>26, <1>27 DEF Next, Player, Table, Network, Hear

-----------------------------------------------------------------------------
(* What has gone wrong stays wrong                                           *)

LEMMA FlawStays == flaw # {} /\ [Next]_vars => flaw' # {}
<1> SUFFICES ASSUME flaw # {}, [Next]_vars
             PROVE  flaw' # {}
  OBVIOUS
<1>1. CASE Player
  BY <1>1 DEF Player, AskEnter, Gift, Spend
<1>2. CASE Table
  BY <1>2 DEF Table, ServeEnter, ComeBack, SitDown, Refuse, ServeAdd, StartGame, DecideLose,
              AddOffset, LoserLeaves, LeavePublic, LeavePrivate
<1>3. CASE Network
  BY <1>3 DEF Network, Lose, Resend
<1>4. CASE Hear
  BY <1>4 DEF Hear, HearAnswer, HearDoLeave, HearSync, HearBack
<1>5. CASE UNCHANGED vars
  BY <1>5 DEF vars
<1> QED
  BY <1>1, <1>2, <1>3, <1>4, <1>5 DEF Next

-----------------------------------------------------------------------------
(* What is bound to go wrong                                                 *)

IsEnter(m)  == m.kind = "enter"
IsAnswer(m) == m.kind = "answer"
IsSync(m)   == m.kind = "sync"
\* A report of the table at which the player has played, and one of a loser who has been
\* reported before
IsFirst(m)  == m.kind = "doLeave" /\ m.as # "gone"
IsAgain(m)  == m.kind = "doLeave" /\ m.as = "gone"

Stays(r)  == game = "StayIn" /\ at = r

\* The i-th message to DataServer reports the player from a table he will not be known to
\* be at when it is heard
Astray(i) ==
  /\ IsFirst(toDS[i]) /\ ~Stays(toDS[i].room)
  /\ \A j \in 1..i - 1 : IsAnswer(toDS[j]) => toDS[j].room # toDS[i].room

\* The i-th message reports a loser again, and is heard when he has gone elsewhere
Belated(i) ==
  /\ IsAgain(toDS[i]) /\ game # "NotIn"
  /\ \A j \in 1..i - 1 : ~IsFirst(toDS[j]) /\ (IsAnswer(toDS[j]) => toDS[j].room # NoRoom)

\* The player has lost the hand of the public table and DataServer has forgotten, or will
\* have, that he sits there
Forgotten ==
  /\ seat["public"] # Empty /\ loser = "lost" /\ ~Stays("public")
  /\ \A j \in 1..Len(toDS) : IsAnswer(toDS[j]) => toDS[j].room # "public"

Doomed == (\E i \in 1..Len(toDS) : Astray(i) \/ Belated(i)) \/ Forgotten

(* The k-th message was the i-th, and what comes before it came before it.      *)
LEMMA DoomedMoved ==
  ASSUME NEW i \in 1..Len(toDS), NEW k \in 1..Len(toDS'), toDS'[k] = toDS[i],
         \A j \in 1..k - 1 : \E l \in 1..i - 1 : toDS'[j] = toDS[l],
         Astray(i) \/ Belated(i),
         Astray(i) => ~(game' = "StayIn" /\ at' = toDS[i].room),
         Belated(i) => game' # "NotIn"
  PROVE  Doomed'
<1>1. Astray(i) => Astray(k)'
  BY DEF Astray, Stays
<1>2. Belated(i) => Belated(k)'
  BY DEF Belated
<1> QED
  BY <1>1, <1>2 DEF Doomed

LEMMA DoomedSent ==
  ASSUME CoinsType, NEW m \in ToServer, toDS' = Append(toDS, m),
         NEW i \in 1..Len(toDS), Astray(i) \/ Belated(i), UNCHANGED <<game, at>>
  PROVE  Doomed'
<1>1. /\ Len(toDS) \in Nat /\ Len(toDS') = Len(toDS) + 1
      /\ \A j \in 1..Len(toDS) : toDS'[j] = toDS[j]
  BY SentIs DEF CoinsType
<1>2. /\ i \in 1..Len(toDS') /\ toDS'[i] = toDS[i]
      /\ \A j \in 1..i - 1 : j \in 1..i - 1 /\ toDS'[j] = toDS[j]
  BY <1>1
<1>3. Astray(i) => ~(game' = "StayIn" /\ at' = toDS[i].room)
  BY DEF Astray, Stays
<1>4. Belated(i) => game' # "NotIn"
  BY DEF Belated
<1> QED
  BY <1>2, <1>3, <1>4, DoomedMoved

LEMMA DoomedHeard ==
  ASSUME CoinsType, toDS # <<>>, toDS' = Tail(toDS),
         NEW i \in 1..Len(toDS), i # 1, Astray(i) \/ Belated(i),
         Astray(i) => ~(game' = "StayIn" /\ at' = toDS[i].room),
         Belated(i) => game' # "NotIn"
  PROVE  Doomed'
<1>1. /\ Len(toDS) \in Nat \ {0} /\ Len(toDS') = Len(toDS) - 1
      /\ \A j \in 1..Len(toDS') : toDS'[j] = toDS[j + 1]
  BY HeardIs, QueueTypes
<1>2. /\ i - 1 \in 1..Len(toDS') /\ i - 1 + 1 = i
      /\ \A j \in 1..i - 1 - 1 : j + 1 \in 1..i - 1 /\ j \in 1..Len(toDS')
  BY <1>1
<1>3. toDS'[i - 1] = toDS[i] /\ \A j \in 1..i - 1 - 1 : \E l \in 1..i - 1 : toDS'[j] = toDS[l]
  BY <1>1, <1>2
<1> QED
  BY <1>2, <1>3, DoomedMoved

LEMMA DoomedLost ==
  ASSUME CoinsType, NEW k \in 1..Len(toDS), toDS' = Without(toDS, k), IsSync(toDS[k]),
         NEW i \in 1..Len(toDS), Astray(i) \/ Belated(i), UNCHANGED <<game, at>>
  PROVE  Doomed'
<1>1. /\ Len(toDS) \in Nat /\ Len(toDS') = Len(toDS) - 1
      /\ \A j \in 1..Len(toDS') : /\ j \in 1..Len(toDS) /\ j + 1 \in 1..Len(toDS)
                                  /\ toDS'[j] = IF j < k THEN toDS[j] ELSE toDS[j + 1]
  BY LostDS
<1>2. i # k
  BY DEF Astray, Belated, IsFirst, IsAgain, IsSync
<1> DEFINE n == IF i < k THEN i ELSE i - 1
<1>3. n \in 1..Len(toDS') /\ toDS'[n] = toDS[i]
  BY <1>1, <1>2
<1>4. ASSUME NEW j \in 1..n - 1
      PROVE  \E l \in 1..i - 1 : toDS'[j] = toDS[l]
  <2>1. /\ j \in 1..Len(toDS') /\ j \in 1..i - 1
        /\ ~(j < k) => j + 1 \in 1..i - 1
    BY <1>1, <1>2
  <2> QED
    BY <1>1, <2>1
<1>5. Astray(i) => ~(game' = "StayIn" /\ at' = toDS[i].room)
  BY DEF Astray, Stays
<1>6. Belated(i) => game' # "NotIn"
  BY DEF Belated
<1> HIDE DEF n
<1> QED
  BY <1>3, <1>4, <1>5, <1>6, DoomedMoved

\* A step that DataServer has no part in, and that sends it no more than one message
Sends == /\ UNCHANGED server
         /\ toDS' = toDS \/ \E m \in ToServer : toDS' = Append(toDS, m)

LEMMA TableSends ==
  ASSUME CoinsType, Table \/ Resend
  PROVE  Sends
<1> USE MessageTypes, Constants
<1>1. CASE ServeEnter
  <2>1. UNCHANGED server /\ (ComeBack(Head(toMJ)) \/ SitDown(Head(toMJ)) \/ Refuse(Head(toMJ)))
    BY <1>1 DEF ServeEnter
  <2> QED
    BY <2>1 DEF ComeBack, SitDown, Refuse, Sends
<1>2. CASE ServeAdd
  <2>1. toMJ # <<>> /\ UNCHANGED server
    BY <1>2 DEF ServeAdd
  <2>2. Head(toMJ).n \in Nat
    BY <2>1, Kinds, HeardIs, QueueTypes
  <2> QED
    BY <1>2, <2>1, <2>2 DEF ServeAdd, Sends
<1>3. CASE StartGame \/ DecideLose
  BY <1>3 DEF StartGame, DecideLose, Sends
<1>4. ASSUME NEW r \in Rooms, NEW n \in {-1, 1}, AddOffset(r, n)
      PROVE  Sends
  <2>1. seat[r] + n \in Nat /\ UNCHANGED server /\ toDS' = Append(toDS, Request(seat[r] + n))
    BY <1>4 DEF AddOffset
  <2> QED
    BY <2>1 DEF Sends
<1>5. CASE LoserLeaves
  <2>1. loser \in {"lost", "gone"} /\ UNCHANGED server
        /\ toDS' = Append(toDS, Report("public", seat["public"]))
    BY <1>5 DEF LoserLeaves
  <2>2. seat["public"] \in Nat
    BY <2>1 DEF CoinsType
  <2> QED
    BY <2>1, <2>2 DEF Sends
<1>6. CASE LeavePublic
  BY <1>6 DEF LeavePublic, Sends
<1>7. CASE LeavePrivate
  <2>1. real \in Nat
    BY DEF CoinsType
  <2> QED
    BY <1>7, <2>1 DEF LeavePrivate, Sends
<1>8. CASE Resend
  <2>1. running \subseteq Sync
    BY DEF CoinsType
  <2> QED
    BY <1>8, <2>1 DEF Resend, Sends
<1> QED
  BY <1>1, <1>2, <1>3, <1>4, <1>5, <1>6, <1>7, <1>8 DEF Table

(* A report from the wrong place is on its way until it is heard.               *)
LEMMA DoomedReport ==
  ASSUME CoinsType, [Next]_vars, flaw' = {}, NEW i \in 1..Len(toDS), Astray(i) \/ Belated(i)
  PROVE  Doomed'
<1>1. CASE UNCHANGED <<server, toDS>>
  <2>1. Astray(i)' \/ Belated(i)'
    BY <1>1 DEF server, Astray, Belated, Stays
  <2> QED
    BY <1>1, <2>1 DEF Doomed
<1>2. CASE Sends
  BY <1>1, <1>2, DoomedSent DEF Sends, server
<1>3. CASE AskEnter
  <2>1. /\ toDS' = toDS /\ game' = "Entering" /\ at' = NoRoom
        /\ i \in 1..Len(toDS') /\ \A j \in 1..i - 1 : \E l \in 1..i - 1 : toDS'[j] = toDS[l]
    BY <1>3 DEF AskEnter
  <2> QED
    BY <2>1, DoomedMoved
<1>4. CASE Gift \/ Spend
  <2>1. UNCHANGED <<game, at, toDS>>
    BY <1>4 DEF Gift, Spend
  <2>2. Astray(i)' \/ Belated(i)'
    BY <2>1 DEF Astray, Belated, Stays
  <2> QED
    BY <2>1, <2>2 DEF Doomed
<1>5. CASE Lose
  <2>1. PICK k \in DOMAIN toDS : toDS[k].kind = "sync" /\ toDS' = Without(toDS, k)
    BY <1>5 DEF Lose, Without
  <2>2. k \in 1..Len(toDS) /\ UNCHANGED <<game, at>>
    BY <1>5 DEF Lose, server, CoinsType
  <2> QED
    BY <2>1, <2>2, DoomedLost DEF IsSync
<1>6. CASE HearAnswer
  <2>1. /\ toDS # <<>> /\ toDS' = Tail(toDS) /\ toDS[1].kind = "answer" /\ at' = toDS[1].room
        /\ game' = IF toDS[1].room = NoRoom THEN "NotIn" ELSE "StayIn"
        /\ Len(toDS) \in Nat
    BY <1>6, HeardIs DEF HearAnswer, CoinsType
  <2>2. i # 1
    BY <2>1 DEF Astray, Belated, IsFirst, IsAgain
  <2>3. 1 \in 1..i - 1
    BY <2>1, <2>2
  <2>4. Astray(i) => toDS[1].room # toDS[i].room
    BY <2>1, <2>3 DEF Astray, IsAnswer
  <2>5. Belated(i) => toDS[1].room # NoRoom
    BY <2>1, <2>3 DEF Belated, IsAnswer
  <2> QED
    BY <2>1, <2>2, <2>4, <2>5, DoomedHeard
<1>7. CASE HearDoLeave
  <2>1. /\ toDS # <<>> /\ toDS' = Tail(toDS) /\ toDS[1].kind = "doLeave" /\ game' = "NotIn"
        /\ Len(toDS) \in Nat
        /\ \/ toDS[1].as # "gone" /\ game = "StayIn" /\ at = toDS[1].room
           \/ toDS[1].as = "gone" /\ game = "NotIn"
    BY <1>7, HeardIs DEF HearDoLeave, CoinsType
  <2>2. i # 1
    BY <2>1 DEF Astray, Belated, IsFirst, IsAgain, Stays
  <2>3. 1 \in 1..i - 1
    BY <2>1, <2>2
  <2>4. ~Belated(i)
    BY <2>1, <2>3 DEF Belated, IsFirst
  <2> QED
    BY <2>1, <2>2, <2>4, DoomedHeard
<1>8. CASE HearSync \/ HearBack
  <2>1. /\ toDS # <<>> /\ toDS' = Tail(toDS) /\ toDS[1].kind \in {"sync", "back"}
        /\ UNCHANGED <<game, at>>
    BY <1>8, HeardIs DEF HearSync, HearBack, CoinsType
  <2>2. i # 1
    BY <2>1 DEF Astray, Belated, IsFirst, IsAgain
  <2>3. Astray(i) => ~(game' = "StayIn" /\ at' = toDS[i].room)
    BY <2>1 DEF Astray, Stays
  <2>4. Belated(i) => game' # "NotIn"
    BY <2>1 DEF Belated
  <2> QED
    BY <2>1, <2>2, <2>3, <2>4, DoomedHeard
<1>9. CASE UNCHANGED vars
  BY <1>1, <1>9 DEF vars
<1> QED
  BY <1>2, <1>3, <1>4, <1>5, <1>6, <1>7, <1>8, <1>9, TableSends DEF Next, Player, Network, Hear

(* One who has lost his hand and is forgotten is so until his table reports him. *)
LEMMA DoomedForgotten ==
  ASSUME CoinsType, [Next]_vars, flaw' = {}, Forgotten
  PROVE  Doomed'
<1>1. /\ seat["public"] # Empty /\ loser = "lost" /\ ~Stays("public")
      /\ \A j \in 1..Len(toDS) : IsAnswer(toDS[j]) => toDS[j].room # "public"
  BY DEF Forgotten
<1>2. /\ Len(toDS) \in Nat /\ Empty \notin Nat /\ Empty \in Int /\ "public" \in Rooms
      /\ NoRoom # "public" /\ seat["public"] \in Nat
  BY <1>1, MessageTypes, Constants DEF CoinsType
<1>3. ASSUME UNCHANGED <<game, at>>, seat'["public"] # Empty, UNCHANGED loser,
             \/ toDS' = toDS
             \/ \E m \in ToServer : /\ toDS' = Append(toDS, m)
                                    /\ IsAnswer(m) => m.room # "public"
      PROVE  Doomed'
  <2>1. \A j \in 1..Len(toDS') : IsAnswer(toDS'[j]) => toDS'[j].room # "public"
    <3>1. CASE toDS' = toDS
      BY <1>1, <3>1
    <3>2. ASSUME NEW m \in ToServer, toDS' = Append(toDS, m), IsAnswer(m) => m.room # "public"
          PROVE  \A j \in 1..Len(toDS') : IsAnswer(toDS'[j]) => toDS'[j].room # "public"
      <4>1. /\ Len(toDS') = Len(toDS) + 1 /\ toDS'[Len(toDS) + 1] = m
            /\ \A j \in 1..Len(toDS) : toDS'[j] = toDS[j]
        BY <3>2, SentIs DEF CoinsType
      <4>2. \A j \in 1..Len(toDS') : j \in 1..Len(toDS) \/ j = Len(toDS) + 1
        BY <1>2, <4>1
      <4> QED
        BY <1>1, <3>2, <4>1, <4>2
    <3> QED
      BY <1>3, <3>1, <3>2
  <2> QED
    BY <1>1, <1>3, <2>1 DEF Doomed, Forgotten, Stays
<1>4. ASSUME UNCHANGED <<seat, loser>>, toDS # <<>>, toDS' = Tail(toDS),
             ~(game' = "StayIn" /\ at' = "public")
      PROVE  Doomed'
  <2>1. \A j \in 1..Len(toDS') : j + 1 \in 1..Len(toDS) /\ toDS'[j] = toDS[j + 1]
    BY <1>4, HeardIs, QueueTypes
  <2> QED
    BY <1>1, <1>4, <2>1 DEF Doomed, Forgotten, Stays
<1>5. CASE Player
  <2>1. /\ UNCHANGED <<seat, loser, toDS>>
        /\ UNCHANGED <<game, at>> \/ game' = "Entering"
    BY <1>5 DEF Player, AskEnter, Gift, Spend, tables
  <2> QED
    BY <1>1, <2>1 DEF Doomed, Forgotten, Stays
<1>6. CASE ServeEnter
  <2>1. UNCHANGED <<server, loser>> /\ (ComeBack(Head(toMJ)) \/ SitDown(Head(toMJ)) \/ Refuse(Head(toMJ)))
    BY <1>6 DEF ServeEnter
  <2>2. /\ seat'["public"] # Empty
        /\ \E r \in MaybeRoom : r # "public" /\ toDS' = Append(toDS, [kind |-> "answer", room |-> r])
    BY <1>1, <1>2, <2>1, Constants DEF ComeBack, SitDown, Refuse, CoinsType
  <2> QED
    BY <1>3, <2>1, <2>2, MessageTypes DEF server
<1>7. CASE ServeAdd
  <2>1. toMJ # <<>> /\ UNCHANGED <<server, loser>> /\ Head(toMJ).n \in Nat
    BY <1>7, Kinds, HeardIs DEF ServeAdd, CoinsType
  <2>2. /\ seat'["public"] # Empty
        /\ \/ toDS' = toDS
           \/ toDS' = Append(toDS, [kind |-> "back", room |-> "private", n |-> Head(toMJ).n])
    BY <1>2, <1>7, <2>1 DEF ServeAdd, CoinsType
  <2>3. ~IsAnswer([kind |-> "back", room |-> "private", n |-> Head(toMJ).n])
    BY DEF IsAnswer
  <2> QED
    BY <1>3, <2>1, <2>2, <2>3, MessageTypes DEF server
<1>8. CASE StartGame \/ DecideLose
  BY <1>1, <1>8 DEF StartGame, DecideLose
<1>9. ASSUME NEW r \in Rooms, NEW n \in {-1, 1}, AddOffset(r, n)
      PROVE  Doomed'
  <2>1. /\ r = "private" /\ seat'["public"] = seat["public"] /\ UNCHANGED <<game, at, loser>>
        /\ seat[r] + n \in Nat /\ toDS' = Append(toDS, Request(seat[r] + n))
    BY <1>1, <1>9, MessageTypes, Constants DEF AddOffset, server, CoinsType
  <2>2. ~IsAnswer(Request(seat[r] + n))
    BY DEF IsAnswer, Request
  <2> QED
    BY <1>1, <1>3, <2>1, <2>2, MessageTypes
<1>10. CASE LoserLeaves \/ LeavePublic
  <2> DEFINE m == Report("public", seat["public"])
  <2>1. toDS' = Append(toDS, m) /\ UNCHANGED <<game, at>>
    BY <1>10 DEF LoserLeaves, LeavePublic, server
  <2>2. IsFirst(m) /\ m.room = "public" /\ m \in ToServer
    BY <1>1, <1>2, MessageTypes DEF IsFirst, Report
  <2> HIDE DEF m
  <2>3. /\ Len(toDS') = Len(toDS) + 1 /\ toDS'[Len(toDS) + 1] = m
        /\ \A j \in 1..Len(toDS) : toDS'[j] = toDS[j]
    BY <2>1, <2>2, SentIs DEF CoinsType
  <2>4. PICK n \in 1..Len(toDS') : n = Len(toDS) + 1
    BY <1>2, <2>3
  <2>5. \A j \in 1..n - 1 : toDS'[j] = toDS[j] /\ (IsAnswer(toDS[j]) => toDS[j].room # "public")
    BY <1>1, <1>2, <2>3, <2>4
  <2>6. Astray(n)'
    BY <1>1, <2>1, <2>2, <2>3, <2>4, <2>5 DEF Astray, Stays
  <2> QED
    BY <2>4, <2>6 DEF Doomed
<1>11. CASE LeavePrivate
  <2>1. /\ seat'["public"] = seat["public"] /\ UNCHANGED <<game, at, loser>>
        /\ real \in Nat /\ toDS' = Append(toDS, Report("private", real))
    BY <1>11 DEF LeavePrivate, server, CoinsType
  <2>2. ~IsAnswer(Report("private", real))
    BY DEF IsAnswer, Report
  <2> QED
    BY <1>1, <1>3, <2>1, <2>2, MessageTypes, Constants
<1>12. CASE Lose
  <2>1. PICK k \in DOMAIN toDS : toDS' = Without(toDS, k)
    BY <1>12 DEF Lose, Without
  <2>2. k \in 1..Len(toDS) /\ UNCHANGED <<game, at, seat, loser>>
    BY <1>12 DEF Lose, server, tables, CoinsType
  <2>3. \A j \in 1..Len(toDS') : \E l \in 1..Len(toDS) : toDS'[j] = toDS[l]
    BY <2>1, <2>2, LostDS
  <2> QED
    BY <1>1, <2>2, <2>3 DEF Doomed, Forgotten, Stays
<1>13. CASE Resend
  <2>1. PICK q \in running : toDS' = Append(toDS, q)
    BY <1>13 DEF Resend
  <2>2. UNCHANGED <<game, at, seat, loser>> /\ q \in ToServer /\ ~IsAnswer(q)
    BY <1>13, <2>1, Kinds, MessageTypes DEF Resend, server, tables, CoinsType, IsAnswer
  <2> QED
    BY <1>1, <1>3, <2>1, <2>2
<1>14. CASE HearAnswer
  <2>1. /\ toDS # <<>> /\ toDS' = Tail(toDS) /\ IsAnswer(toDS[1]) /\ at' = toDS[1].room
        /\ UNCHANGED <<seat, loser>> /\ 1 \in 1..Len(toDS)
    BY <1>14, HeardIs DEF HearAnswer, IsAnswer, tables, CoinsType
  <2> QED
    BY <1>1, <1>4, <2>1
<1>15. CASE HearDoLeave
  BY <1>4, <1>15 DEF HearDoLeave, tables
<1>16. CASE HearSync \/ HearBack
  BY <1>1, <1>4, <1>16 DEF HearSync, HearBack, tables, Stays
<1>17. CASE UNCHANGED vars
  BY <1>1, <1>17 DEF vars, server, tables, Doomed, Forgotten, Stays
<1> QED
  BY <1>5, <1>6, <1>7, <1>8, <1>9, <1>10, <1>11, <1>12, <1>13, <1>14, <1>15, <1>16, <1>17
     DEF Next, Table, Network, Hear

LEMMA DoomedStays == CoinsType /\ Doomed /\ [Next]_vars => flaw' # {} \/ Doomed'
BY DoomedReport, DoomedForgotten DEF Doomed

-----------------------------------------------------------------------------
(* The inductive invariant, as long as nothing has gone wrong or is bound to *)

\* The player plays at table r
Sits(r) == seat[r] # Empty /\ (r = "public" => loser # "gone")
Away    == ~Sits("public") /\ ~Sits("private")

\* The report of the table at which he has played is on its way
Reported == \E m \in Msgs(toDS) : IsFirst(m)
Known(r) == Sits(r) \/ \E m \in Msgs(toDS) : IsFirst(m) /\ m.room = r
Told(r)  == \E m \in Msgs(toDS) : IsAnswer(m) /\ m.room = r

OneEnter ==
  \A i \in 1..Len(toMJ) : \A j \in 1..i - 1 : ~(IsEnter(toMJ[i]) /\ IsEnter(toMJ[j]))

\* An answer comes before any report, and a first report before any other
Ordered ==
  \A i \in 1..Len(toDS) : \A j \in 1..i - 1 :
    /\ IsAnswer(toDS[i]) => ~IsAnswer(toDS[j]) /\ ~IsFirst(toDS[j]) /\ ~IsAgain(toDS[j])
    /\ IsFirst(toDS[i])  => ~IsFirst(toDS[j]) /\ ~IsAgain(toDS[j])

\* Where the player is, and what DataServer knows of it or is on its way to know
EnterRight(m) ==
  /\ game = "Entering"
  /\ \A a \in Msgs(toDS) : ~IsAnswer(a) /\ ~IsFirst(a) /\ ~IsAgain(a)
  /\ \/ Away /\ m.n = coin
     \/ m.room \in Rooms /\ Sits(m.room) /\ (m.room = "public" => loser = "no")

AnswerRight(m) ==
  /\ game = "Entering"
  /\ \/ m.room = NoRoom /\ Away /\ ~Reported
     \/ m.room \in Rooms /\ Known(m.room)

Placed ==
  /\ Sits("public") => ~Sits("private")
  /\ \A m \in Msgs(toDS) : IsFirst(m) \/ IsAgain(m) => Away
  /\ game = "NotIn" => Away /\ ~Reported
  /\ game = "StayIn" => Known(at)
  /\ game # "Entering" => /\ \A m \in Msgs(toDS) : ~IsAnswer(m)
                          /\ \A m \in Msgs(toMJ) : ~IsEnter(m)
  /\ \A m \in Msgs(toMJ) : IsEnter(m) => EnterRight(m)
  /\ \A m \in Msgs(toDS) : IsAnswer(m) => AnswerRight(m)
  /\ \A m \in Msgs(toDS) : IsFirst(m) => Stays(m.room) \/ Told(m.room)
  /\ \A m \in Msgs(toDS) : IsAgain(m) => game = "NotIn" \/ Reported \/ Told(NoRoom)

\* DataServer has no use for any request of one who is away
Numbered ==
  /\ \A q \in running : q.num <= settles
  /\ \A m \in Msgs(toDS) : /\ IsSync(m) => m.num <= settles
                           /\ IsFirst(m) \/ IsAgain(m) => m.num = settles
  /\ Away /\ ~Reported => /\ \A q \in running : q.num <= heard
                          /\ \A m \in Msgs(toDS) : IsSync(m) => m.num <= heard

\* The coins are at the table, in the report or with DataServer
Base(b) ==
  /\ Sits("public")  => b = seat["public"]
  /\ Sits("private") => b = real
  /\ \A m \in Msgs(toDS) : IsFirst(m) => b = m.n
  /\ Away /\ ~Reported => b = coin

Balanced ==
  \E b, x, y \in Int : /\ Base(b) /\ Carries(toMJ, x) /\ Carries(toDS, y)
                       /\ b + x + y = due - vanished

Good == OneEnter /\ Ordered /\ Placed /\ Numbered /\ Balanced

CoinsInv == CoinsType /\ (flaw # {} \/ Doomed \/ Good)

-----------------------------------------------------------------------------
(* The order of the messages *)

LEMMA OrderedSent ==
  ASSUME CoinsType, Ordered, NEW m \in ToServer, toDS' = Append(toDS, m),
         IsAnswer(m) => \A a \in Msgs(toDS) : ~IsAnswer(a) /\ ~IsFirst(a) /\ ~IsAgain(a),
         IsFirst(m) => \A a \in Msgs(toDS) : ~IsFirst(a) /\ ~IsAgain(a)
  PROVE  Ordered'
<1>1. /\ Len(toDS) \in Nat /\ Len(toDS') = Len(toDS) + 1 /\ toDS'[Len(toDS) + 1] = m
      /\ \A j \in 1..Len(toDS) : toDS'[j] = toDS[j]
  BY SentIs DEF CoinsType
<1>2. \A j \in 1..Len(toDS) : toDS[j] \in Msgs(toDS)
  BY DEF Msgs
<1>3. SUFFICES ASSUME NEW i \in 1..Len(toDS'), NEW j \in 1..i - 1
               PROVE  /\ IsAnswer(toDS'[i]) => ~IsAnswer(toDS'[j]) /\ ~IsFirst(toDS'[j]) /\ ~IsAgain(toDS'[j])
                      /\ IsFirst(toDS'[i]) => ~IsFirst(toDS'[j]) /\ ~IsAgain(toDS'[j])
  BY DEF Ordered
<1>4. j \in 1..Len(toDS) /\ toDS'[j] = toDS[j]
  BY <1>1, <1>3
<1>5. CASE i = Len(toDS) + 1
  BY <1>1, <1>2, <1>4, <1>5
<1>6. CASE i # Len(toDS) + 1
  <2>1. i \in 1..Len(toDS) /\ toDS'[i] = toDS[i]
    BY <1>1, <1>6
  <2> QED
    BY <1>4, <2>1 DEF Ordered
<1> QED
  BY <1>5, <1>6

LEMMA OrderedHeard ==
  ASSUME CoinsType, Ordered, toDS # <<>>, toDS' = Tail(toDS)
  PROVE  /\ Ordered'
         /\ IsAnswer(toDS[1]) \/ IsFirst(toDS[1]) \/ IsAgain(toDS[1]) =>
              \A m \in Msgs(toDS') : ~IsAnswer(m)
         /\ IsFirst(toDS[1]) \/ IsAgain(toDS[1]) => \A m \in Msgs(toDS') : ~IsFirst(m)
<1>1. /\ Len(toDS) \in Nat \ {0} /\ Len(toDS') = Len(toDS) - 1
      /\ \A i \in 1..Len(toDS') : i + 1 \in 1..Len(toDS) /\ toDS'[i] = toDS[i + 1]
  BY HeardIs, QueueTypes
<1>2. Ordered'
  <2> SUFFICES ASSUME NEW i \in 1..Len(toDS'), NEW j \in 1..i - 1
               PROVE  /\ IsAnswer(toDS'[i]) => ~IsAnswer(toDS'[j]) /\ ~IsFirst(toDS'[j]) /\ ~IsAgain(toDS'[j])
                      /\ IsFirst(toDS'[i]) => ~IsFirst(toDS'[j]) /\ ~IsAgain(toDS'[j])
    BY DEF Ordered
  <2>1. j \in 1..Len(toDS') /\ i + 1 \in 1..Len(toDS) /\ j + 1 \in 1..i + 1 - 1
    BY <1>1
  <2>2. toDS'[i] = toDS[i + 1] /\ toDS'[j] = toDS[j + 1]
    BY <1>1, <2>1
  <2> QED
    BY <2>1, <2>2 DEF Ordered
<1>3. ASSUME NEW m \in Msgs(toDS')
      PROVE  /\ IsAnswer(m) => ~IsAnswer(toDS[1]) /\ ~IsFirst(toDS[1]) /\ ~IsAgain(toDS[1])
             /\ IsFirst(m) => ~IsFirst(toDS[1]) /\ ~IsAgain(toDS[1])
  <2>1. PICK i \in 1..Len(toDS') : m = toDS'[i]
    BY DEF Msgs
  <2>2. i + 1 \in 1..Len(toDS) /\ m = toDS[i + 1] /\ 1 \in 1..i + 1 - 1
    BY <1>1, <2>1
  <2> QED
    BY <2>2 DEF Ordered
<1> QED
  BY <1>2, <1>3

LEMMA OrderedLost ==
  ASSUME CoinsType, Ordered, NEW k \in 1..Len(toDS), toDS' = Without(toDS, k)
  PROVE  Ordered'
<1>1. /\ Len(toDS) \in Nat /\ Len(toDS') = Len(toDS) - 1
      /\ \A i \in 1..Len(toDS') : /\ i \in 1..Len(toDS) /\ i + 1 \in 1..Len(toDS)
                                  /\ toDS'[i] = IF i < k THEN toDS[i] ELSE toDS[i + 1]
  BY LostDS
<1>2. SUFFICES ASSUME NEW i \in 1..Len(toDS'), NEW j \in 1..i - 1
               PROVE  /\ IsAnswer(toDS'[i]) => ~IsAnswer(toDS'[j]) /\ ~IsFirst(toDS'[j]) /\ ~IsAgain(toDS'[j])
                      /\ IsFirst(toDS'[i]) => ~IsFirst(toDS'[j]) /\ ~IsAgain(toDS'[j])
  BY DEF Ordered
<1>3. j \in 1..Len(toDS')
  BY <1>1, <1>2
<1>4. PICK a \in 1..Len(toDS) : toDS'[i] = toDS[a] /\ (IF i < k THEN a = i ELSE a = i + 1)
  BY <1>1
<1>5. PICK c \in 1..Len(toDS) : toDS'[j] = toDS[c] /\ (IF j < k THEN c = j ELSE c = j + 1)
  BY <1>1, <1>3
<1>6. c \in 1..a - 1
  BY <1>1, <1>2, <1>4, <1>5
<1> QED
  BY <1>4, <1>5, <1>6 DEF Ordered

LEMMA OneEnterSent ==
  ASSUME CoinsType, OneEnter, NEW m \in ToTable, toMJ' = Append(toMJ, m),
         IsEnter(m) => \A a \in Msgs(toMJ) : ~IsEnter(a)
  PROVE  OneEnter'
<1>1. /\ Len(toMJ) \in Nat /\ Len(toMJ') = Len(toMJ) + 1 /\ toMJ'[Len(toMJ) + 1] = m
      /\ \A j \in 1..Len(toMJ) : toMJ'[j] = toMJ[j] /\ toMJ[j] \in Msgs(toMJ)
  BY SentIs DEF CoinsType, Msgs
<1>2. SUFFICES ASSUME NEW i \in 1..Len(toMJ'), NEW j \in 1..i - 1
               PROVE  ~(IsEnter(toMJ'[i]) /\ IsEnter(toMJ'[j]))
  BY DEF OneEnter
<1>3. j \in 1..Len(toMJ) /\ toMJ'[j] = toMJ[j]
  BY <1>1, <1>2
<1>4. CASE i = Len(toMJ) + 1
  BY <1>1, <1>3, <1>4
<1>5. CASE i # Len(toMJ) + 1
  <2>1. i \in 1..Len(toMJ) /\ toMJ'[i] = toMJ[i]
    BY <1>1, <1>5
  <2> QED
    BY <1>3, <2>1 DEF OneEnter
<1> QED
  BY <1>4, <1>5

LEMMA OneEnterHeard ==
  ASSUME CoinsType, OneEnter, toMJ # <<>>, toMJ' = Tail(toMJ)
  PROVE  OneEnter' /\ (IsEnter(toMJ[1]) => \A m \in Msgs(toMJ') : ~IsEnter(m))
<1>1. /\ Len(toMJ) \in Nat \ {0} /\ Len(toMJ') = Len(toMJ) - 1
      /\ \A i \in 1..Len(toMJ') : i + 1 \in 1..Len(toMJ) /\ toMJ'[i] = toMJ[i + 1]
  BY HeardIs, QueueTypes
<1>2. OneEnter'
  <2> SUFFICES ASSUME NEW i \in 1..Len(toMJ'), NEW j \in 1..i - 1
               PROVE  ~(IsEnter(toMJ'[i]) /\ IsEnter(toMJ'[j]))
    BY DEF OneEnter
  <2>1. j \in 1..Len(toMJ') /\ i + 1 \in 1..Len(toMJ) /\ j + 1 \in 1..i + 1 - 1
    BY <1>1
  <2>2. toMJ'[i] = toMJ[i + 1] /\ toMJ'[j] = toMJ[j + 1]
    BY <1>1, <2>1
  <2> QED
    BY <2>1, <2>2 DEF OneEnter
<1>3. ASSUME NEW m \in Msgs(toMJ')
      PROVE  ~(IsEnter(m) /\ IsEnter(toMJ[1]))
  <2>1. PICK i \in 1..Len(toMJ') : m = toMJ'[i]
    BY DEF Msgs
  <2>2. i + 1 \in 1..Len(toMJ) /\ m = toMJ[i + 1] /\ 1 \in 1..i + 1 - 1
    BY <1>1, <2>1
  <2> QED
    BY <2>2 DEF OneEnter
<1> QED
  BY <1>2, <1>3
-----------------------------------------------------------------------------
(* Each step keeps the invariant, when nothing goes wrong or is bound to.     *)

\* What the lemmas of the steps start from
Sound == CoinsType /\ CoinsType' /\ Good /\ flaw = {} /\ flaw' = {} /\ ~Doomed'

LEMMA MsgsType ==
  CoinsType => Msgs(toDS) \subseteq ToServer /\ Msgs(toMJ) \subseteq ToTable
<1>1. ASSUME NEW S, NEW s \in Seq(S)
      PROVE  Msgs(s) \subseteq S
  <2>1. \A i \in 1..Len(s) : s[i] \in S
    OBVIOUS
  <2> QED
    BY <2>1 DEF Msgs
<1> QED
  BY <1>1 DEF CoinsType

LEMMA AskEnterGood ==
  ASSUME Sound, AskEnter
  PROVE  Good'
<1>1. PICK r \in MaybeRoom :
        /\ game = "StayIn" => r = at
        /\ toMJ' = Append(toMJ, [kind |-> "enter", room |-> r, n |-> coin])
  BY DEF AskEnter
<1>2. /\ game # "Entering" /\ game' = "Entering" /\ at' = NoRoom
      /\ UNCHANGED <<coin, toDS, seat, loser, real, running, settles, due, vanished, heard>>
  BY DEF AskEnter, tables
<1>3. PICK e \in ToTable : /\ IsEnter(e) /\ Worth(e) = 0 /\ toMJ' = Append(toMJ, e)
                           /\ e.room = r /\ e.n = coin
  <2>1. [kind |-> "enter", room |-> r, n |-> coin] \in ToTable
    BY MessageTypes DEF Sound, CoinsType
  <2> QED
    BY <1>1, <2>1 DEF IsEnter, Worth
<1>4. Msgs(toMJ') = Msgs(toMJ) \cup {e}
  BY <1>3, SentIs DEF Sound, CoinsType
<1>5. /\ \A m \in Msgs(toDS) : ~IsAnswer(m)
      /\ \A m \in Msgs(toMJ) : ~IsEnter(m)
  BY <1>2 DEF Sound, Good, Placed
<1>6. ASSUME NEW i \in 1..Len(toDS), IsFirst(toDS[i])
      PROVE  FALSE
  <2>1. \A j \in 1..i - 1 : j \in 1..Len(toDS)
    BY DEF Sound, CoinsType
  <2>2. Astray(i)'
    BY <1>2, <1>5, <1>6, <2>1 DEF Astray, Stays, Msgs
  <2> QED
    BY <1>2, <2>2 DEF Sound, Doomed
<1>7. ASSUME NEW i \in 1..Len(toDS), IsAgain(toDS[i])
      PROVE  FALSE
  <2>1. \A j \in 1..i - 1 : j \in 1..Len(toDS)
    BY DEF Sound, CoinsType
  <2>2. Belated(i)'
    BY <1>2, <1>5, <1>6, <1>7, <2>1 DEF Belated, Msgs
  <2> QED
    BY <1>2, <2>2 DEF Sound, Doomed
<1>8. \A m \in Msgs(toDS) : ~IsAnswer(m) /\ ~IsFirst(m) /\ ~IsAgain(m)
  BY <1>5, <1>6, <1>7 DEF Msgs
<1>9. ~(seat["public"] # Empty /\ loser = "lost")
  <2>1. \A j \in 1..Len(toDS) : ~IsAnswer(toDS[j])
    BY <1>5 DEF Msgs
  <2> QED
    BY <1>2, <2>1 DEF Sound, Doomed, Forgotten, Stays
<1>10. EnterRight(e)'
  <2>1. CASE game = "NotIn"
    BY <1>2, <1>3, <1>8, <2>1 DEF Sound, Good, Placed, EnterRight, Away, Sits
  <2>2. CASE game = "StayIn"
    BY <1>1, <1>2, <1>3, <1>8, <1>9, <2>2, Constants DEF Sound, CoinsType, Good, Placed, EnterRight, Sits, Known
  <2> QED
    BY <1>2, <2>1, <2>2 DEF Sound, CoinsType
<1>11. OneEnter'
  BY <1>3, <1>5, OneEnterSent DEF Sound, Good
<1>12. Ordered'
  BY <1>2 DEF Sound, Good, Ordered
<1>13. Placed'
  BY <1>2, <1>4, <1>5, <1>8, <1>10 DEF Sound, Good, Placed, Sits
<1>14. Numbered'
  BY <1>2 DEF Sound, Good, Numbered, Away, Sits, Reported
<1>15. Balanced'
  <2>1. PICK b \in Int, x \in Int, y \in Int :
          Base(b) /\ Carries(toMJ, x) /\ Carries(toDS, y) /\ b + x + y = due - vanished
    BY DEF Sound, Good, Balanced
  <2>2. Carries(toMJ', x)
    <3>1. Carries(toMJ', x + 0)
      BY <1>3, <2>1, CarriesSent, QueueTypes DEF Sound
    <3> QED
      BY <3>1
  <2>3. Base(b)'
    BY <1>2, <2>1 DEF Base, Away, Sits, Reported
  <2> QED
    BY <1>2, <2>1, <2>2, <2>3 DEF Balanced
<1> QED
  BY <1>11, <1>12, <1>13, <1>14, <1>15 DEF Good

LEMMA GiftGood ==
  ASSUME Sound, Gift
  PROVE  Good'
<1>1. /\ AddMoney(1) /\ due' = due + 1
      /\ UNCHANGED <<game, at, toDS, seat, loser, real, running, settles, vanished, heard>>
  BY DEF Gift, tables
<1>2. PICK b \in Int, x \in Int, y \in Int :
        Base(b) /\ Carries(toMJ, x) /\ Carries(toDS, y) /\ b + x + y = due - vanished
  BY DEF Sound, Good, Balanced
<1>3. due \in Int /\ vanished \in Nat /\ coin \in Nat
  BY DEF Sound, CoinsType
<1>4. Ordered' /\ Numbered'
  BY <1>1 DEF Sound, Good, Ordered, Numbered, Away, Sits, Reported
<1>5. CASE game = "NotIn"
  <2>1. coin' = coin + 1 /\ UNCHANGED toMJ
    BY <1>1, <1>5 DEF AddMoney
  <2>2. Away /\ ~Reported /\ b = coin
    BY <1>2, <1>5 DEF Sound, Good, Placed, Base
  <2>3. OneEnter'
    BY <2>1 DEF Sound, Good, OneEnter
  <2>4. Placed'
    BY <1>1, <1>5, <2>1 DEF Sound, Good, Placed, Away, Sits, Reported, Known, Told, AnswerRight, Stays
  <2>5. Base(b + 1)'
    BY <1>1, <2>1, <2>2 DEF Base, Away, Sits, Reported
  <2>6. b + 1 \in Int /\ b + 1 + x + y = due' - vanished'
    BY <1>1, <1>2, <1>3
  <2>7. Balanced'
    BY <1>1, <1>2, <2>1, <2>5, <2>6 DEF Balanced
  <2> QED
    BY <1>4, <2>3, <2>4, <2>7 DEF Good
<1>6. CASE game # "NotIn"
  <2>1. PICK e \in ToTable : /\ ~IsEnter(e) /\ Worth(e) = 1 /\ toMJ' = Append(toMJ, e)
                             /\ coin' = coin
    <3>1. [kind |-> "add", room |-> at, n |-> 1] \in ToTable
      BY MessageTypes DEF Sound
    <3> QED
      BY <1>1, <1>6, <3>1 DEF AddMoney, IsEnter, Worth
  <2>2. Msgs(toMJ') = Msgs(toMJ) \cup {e}
    BY <2>1, SentIs DEF Sound, CoinsType
  <2>3. OneEnter'
    BY <2>1, OneEnterSent DEF Sound, Good
  <2>4. Placed'
    BY <1>1, <2>1, <2>2
       DEF Sound, Good, Placed, Away, Sits, Reported, Known, Told, EnterRight, AnswerRight, Stays
  <2>5. Base(b)'
    BY <1>1, <1>2, <2>1 DEF Base, Away, Sits, Reported
  <2>6. x + 1 \in Int /\ b + (x + 1) + y = due' - vanished'
    BY <1>1, <1>2, <1>3
  <2>7. Carries(toMJ', x + 1)
    BY <1>2, <2>1, CarriesSent, QueueTypes DEF Sound
  <2>8. Balanced'
    BY <1>1, <1>2, <2>5, <2>6, <2>7 DEF Balanced
  <2> QED
    BY <1>4, <2>3, <2>4, <2>8 DEF Good
<1> QED
  BY <1>5, <1>6

LEMMA SpendGood ==
  ASSUME Sound, Spend
  PROVE  Good'
<1>1. /\ coin' = coin - 1 /\ due' = due - 1 /\ game = "NotIn"
      /\ UNCHANGED <<game, at, toMJ, toDS, seat, loser, real, running, settles, vanished, heard>>
  BY DEF Spend, tables, Sound
<1>2. PICK b \in Int, x \in Int, y \in Int :
        Base(b) /\ Carries(toMJ, x) /\ Carries(toDS, y) /\ b + x + y = due - vanished
  BY DEF Sound, Good, Balanced
<1>3. due \in Int /\ vanished \in Nat /\ coin \in Nat
  BY DEF Sound, CoinsType
<1>4. OneEnter' /\ Ordered' /\ Numbered'
  BY <1>1 DEF Sound, Good, OneEnter, Ordered, Numbered, Away, Sits, Reported
<1>5. Away /\ ~Reported /\ b = coin
  BY <1>1, <1>2 DEF Sound, Good, Placed, Base
<1>6. Placed'
  BY <1>1 DEF Sound, Good, Placed, Away, Sits, Reported, Known, Told, AnswerRight, Stays
<1>7. Base(b - 1)'
  BY <1>1, <1>5 DEF Base, Away, Sits, Reported
<1>8. b - 1 \in Int /\ b - 1 + x + y = due' - vanished'
  BY <1>1, <1>2, <1>3
<1>9. Balanced'
  BY <1>1, <1>2, <1>7, <1>8 DEF Balanced
<1> QED
  BY <1>4, <1>6, <1>9 DEF Good

LEMMA ServeEnterGood ==
  ASSUME Sound, ServeEnter
  PROVE  Good'
<1>1. /\ toMJ # <<>> /\ toMJ' = Tail(toMJ) /\ Head(toMJ).kind = "enter"
      /\ UNCHANGED <<coin, game, at, loser, running, settles, due, vanished, heard>>
  BY DEF ServeEnter, server
<1>2. PICK m \in ToTable : m = Head(toMJ) /\ m = toMJ[1] /\ m \in Msgs(toMJ) /\ IsEnter(m)
  BY <1>1, HeardIs DEF Sound, CoinsType, IsEnter
<1>3. Worth(m) = 0 /\ m.n \in Nat /\ m.room \in MaybeRoom
  BY <1>2, Kinds DEF IsEnter, Worth
<1>4. Msgs(toMJ') \subseteq Msgs(toMJ)
  BY <1>1, HeardIs, QueueTypes DEF Sound
<1>5. OneEnter' /\ \A e \in Msgs(toMJ') : ~IsEnter(e)
  BY <1>1, <1>2, OneEnterHeard DEF Sound, Good
<1>6. EnterRight(m)
  BY <1>2 DEF Sound, Good, Placed
<1>7. /\ game = "Entering" /\ \A a \in Msgs(toDS) : ~IsAnswer(a) /\ ~IsFirst(a) /\ ~IsAgain(a)
      /\ Sits("public") => ~Sits("private")
  BY <1>6 DEF EnterRight, Sound, Good, Placed
<1>8. /\ Empty \notin Nat /\ \A r \in Rooms : seat[r] # Empty => seat[r] \in Nat
      /\ seat["public"] = Empty => loser = "no"
      /\ seat \in [Rooms -> Nat \cup {Empty}] /\ real \in Nat
  BY MessageTypes DEF Sound, CoinsType
<1>9. PICK b \in Int, x \in Int, y \in Int :
        Base(b) /\ Carries(toMJ, x) /\ Carries(toDS, y) /\ b + x + y = due - vanished
  BY DEF Sound, Good, Balanced
<1>10. Carries(toMJ', x)
  <2>1. Carries(toMJ', x - 0)
    BY <1>1, <1>2, <1>3, <1>9, CarriesHeard, QueueTypes DEF Sound
  <2> QED
    BY <2>1
<1>11. ASSUME NEW r \in MaybeRoom, toDS' = Append(toDS, [kind |-> "answer", room |-> r]),
              r \in Rooms => Sits(r)', r = NoRoom => Away',
              Sits("public")' => ~Sits("private")',
              Sits("public")' => b = seat'["public"], Sits("private")' => b = real',
              Away' => Away
       PROVE  Good'
  <2>1. PICK a \in ToServer : /\ toDS' = Append(toDS, a) /\ a.room = r /\ Worth(a) = 0
                              /\ IsAnswer(a) /\ ~IsFirst(a) /\ ~IsAgain(a) /\ ~IsSync(a)
    <3>1. [kind |-> "answer", room |-> r] \in ToServer
      BY MessageTypes DEF Sound
    <3> QED
      BY <1>11, <3>1 DEF IsAnswer, IsFirst, IsAgain, IsSync, Worth
  <2>2. Msgs(toDS') = Msgs(toDS) \cup {a}
    BY <2>1, SentIs DEF Sound, CoinsType
  <2>3. Ordered'
    BY <1>7, <2>1, OrderedSent DEF Sound, Good
  <2>4. ~Reported /\ ~Reported'
    BY <1>7, <2>1, <2>2 DEF Reported
  <2>5. AnswerRight(a)'
    BY <1>1, <1>7, <1>11, <2>1, <2>4, Constants DEF AnswerRight, Known
  <2>6. Placed'
    BY <1>1, <1>5, <1>7, <1>11, <2>1, <2>2, <2>5 DEF Placed
  <2>7. Numbered'
    BY <1>1, <1>11, <2>1, <2>2, <2>4 DEF Sound, Good, Numbered
  <2>8. Base(b)'
    BY <1>1, <1>7, <1>9, <1>11, <2>1, <2>2, <2>4 DEF Base
  <2>9. Carries(toDS', y)
    <3>1. Carries(toDS', y + 0)
      BY <1>9, <2>1, CarriesSent, QueueTypes DEF Sound
    <3> QED
      BY <3>1
  <2>10. Balanced'
    BY <1>1, <1>9, <1>10, <2>8, <2>9 DEF Balanced
  <2> QED
    BY <1>5, <2>3, <2>6, <2>7, <2>10 DEF Good
<1>12. CASE ComeBack(m)
  <2>1. PICK r \in Rooms :
          /\ seat[r] # Empty /\ m.room = r /\ (r = "public" => loser = "no")
          /\ real' = IF r = "private" THEN m.n ELSE real
          /\ r = "private" => m.n = real
          /\ toDS' = Append(toDS, [kind |-> "answer", room |-> r]) /\ UNCHANGED seat
    BY <1>12 DEF ComeBack, Sound
  <2>2. UNCHANGED <<seat, loser, real>> /\ Sits(r)
    BY <1>1, <2>1 DEF Sits
  <2>3. /\ \A q \in Rooms : Sits(q)' <=> Sits(q)
        /\ Away' <=> Away
    BY <2>2 DEF Away, Sits
  <2>4. r \in MaybeRoom /\ r # NoRoom /\ "public" \in Rooms /\ "private" \in Rooms
    BY Constants
  <2>5. /\ Sits("public")' => b = seat'["public"]
        /\ Sits("private")' => b = real'
    BY <1>9, <2>2, <2>3, <2>4 DEF Base
  <2> QED
    BY <1>7, <1>11, <2>1, <2>2, <2>3, <2>4, <2>5
<1>13. CASE SitDown(m)
  <2>1. PICK r \in Rooms :
          /\ seat[r] = Empty /\ (m.room = r \/ (m.room = NoRoom /\ r = "public"))
          /\ seat' = [seat EXCEPT ![r] = IF r = "private" THEN Points ELSE m.n]
          /\ real' = IF r = "private" THEN m.n ELSE real
          /\ toDS' = Append(toDS, [kind |-> "answer", room |-> r])
    BY <1>13 DEF SitDown
  <2>2. Away /\ m.n = coin
    BY <1>6, <2>1, Constants DEF EnterRight, Sits
  <2>3. b = m.n
    BY <1>7, <1>9, <2>2 DEF Base, Reported
  <2>4. /\ r \in MaybeRoom /\ r # NoRoom /\ "public" \in Rooms /\ "private" \in Rooms
        /\ Points \in Nat /\ r \in {"public", "private"}
    BY Constants
  <2>5. /\ seat'[r] # Empty /\ (r = "public" => loser' = "no" /\ seat'[r] = m.n)
        /\ \A q \in Rooms : q # r => seat'[q] = seat[q]
    BY <1>1, <1>3, <1>8, <2>1, <2>4
  <2>6. Sits(r)' /\ \A q \in Rooms : q # r => ~Sits(q)'
    <3>1. Sits(r)'
      BY <2>5 DEF Sits
    <3>2. \A q \in Rooms : q = "public" \/ q = "private"
      BY Constants
    <3>3. \A q \in Rooms : ~Sits(q)
      BY <2>2, <3>2 DEF Away
    <3>4. \A q \in Rooms : q # r => ~Sits(q)'
      BY <1>1, <2>5, <3>3 DEF Sits
    <3> QED
      BY <3>1, <3>4
  <2>7. /\ Sits("public")' => b = seat'["public"]
        /\ Sits("private")' => b = real'
        /\ Sits("public")' => ~Sits("private")'
    BY <2>1, <2>3, <2>4, <2>5, <2>6
  <2> QED
    BY <1>11, <2>1, <2>2, <2>4, <2>6, <2>7
<1>14. CASE Refuse(m)
  <2>1. /\ m.room \in Rooms => seat[m.room] = Empty \/ (m.room = "public" /\ loser # "no")
        /\ toDS' = Append(toDS, [kind |-> "answer", room |-> NoRoom])
        /\ UNCHANGED <<seat, real>>
    BY <1>14 DEF Refuse
  <2>2. Away
    BY <1>6, <2>1 DEF EnterRight, Sits
  <2>3. Away' /\ ~Sits("public")' /\ ~Sits("private")' /\ NoRoom \in MaybeRoom /\ NoRoom \notin Rooms
    BY <1>1, <2>1, <2>2, Constants DEF Away, Sits
  <2> QED
    BY <1>11, <2>1, <2>2, <2>3
<1> QED
  BY <1>2, <1>12, <1>13, <1>14 DEF ServeEnter

LEMMA ServeAddGood ==
  ASSUME Sound, ServeAdd
  PROVE  Good'
<1>1. /\ toMJ # <<>> /\ toMJ' = Tail(toMJ) /\ Head(toMJ).kind = "add"
      /\ UNCHANGED <<coin, game, at, loser, real, running, settles, due, heard>>
  BY DEF ServeAdd, server
<1>2. PICK m \in ToTable : m = Head(toMJ) /\ m.kind = "add"
  BY <1>1, HeardIs, QueueTypes DEF Sound
<1>3. PICK n \in Nat : m.n = n /\ Worth(m) = n
  BY <1>2, Kinds DEF Worth
<1>4. Msgs(toMJ') \subseteq Msgs(toMJ)
  BY <1>1, HeardIs, QueueTypes DEF Sound
<1>5. OneEnter'
  BY <1>1, <1>2, OneEnterHeard DEF Sound, Good
<1>6. /\ Empty \notin Nat /\ Empty \in Int /\ \A r \in Rooms : seat[r] # Empty => seat[r] \in Nat
      /\ seat \in [Rooms -> Nat \cup {Empty}] /\ due \in Int /\ vanished \in Nat
      /\ loser \in {"no", "lost", "gone"}
  BY MessageTypes DEF Sound, CoinsType
<1>7. PICK b \in Int, x \in Int, y \in Int :
        Base(b) /\ Carries(toMJ, x) /\ Carries(toDS, y) /\ b + x + y = due - vanished
  BY DEF Sound, Good, Balanced
<1>8. Carries(toMJ', x - n)
  <2>1. toMJ \in Seq(ToTable) /\ toMJ # <<>> /\ Worth(Head(toMJ)) = n /\ n \in Int
    BY <1>1, <1>2, <1>3, QueueTypes DEF Sound
  <2>2. Carries(Tail(toMJ), x - Worth(Head(toMJ)))
    BY <1>7, <2>1, CarriesHeard
  <2> QED
    BY <1>1, <2>1, <2>2
<1>9. ASSUME NEW a, ~IsAnswer(a), ~IsFirst(a), ~IsAgain(a), ~IsSync(a),
             Msgs(toDS) \subseteq Msgs(toDS'), Msgs(toDS') \subseteq Msgs(toDS) \cup {a}, Ordered',
             Sits("public")' <=> Sits("public"), Sits("private")' <=> Sits("private"),
             NEW b2 \in Int, NEW y2 \in Int, b2 + (x - n) + y2 = due' - vanished',
             Carries(toDS', y2),
             b2 = b \/ Sits("public"),
             Sits("public") => b2 = seat'["public"]
      PROVE  Good'
  <2>1. /\ Reported' <=> Reported
        /\ Away' <=> Away
        /\ \A r \in Rooms : Known(r)' <=> Known(r)
        /\ \A r : Told(r)' <=> Told(r)
        /\ \A r \in Rooms : Sits(r)' <=> Sits(r)
    <3>1. \A r \in Rooms : r = "public" \/ r = "private"
      BY Constants
    <3>2. \A r \in Rooms : Sits(r)' <=> Sits(r)
      BY <1>9, <3>1
    <3> QED
      BY <1>9, <3>2 DEF Away, Reported, Known, Told
  <2>2. \A e \in Msgs(toMJ') : IsEnter(e) => EnterRight(e)'
    <3>1. \A e \in Msgs(toMJ') : IsEnter(e) => EnterRight(e)
      BY <1>4 DEF Sound, Good, Placed
    <3> QED
      BY <1>1, <1>9, <2>1, <3>1 DEF EnterRight
  <2>3. \A e \in Msgs(toDS') : IsAnswer(e) => AnswerRight(e)'
    <3>1. \A e \in Msgs(toDS') : IsAnswer(e) => AnswerRight(e)
      BY <1>9 DEF Sound, Good, Placed
    <3> QED
      BY <1>1, <1>9, <2>1, <3>1 DEF AnswerRight
  <2>4. Placed'
    <3>1. game = "StayIn" => at \in Rooms
      BY Constants DEF Sound, CoinsType
    <3> QED
      BY <1>1, <1>4, <1>9, <2>1, <2>2, <2>3, <3>1 DEF Sound, Good, Placed, Stays
  <2>5. Numbered'
    BY <1>1, <1>9, <2>1 DEF Sound, Good, Numbered
  <2>6. Base(b2)'
    <3>1. Sits("public") => /\ ~Sits("private") /\ ~Away
                            /\ \A e \in Msgs(toDS) : ~IsFirst(e)
      BY DEF Away, Sound, Good, Placed
    <3>2. CASE Sits("public")
      BY <1>9, <2>1, <3>1, <3>2 DEF Base
    <3>3. CASE ~Sits("public")
      BY <1>1, <1>7, <1>9, <2>1, <3>3 DEF Base
    <3> QED
      BY <3>2, <3>3
  <2>7. Balanced'
    <3>1. x - n \in Int
      OBVIOUS
    <3> QED
      BY <1>8, <1>9, <2>6, <3>1 DEF Balanced
  <2> QED
    BY <1>5, <1>9, <2>4, <2>5, <2>7 DEF Good
<1>10. ASSUME UNCHANGED toDS
       PROVE  Ordered'
  BY <1>10 DEF Sound, Good, Ordered
<1>11. PICK a \in ToServer : /\ a = [kind |-> "back", room |-> "private", n |-> n]
                             /\ ~IsAnswer(a) /\ ~IsFirst(a) /\ ~IsAgain(a) /\ ~IsSync(a)
                             /\ Worth(a) = n
  <2>1. [kind |-> "back", room |-> "private", n |-> n] \in ToServer
    BY MessageTypes DEF Sound
  <2> QED
    BY <2>1 DEF IsAnswer, IsFirst, IsAgain, IsSync, Worth
<1>12. CASE /\ seat["public"] # Empty /\ seat' = [seat EXCEPT !["public"] = @ + n]
            /\ vanished' = IF loser = "gone" THEN vanished + n ELSE vanished
            /\ UNCHANGED toDS
  <2>1. /\ seat["public"] \in Nat /\ seat'["public"] = seat["public"] + n
        /\ seat'["private"] = seat["private"] /\ seat'["public"] # Empty
    BY <1>3, <1>6, <1>12, Constants
  <2>2. /\ Sits("public")' <=> Sits("public")
        /\ Sits("private")' <=> Sits("private")
    BY <1>1, <1>12, <2>1 DEF Sits
  <2>3. Ordered'
    BY <1>10, <1>12
  <2>4. CASE Sits("public")
    <3>1. b = seat["public"] /\ loser # "gone"
      BY <1>7, <2>4 DEF Base, Sits
    <3>2. b + n \in Int /\ b + n + (x - n) + y = due' - vanished' /\ b + n = seat'["public"]
      BY <1>1, <1>6, <1>7, <1>12, <2>1, <3>1
    <3> QED
      BY <1>7, <1>9, <1>11, <1>12, <2>2, <2>3, <2>4, <3>2
  <2>5. CASE ~Sits("public")
    <3>1. loser = "gone"
      BY <1>12, <2>5 DEF Sits
    <3>2. b + (x - n) + y = due' - vanished'
      BY <1>1, <1>6, <1>7, <1>12, <3>1
    <3> QED
      BY <1>7, <1>9, <1>11, <1>12, <2>2, <2>3, <2>5, <3>2
  <2> QED
    BY <2>4, <2>5
<1>13. CASE toDS' = Append(toDS, a) /\ UNCHANGED <<seat, vanished>>
  <2>1. Msgs(toDS') = Msgs(toDS) \cup {a}
    BY <1>11, <1>13, SentIs DEF Sound, CoinsType
  <2>2. Ordered'
    BY <1>11, <1>13, OrderedSent DEF Sound, Good
  <2>3. Carries(toDS', y + n)
    <3>1. toDS \in Seq(ToServer) /\ Worth(a) \in Int
      BY <1>11 DEF Sound, CoinsType
    <3>2. Carries(Append(toDS, a), y + Worth(a))
      BY <1>7, <1>11, <3>1, CarriesSent
    <3> QED
      BY <1>11, <1>13, <3>2
  <2>4. y + n \in Int /\ b + (x - n) + (y + n) = due' - vanished'
    BY <1>1, <1>6, <1>7, <1>13
  <2>5. /\ Sits("public")' <=> Sits("public")
        /\ Sits("private")' <=> Sits("private")
        /\ Sits("public") => b = seat'["public"]
    BY <1>1, <1>7, <1>13 DEF Sits, Base
  <2> QED
    BY <1>7, <1>9, <1>11, <2>1, <2>2, <2>3, <2>4, <2>5
<1>14. CASE vanished' = vanished + n /\ UNCHANGED <<seat, toDS>>
  <2>1. b + (x - n) + y = due' - vanished'
    BY <1>1, <1>6, <1>7, <1>14
  <2>2. /\ Sits("public")' <=> Sits("public")
        /\ Sits("private")' <=> Sits("private")
        /\ Sits("public") => b = seat'["public"]
    BY <1>1, <1>7, <1>14 DEF Sits, Base
  <2>3. Ordered'
    BY <1>10, <1>14
  <2> QED
    BY <1>7, <1>9, <1>11, <1>14, <2>1, <2>2, <2>3
<1> QED
  BY <1>2, <1>3, <1>11, <1>12, <1>13, <1>14 DEF ServeAdd

LEMMA StartGameGood ==
  ASSUME Sound, StartGame
  PROVE  Good'
<1>1. /\ seat["public"] # Empty /\ loser = "no" /\ seat["public"] >= DeskFee
      /\ seat' = [seat EXCEPT !["public"] = @ - DeskFee] /\ due' = due - DeskFee
      /\ UNCHANGED <<coin, game, at, toMJ, toDS, loser, real, running, settles, vanished, heard>>
  BY DEF StartGame, server
<1>2. /\ Empty \notin Nat /\ seat["public"] \in Nat /\ seat \in [Rooms -> Nat \cup {Empty}]
      /\ DeskFee \in Nat /\ due \in Int /\ vanished \in Nat
  BY <1>1, MessageTypes, Constants DEF Sound, CoinsType
<1>3. /\ seat'["public"] = seat["public"] - DeskFee /\ seat'["public"] # Empty
      /\ seat'["private"] = seat["private"]
  BY <1>1, <1>2, Constants
<1>4. PICK b \in Int, x \in Int, y \in Int :
        Base(b) /\ Carries(toMJ, x) /\ Carries(toDS, y) /\ b + x + y = due - vanished
  BY DEF Sound, Good, Balanced
<1>5. Sits("public") /\ ~Sits("private") /\ ~Away /\ \A m \in Msgs(toDS) : ~IsFirst(m)
  BY <1>1 DEF Sound, Good, Placed, Sits, Away
<1>6. /\ \A r \in Rooms : Sits(r)' <=> Sits(r)
      /\ "public" \in Rooms /\ "private" \in Rooms
  <2>1. \A r \in Rooms : r = "public" \/ r = "private"
    BY Constants
  <2> QED
    BY <1>1, <1>3, <2>1, Constants DEF Sits
<1>7. OneEnter' /\ Ordered' /\ Numbered'
  BY <1>1, <1>5, <1>6 DEF Sound, Good, OneEnter, Ordered, Numbered, Away, Reported
<1>8. Placed'
  <2>1. game = "StayIn" => at \in Rooms
    BY Constants DEF Sound, CoinsType
  <2>2. \A m \in Msgs(toMJ') : IsEnter(m) => EnterRight(m)'
    BY <1>1, <1>5, <1>6 DEF Sound, Good, Placed, EnterRight, Away
  <2>3. \A m \in Msgs(toDS') : IsAnswer(m) => AnswerRight(m)'
    BY <1>1, <1>5, <1>6 DEF Sound, Good, Placed, AnswerRight, Away, Known, Reported
  <2> QED
    BY <1>1, <1>5, <1>6, <2>1, <2>2, <2>3 DEF Sound, Good, Placed, Away, Reported, Known, Told, Stays
<1>9. Base(b - DeskFee)'
  BY <1>1, <1>3, <1>4, <1>5, <1>6 DEF Base, Away
<1>10. b - DeskFee \in Int /\ b - DeskFee + x + y = due' - vanished'
  BY <1>1, <1>2, <1>4
<1>11. Balanced'
  BY <1>1, <1>4, <1>9, <1>10 DEF Balanced
<1> QED
  BY <1>7, <1>8, <1>11 DEF Good

LEMMA AddOffsetGood ==
  ASSUME Sound, NEW r \in Rooms, NEW n \in {-1, 1}, AddOffset(r, n)
  PROVE  Good'
<1>1. /\ seat[r] # Empty /\ seat[r] + n >= 0 /\ (r = "public" => loser = "no")
      /\ settles' = settles + 1 /\ seat' = [seat EXCEPT ![r] = @ + n]
      /\ due' = IF r = "public" THEN due + n ELSE due
      /\ running' = running \cup {Request(seat[r] + n)}
      /\ toDS' = Append(toDS, Request(seat[r] + n))
      /\ UNCHANGED <<coin, game, at, toMJ, loser, real, vanished, heard>>
  BY DEF AddOffset, server
<1>2. /\ Empty \notin Nat /\ seat[r] \in Nat /\ seat \in [Rooms -> Nat \cup {Empty}]
      /\ due \in Int /\ vanished \in Nat /\ settles \in Nat /\ n \in Int
      /\ "public" \in Rooms /\ "private" \in Rooms
  BY <1>1, MessageTypes, Constants DEF Sound, CoinsType
<1>3. /\ seat'[r] = seat[r] + n /\ seat'[r] # Empty
      /\ \A q \in Rooms : q # r => seat'[q] = seat[q]
  BY <1>1, <1>2
<1>4. PICK m \in Sync : m = Request(seat[r] + n) /\ m \in ToServer /\ m.num = settles + 1
  <2>1. seat[r] + n \in Nat
    BY <1>1, <1>2
  <2> QED
    BY <2>1, MessageTypes DEF Sound, Request
<1>5. ~IsAnswer(m) /\ ~IsFirst(m) /\ ~IsAgain(m) /\ Worth(m) = 0
  BY <1>4, Kinds DEF IsAnswer, IsFirst, IsAgain, Worth
<1>6. Msgs(toDS') = Msgs(toDS) \cup {m}
  BY <1>1, <1>4, SentIs DEF Sound, CoinsType
<1>7. PICK b \in Int, x \in Int, y \in Int :
        Base(b) /\ Carries(toMJ, x) /\ Carries(toDS, y) /\ b + x + y = due - vanished
  BY DEF Sound, Good, Balanced
<1>8. \A q \in Rooms : Sits(q)' <=> Sits(q)
  BY <1>1, <1>3 DEF Sits
<1>9. /\ Sits(r) /\ ~Away /\ ~Away' /\ \A e \in Msgs(toDS) : ~IsFirst(e) /\ ~IsAgain(e)
      /\ \A q \in Rooms : q # r => ~Sits(q)
  <2>1. Sits(r)
    BY <1>1 DEF Sits
  <2>2. \A q \in Rooms : q = "public" \/ q = "private"
    BY Constants
  <2>3. ~Away /\ ~Away'
    BY <1>2, <1>8, <2>1, <2>2 DEF Away
  <2> QED
    BY <1>2, <2>1, <2>2, <2>3 DEF Sound, Good, Placed
<1>10. OneEnter'
  BY <1>1 DEF Sound, Good, OneEnter
<1>11. Ordered'
  BY <1>1, <1>4, <1>5, OrderedSent DEF Sound, Good
<1>12. Placed'
  <2>1. game = "StayIn" => at \in Rooms
    BY Constants DEF Sound, CoinsType
  <2>2. \A e \in Msgs(toMJ') : IsEnter(e) => EnterRight(e)'
    BY <1>1, <1>5, <1>6, <1>8, <1>9 DEF Sound, Good, Placed, EnterRight
  <2>3. \A e \in Msgs(toDS') : IsAnswer(e) => AnswerRight(e)'
    BY <1>1, <1>5, <1>6, <1>8, <1>9 DEF Sound, Good, Placed, AnswerRight, Known
  <2>4. /\ \A e \in Msgs(toDS') : ~IsFirst(e) /\ ~IsAgain(e)
        /\ Sits("public")' => ~Sits("private")'
        /\ game # "NotIn" /\ (game = "StayIn" => Sits(at)')
    <3>1. \A e \in Msgs(toDS') : ~IsFirst(e) /\ ~IsAgain(e)
      BY <1>5, <1>6, <1>9
    <3>2. Sits("public")' => ~Sits("private")'
      BY <1>2, <1>8 DEF Sound, Good, Placed
    <3>3. game # "NotIn" /\ (game = "StayIn" => Sits(at))
      BY <1>9 DEF Sound, Good, Placed, Known
    <3>4. game = "StayIn" => Sits(at)'
      BY <1>1, <1>8, <2>1, <3>3
    <3> QED
      BY <3>1, <3>2, <3>3, <3>4
  <2> QED
    BY <1>1, <1>5, <1>6, <2>2, <2>3, <2>4 DEF Sound, Good, Placed, Known
<1>13. Numbered'
  <2>1. \A q \in running' : q.num <= settles'
    <3>1. \A q \in running : q.num \in Nat /\ q.num <= settles
      BY Kinds DEF Sound, CoinsType, Good, Numbered
    <3> QED
      BY <1>1, <1>2, <1>4, <3>1
  <2>2. \A e \in Msgs(toDS') : IsSync(e) => e.num <= settles'
    <3>1. \A e \in Msgs(toDS) : IsSync(e) => e.num \in Nat /\ e.num <= settles
      BY Kinds, MsgsType DEF Sound, Good, Numbered, IsSync
    <3>2. m.num <= settles'
      BY <1>1, <1>2, <1>4
    <3>3. ASSUME NEW e \in Msgs(toDS), IsSync(e)
          PROVE  e.num <= settles'
      BY <1>1, <1>2, <3>1, <3>3
    <3> QED
      BY <1>6, <3>2, <3>3
  <2> QED
    BY <1>5, <1>6, <1>9, <2>1, <2>2 DEF Numbered
<1>14. Carries(toDS', y)
  <2>1. Carries(toDS', y + 0)
    <3>1. toDS \in Seq(ToServer) /\ m \in ToServer /\ Worth(m) = 0 /\ 0 \in Int
      BY <1>4, <1>5, QueueTypes DEF Sound, ToServer
    <3>2. Carries(Append(toDS, m), y + Worth(m))
      BY <1>7, <3>1, CarriesSent
    <3> QED
      BY <1>1, <1>4, <3>1, <3>2
  <2> QED
    BY <2>1
<1>15. \A e \in Msgs(toDS') : ~IsFirst(e)
  BY <1>5, <1>6, <1>9
<1>16. CASE r = "public"
  <2>1. b = seat["public"]
    BY <1>7, <1>9, <1>16 DEF Base
  <2>2. Base(b + n)'
    BY <1>1, <1>2, <1>3, <1>8, <1>9, <1>15, <1>16, <2>1 DEF Base
  <2>3. b + n \in Int /\ b + n + x + y = due' - vanished'
    BY <1>1, <1>2, <1>7, <1>16
  <2>4. Balanced'
    BY <1>1, <1>7, <1>14, <2>2, <2>3 DEF Balanced
  <2> QED
    BY <1>10, <1>11, <1>12, <1>13, <2>4 DEF Good
<1>17. CASE r # "public"
  <2>1. Base(b)'
    BY <1>1, <1>2, <1>7, <1>8, <1>9, <1>15, <1>17 DEF Base
  <2>2. Balanced'
    BY <1>1, <1>7, <1>14, <1>17, <2>1 DEF Balanced
  <2> QED
    BY <1>10, <1>11, <1>12, <1>13, <2>2 DEF Good
<1> QED
  BY <1>16, <1>17

LEMMA DecideLoseGood ==
  ASSUME Sound, DecideLose
  PROVE  Good'
<1>1. /\ seat["public"] = 0 /\ loser = "no" /\ loser' = "lost"
      /\ UNCHANGED <<coin, game, at, toMJ, toDS, seat, real, running, settles, due, vanished, heard>>
  BY DEF DecideLose, server
<1>2. \A r \in Rooms : Sits(r)' <=> Sits(r)
  BY <1>1 DEF Sits
<1>3. Away' <=> Away
  BY <1>1 DEF Away, Sits
<1>4. \A m \in Msgs(toMJ) : ~IsEnter(m)
  <2>1. SUFFICES ASSUME NEW m \in Msgs(toMJ), IsEnter(m)
                 PROVE  FALSE
    OBVIOUS
  <2>2. game = "Entering" /\ \A a \in Msgs(toDS) : ~IsAnswer(a)
    BY <2>1 DEF Sound, Good, Placed, EnterRight
  <2>3. \A j \in 1..Len(toDS) : ~IsAnswer(toDS[j])
    BY <2>2 DEF Msgs
  <2>4. Forgotten'
    BY <1>1, <2>2, <2>3 DEF Forgotten, Stays, Empty
  <2> QED
    BY <2>4 DEF Sound, Doomed
<1>5. OneEnter' /\ Ordered' /\ Numbered'
  BY <1>1, <1>3 DEF Sound, Good, OneEnter, Ordered, Numbered, Reported
<1>6. Placed'
  <2>1. game = "StayIn" => at \in Rooms
    BY Constants DEF Sound, CoinsType
  <2>2. \A m \in Msgs(toDS') : IsAnswer(m) => AnswerRight(m)'
    BY <1>1, <1>2, <1>3 DEF Sound, Good, Placed, AnswerRight, Known, Reported
  <2>3. Sits("public")' => ~Sits("private")'
    BY <1>2, Constants DEF Sound, Good, Placed
  <2> QED
    BY <1>1, <1>2, <1>3, <1>4, <2>1, <2>2, <2>3 DEF Sound, Good, Placed, Reported, Known, Told, Stays
<1>7. Balanced'
  <2>1. PICK b \in Int, x \in Int, y \in Int :
          Base(b) /\ Carries(toMJ, x) /\ Carries(toDS, y) /\ b + x + y = due - vanished
    BY DEF Sound, Good, Balanced
  <2>2. Base(b)'
    BY <1>1, <1>2, <1>3, <2>1, Constants DEF Base, Reported
  <2> QED
    BY <1>1, <2>1, <2>2 DEF Balanced
<1> QED
  BY <1>5, <1>6, <1>7 DEF Good

(* The table at which the player has played reports him.                        *)
LEMMA FirstGood ==
  ASSUME Sound, NEW r \in Rooms, Sits(r), Away',
         NEW m \in ToServer, toDS' = Append(toDS, m), IsFirst(m), m.room = r, m.num = settles,
         m.n = IF r = "public" THEN seat["public"] ELSE real,
         UNCHANGED <<coin, game, at, toMJ, real, running, settles, due, vanished, heard>>
  PROVE  Good'
<1>1. ~IsAnswer(m) /\ ~IsAgain(m) /\ ~IsSync(m) /\ Worth(m) = 0
  BY DEF IsFirst, IsAnswer, IsAgain, IsSync, Worth
<1>2. /\ Msgs(toDS') = Msgs(toDS) \cup {m} /\ Len(toDS) \in Nat
      /\ Len(toDS') = Len(toDS) + 1 /\ toDS'[Len(toDS) + 1] = m
      /\ \A j \in 1..Len(toDS) : toDS'[j] = toDS[j]
  BY SentIs DEF Sound, CoinsType
<1>3. "public" \in Rooms /\ "private" \in Rooms /\ \A q \in Rooms : q = "public" \/ q = "private"
  BY Constants
<1>4. /\ ~Away /\ \A q \in Rooms : q # r => ~Sits(q)
      /\ \A q \in Rooms : ~Sits(q)'
      /\ \A e \in Msgs(toDS) : ~IsFirst(e) /\ ~IsAgain(e)
  BY <1>3 DEF Sound, Good, Placed, Away
<1>5. Stays(r)' \/ \E a \in Msgs(toDS) : IsAnswer(a) /\ a.room = r
  <2>1. PICK k \in 1..Len(toDS') : k = Len(toDS) + 1
    BY <1>2
  <2>2. ~Astray(k)'
    BY DEF Sound, Doomed
  <2>3. IsFirst(toDS'[k]) /\ toDS'[k].room = r
    BY <1>2, <2>1
  <2>4. \A j \in 1..k - 1 : j \in 1..Len(toDS) /\ toDS'[j] = toDS[j]
    BY <1>2, <2>1
  <2> QED
    BY <2>2, <2>3, <2>4 DEF Astray, Stays, Msgs
<1>6. game # "NotIn" /\ \A e \in Msgs(toMJ) : ~IsEnter(e)
  BY <1>4, <1>5 DEF Sound, Good, Placed, EnterRight, Stays
<1>7. OneEnter'
  BY DEF Sound, Good, OneEnter
<1>8. Ordered'
  BY <1>1, <1>4, OrderedSent DEF Sound, Good
<1>9. Reported' /\ Known(r)'
  BY <1>2 DEF Reported, Known
<1>10. Placed'
  <2>1. \A e \in Msgs(toDS') : IsAnswer(e) => AnswerRight(e)'
    <3>1. SUFFICES ASSUME NEW e \in Msgs(toDS), IsAnswer(e)
                   PROVE  AnswerRight(e)'
      BY <1>1, <1>2
    <3>2. game = "Entering" /\ e.room \in Rooms /\ Known(e.room)
      BY <1>4, <3>1 DEF Sound, Good, Placed, AnswerRight
    <3>3. e.room = r
      BY <1>4, <3>2 DEF Known
    <3> QED
      BY <1>9, <3>2, <3>3 DEF AnswerRight
  <2>2. game = "StayIn" => at = r
    BY <1>5 DEF Sound, Good, Placed, Stays
  <2>3. game # "Entering" => \A e \in Msgs(toDS') : ~IsAnswer(e)
    BY <1>1, <1>2 DEF Sound, Good, Placed
  <2>4. \A e \in Msgs(toDS') : IsFirst(e) => Stays(e.room)' \/ Told(e.room)'
    BY <1>2, <1>4, <1>5 DEF Told
  <2>5. \A e \in Msgs(toDS') : ~IsAgain(e)
    BY <1>1, <1>2, <1>4
  <2>6. ~Sits("public")'
    BY DEF Away
  <2> QED
    BY <1>6, <1>9, <2>1, <2>2, <2>3, <2>4, <2>5, <2>6 DEF Placed
<1>11. Numbered'
  BY <1>1, <1>2, <1>9 DEF Sound, Good, Numbered
<1>12. Balanced'
  <2>1. PICK b \in Int, x \in Int, y \in Int :
          Base(b) /\ Carries(toMJ, x) /\ Carries(toDS, y) /\ b + x + y = due - vanished
    BY DEF Sound, Good, Balanced
  <2>2. b = m.n
    BY <1>3, <2>1 DEF Base
  <2>3. Base(b)'
    BY <1>2, <1>3, <1>4, <1>9, <2>2 DEF Base
  <2>4. Carries(toDS', y)
    <3>1. Carries(toDS', y + 0)
      BY <1>1, <2>1, CarriesSent, QueueTypes DEF Sound
    <3> QED
      BY <3>1
  <2> QED
    BY <2>1, <2>3, <2>4 DEF Balanced
<1> QED
  BY <1>7, <1>8, <1>10, <1>11, <1>12 DEF Good

(* The public table reports again a loser who has left it.                      *)
LEMMA AgainGood ==
  ASSUME Sound, loser = "gone", seat'["private"] = seat["private"],
         seat'["public"] = Empty \/ loser' = "gone",
         NEW m \in ToServer, toDS' = Append(toDS, m), IsAgain(m), m.num = settles,
         UNCHANGED <<coin, game, at, toMJ, real, running, settles, due, vanished, heard>>
  PROVE  Good'
<1>1. ~IsAnswer(m) /\ ~IsFirst(m) /\ ~IsSync(m) /\ Worth(m) = 0
  BY DEF IsFirst, IsAnswer, IsAgain, IsSync, Worth
<1>2. /\ Msgs(toDS') = Msgs(toDS) \cup {m} /\ Len(toDS) \in Nat
      /\ Len(toDS') = Len(toDS) + 1 /\ toDS'[Len(toDS) + 1] = m
      /\ \A j \in 1..Len(toDS) : toDS'[j] = toDS[j]
  BY SentIs DEF Sound, CoinsType
<1>3. NoRoom \notin Rooms /\ \A q \in Rooms : q = "public" \/ q = "private"
  BY Constants
<1>4. /\ \A q \in Rooms : Sits(q)' <=> Sits(q)
      /\ ~Sits("public") /\ ~Sits("public")'
      /\ Away' <=> Away
      /\ Sits("private")' <=> Sits("private")
  BY <1>3 DEF Sits, Away
<1>5. \/ game = "NotIn"
      \/ Reported
      \/ Told(NoRoom)
  <2>1. PICK k \in 1..Len(toDS') : k = Len(toDS) + 1
    BY <1>2
  <2>2. ~Belated(k)'
    BY DEF Sound, Doomed
  <2>3. IsAgain(toDS'[k])
    BY <1>2, <2>1
  <2>4. \A j \in 1..k - 1 : j \in 1..Len(toDS) /\ toDS'[j] = toDS[j]
    BY <1>2, <2>1
  <2> QED
    BY <2>2, <2>3, <2>4 DEF Belated, Reported, Told, Msgs
<1>6. Away
  BY <1>3, <1>5 DEF Sound, Good, Placed, AnswerRight, Reported, Told
<1>7. \A e \in Msgs(toMJ) : ~IsEnter(e)
  BY <1>5 DEF Sound, Good, Placed, EnterRight, Reported, Told
<1>8. OneEnter'
  BY DEF Sound, Good, OneEnter
<1>9. Ordered'
  BY <1>1, OrderedSent DEF Sound, Good
<1>10. /\ Reported' <=> Reported
       /\ \A q \in Rooms : Known(q)' <=> Known(q)
       /\ \A q : Told(q)' <=> Told(q)
  BY <1>1, <1>2, <1>4 DEF Reported, Known, Told
<1>11. Placed'
  <2>1. \A e \in Msgs(toDS') : IsAnswer(e) => AnswerRight(e)'
    <3>1. SUFFICES ASSUME NEW e \in Msgs(toDS), IsAnswer(e)
                   PROVE  AnswerRight(e)'
      BY <1>1, <1>2
    <3>2. AnswerRight(e)
      BY <3>1 DEF Sound, Good, Placed
    <3> QED
      BY <1>4, <1>10, <3>2 DEF AnswerRight
  <2>2. game = "StayIn" => at \in Rooms
    BY Constants DEF Sound, CoinsType
  <2>3. \A e \in Msgs(toDS') : IsFirst(e) => Stays(e.room)' \/ Told(e.room)'
    BY <1>1, <1>2, <1>10 DEF Sound, Good, Placed, Stays
  <2>4. \A e \in Msgs(toDS') : IsAgain(e) => game = "NotIn" \/ Reported' \/ Told(NoRoom)'
    BY <1>5, <1>10
  <2>5. /\ game = "NotIn" => ~Reported'
        /\ game = "StayIn" => Known(at)'
        /\ game # "Entering" => \A e \in Msgs(toDS') : ~IsAnswer(e)
    BY <1>1, <1>2, <1>10, <2>2 DEF Sound, Good, Placed
  <2> QED
    BY <1>4, <1>6, <1>7, <2>1, <2>3, <2>4, <2>5 DEF Placed
<1>12. Numbered'
  BY <1>1, <1>2, <1>4, <1>10 DEF Sound, Good, Numbered
<1>13. Balanced'
  <2>1. PICK b \in Int, x \in Int, y \in Int :
          Base(b) /\ Carries(toMJ, x) /\ Carries(toDS, y) /\ b + x + y = due - vanished
    BY DEF Sound, Good, Balanced
  <2>2. Base(b)'
    BY <1>1, <1>2, <1>4, <1>10, <2>1 DEF Base
  <2>3. Carries(toDS', y)
    <3>1. Carries(toDS', y + 0)
      BY <1>1, <2>1, CarriesSent, QueueTypes DEF Sound
    <3> QED
      BY <3>1
  <2> QED
    BY <2>1, <2>2, <2>3 DEF Balanced
<1> QED
  BY <1>8, <1>9, <1>11, <1>12, <1>13 DEF Good

LEMMA LeaveGood ==
  ASSUME Sound, LoserLeaves \/ LeavePublic \/ LeavePrivate
  PROVE  Good'
<1>1. /\ Empty \notin Nat /\ \A r \in Rooms : seat[r] # Empty => seat[r] \in Nat
      /\ seat \in [Rooms -> Nat \cup {Empty}] /\ real \in Nat
      /\ loser \in {"no", "lost", "gone"} /\ (seat["public"] = Empty => loser = "no")
      /\ "public" \in Rooms /\ "private" \in Rooms
  BY MessageTypes, Constants DEF Sound, CoinsType
<1>2. ASSUME LoserLeaves \/ LeavePublic
      PROVE  Good'
  <2>1. /\ seat["public"] # Empty /\ seat'["private"] = seat["private"]
        /\ seat'["public"] = Empty \/ loser' = "gone"
        /\ toDS' = Append(toDS, Report("public", seat["public"]))
        /\ UNCHANGED <<coin, game, at, toMJ, real, running, settles, due, vanished, heard>>
    <3>1. CASE LoserLeaves
      BY <1>1, <3>1 DEF LoserLeaves, server
    <3>2. CASE LeavePublic
      BY <1>1, <3>2 DEF LeavePublic, server
    <3> QED
      BY <1>2, <3>1, <3>2
  <2>2. PICK m \in ToServer : /\ toDS' = Append(toDS, m) /\ m.room = "public" /\ m.num = settles
                              /\ m.n = seat["public"] /\ m.as = loser /\ m.kind = "doLeave"
    <3>1. Report("public", seat["public"]) \in ToServer
      BY <1>1, <2>1, MessageTypes DEF Sound
    <3> QED
      BY <2>1, <3>1 DEF Report
  <2>3. CASE loser = "gone"
    <3>1. IsAgain(m)
      BY <2>2, <2>3 DEF IsAgain
    <3> QED
      BY <2>1, <2>2, <2>3, <3>1, AgainGood
  <2>4. CASE loser # "gone"
    <3>1. IsFirst(m) /\ Sits("public")
      BY <2>1, <2>2, <2>4 DEF IsFirst, Sits
    <3>2. Away'
      BY <2>1, <3>1 DEF Sound, Good, Placed, Away, Sits
    <3> QED
      BY <1>1, <2>1, <2>2, <3>1, <3>2, FirstGood
  <2> QED
    BY <2>3, <2>4
<1>3. ASSUME LeavePrivate
      PROVE  Good'
  <2>1. /\ seat["private"] # Empty /\ seat'["private"] = Empty /\ seat'["public"] = seat["public"]
        /\ toDS' = Append(toDS, Report("private", real))
        /\ UNCHANGED <<coin, game, at, toMJ, loser, real, running, settles, due, vanished, heard>>
    BY <1>1, <1>3 DEF LeavePrivate, server
  <2>2. PICK m \in ToServer : /\ toDS' = Append(toDS, m) /\ m.room = "private" /\ m.num = settles
                              /\ m.n = real /\ m.as = "no" /\ m.kind = "doLeave"
    <3>1. Report("private", real) \in ToServer
      BY <1>1, MessageTypes DEF Sound
    <3> QED
      BY <2>1, <3>1 DEF Report
  <2>3. IsFirst(m) /\ Sits("private")
    BY <2>1, <2>2 DEF IsFirst, Sits
  <2>4. Away'
    BY <2>1, <2>3 DEF Sound, Good, Placed, Away, Sits
  <2> QED
    BY <1>1, <2>1, <2>2, <2>3, <2>4, FirstGood
<1> QED
  BY <1>2, <1>3

(* Requests come and go.                                                        *)
LEMMA SyncsGood ==
  ASSUME Sound, Ordered',
         \A m \in Msgs(toDS') : m \in Msgs(toDS) \/ m \in running,
         \A m \in Msgs(toDS) : m \in Msgs(toDS') \/ IsSync(m),
         \A y : Carries(toDS, y) => Carries(toDS', y),
         UNCHANGED <<coin, game, at, toMJ, seat, loser, real, running, settles, due, vanished, heard>>
  PROVE  Good'
<1>1. \A m : IsSync(m) => ~IsAnswer(m) /\ ~IsFirst(m) /\ ~IsAgain(m)
  BY DEF IsFirst, IsAnswer, IsAgain, IsSync
<1>2. \A m \in running : IsSync(m)
  BY Kinds DEF Sound, CoinsType, IsSync
<1>3. /\ Reported' <=> Reported
      /\ Away' <=> Away
      /\ \A q \in Rooms : Sits(q)' <=> Sits(q)
      /\ \A q \in Rooms : Known(q)' <=> Known(q)
      /\ \A q : Told(q)' <=> Told(q)
  BY <1>1, <1>2 DEF Reported, Known, Told, Sits, Away
<1>4. "public" \in Rooms /\ "private" \in Rooms
  BY Constants
<1>5. OneEnter'
  BY DEF Sound, Good, OneEnter
<1>6. Placed'
  <2>1. \A e \in Msgs(toDS') : IsAnswer(e) => AnswerRight(e)'
    <3>1. SUFFICES ASSUME NEW e \in Msgs(toDS), IsAnswer(e)
                   PROVE  AnswerRight(e)'
      BY <1>1, <1>2
    <3>2. AnswerRight(e)
      BY <3>1 DEF Sound, Good, Placed
    <3> QED
      BY <1>3, <3>2 DEF AnswerRight
  <2>2. \A e \in Msgs(toMJ') : IsEnter(e) => EnterRight(e)'
    <3>1. SUFFICES ASSUME NEW e \in Msgs(toMJ), IsEnter(e)
                   PROVE  EnterRight(e)'
      OBVIOUS
    <3>2. EnterRight(e)
      BY <3>1 DEF Sound, Good, Placed
    <3> QED
      BY <1>1, <1>2, <1>3, <3>2 DEF EnterRight
  <2>3. game = "StayIn" => at \in Rooms
    BY Constants DEF Sound, CoinsType
  <2>4. /\ \A e \in Msgs(toDS') : IsFirst(e) => Stays(e.room)' \/ Told(e.room)'
        /\ \A e \in Msgs(toDS') : IsAgain(e) => game = "NotIn" \/ Reported' \/ Told(NoRoom)'
        /\ game # "Entering" => \A e \in Msgs(toDS') : ~IsAnswer(e)
        /\ \A e \in Msgs(toDS') : IsFirst(e) \/ IsAgain(e) => Away
    BY <1>1, <1>2, <1>3 DEF Sound, Good, Placed, Stays
  <2>5. /\ game = "NotIn" => Away /\ ~Reported'
        /\ game = "StayIn" => Known(at)'
        /\ Sits("public")' => ~Sits("private")'
        /\ game # "Entering" => \A e \in Msgs(toMJ') : ~IsEnter(e)
    BY <1>3, <1>4, <2>3 DEF Sound, Good, Placed
  <2> QED
    BY <1>3, <2>1, <2>2, <2>4, <2>5 DEF Placed
<1>7. Numbered'
  BY <1>1, <1>2, <1>3 DEF Sound, Good, Numbered
<1>8. Balanced'
  <2>1. PICK b \in Int, x \in Int, y \in Int :
          Base(b) /\ Carries(toMJ, x) /\ Carries(toDS, y) /\ b + x + y = due - vanished
    BY DEF Sound, Good, Balanced
  <2>2. Base(b)'
    BY <1>1, <1>2, <1>3, <1>4, <2>1 DEF Base
  <2> QED
    BY <2>1, <2>2 DEF Balanced
<1> QED
  BY <1>5, <1>6, <1>7, <1>8 DEF Good

LEMMA NetworkGood ==
  ASSUME Sound, Network
  PROVE  Good'
<1>1. CASE Lose
  <2>1. PICK k \in DOMAIN toDS : toDS[k].kind = "sync" /\ toDS' = Without(toDS, k)
    BY <1>1 DEF Lose, Without
  <2>2. k \in 1..Len(toDS) /\ IsSync(toDS[k]) /\ Worth(toDS[k]) = 0
    BY <2>1 DEF Sound, CoinsType, IsSync, Worth
  <2>3. Ordered'
    BY <2>1, <2>2, OrderedLost DEF Sound, Good
  <2>4. Msgs(toDS') \subseteq Msgs(toDS) /\ Msgs(toDS) \subseteq Msgs(toDS') \cup {toDS[k]}
    BY <2>1, <2>2, LostIs, QueueTypes DEF Sound
  <2>5. \A y : Carries(toDS, y) => Carries(toDS', y)
    BY <2>1, <2>2, CarriesLost, QueueTypes DEF Sound
  <2>6. UNCHANGED <<coin, game, at, toMJ, seat, loser, real, running, settles, due, vanished, heard>>
    BY <1>1 DEF Lose, server, tables
  <2> QED
    BY <2>2, <2>3, <2>4, <2>5, <2>6, SyncsGood
<1>2. CASE Resend
  <2>1. PICK q \in running : toDS' = Append(toDS, q)
    BY <1>2 DEF Resend
  <2>2. /\ q \in Sync /\ q \in ToServer /\ ~IsAnswer(q) /\ ~IsFirst(q) /\ Worth(q) = 0
        /\ toDS \in Seq(ToServer)
    <3>1. q \in Sync /\ toDS \in Seq(ToServer)
      BY DEF Sound, CoinsType
    <3>2. q \in ToServer /\ q.kind = "sync"
      BY <3>1, Kinds, MessageTypes DEF Sound
    <3> QED
      BY <3>1, <3>2 DEF IsAnswer, IsFirst, Worth
  <2>3. Ordered'
    BY <2>1, <2>2, OrderedSent DEF Sound, Good
  <2>4. Msgs(toDS') = Msgs(toDS) \cup {q}
    BY <2>1, <2>2, SentIs
  <2>5. ASSUME NEW y, Carries(toDS, y)
        PROVE  Carries(toDS', y)
    <3>1. y \in Int
      <4>1. PICK f : IsSums(f, toDS) /\ f[Len(toDS)] = y
        BY <2>5 DEF Carries
      <4>2. f \in [0..Len(toDS) -> Int] /\ Len(toDS) \in 0..Len(toDS)
        BY <2>2, <4>1 DEF IsSums
      <4> QED
        BY <4>1, <4>2
    <3>2. Carries(toDS', y + 0)
      BY <2>1, <2>2, <2>5, <3>1, CarriesSent
    <3> QED
      BY <3>1, <3>2
  <2>6. UNCHANGED <<coin, game, at, toMJ, seat, loser, real, running, settles, due, vanished, heard>>
    BY <1>2 DEF Resend, server, tables
  <2> QED
    BY <2>1, <2>3, <2>4, <2>5, <2>6, SyncsGood
<1> QED
  BY <1>1, <1>2 DEF Network

LEMMA HearAnswerGood ==
  ASSUME Sound, HearAnswer
  PROVE  Good'
<1>1. /\ toDS # <<>> /\ toDS' = Tail(toDS) /\ Head(toDS).kind = "answer" /\ at' = Head(toDS).room
      /\ game' = IF Head(toDS).room = NoRoom THEN "NotIn" ELSE "StayIn"
      /\ UNCHANGED <<coin, toMJ, seat, loser, real, running, settles, due, vanished, heard>>
  BY DEF HearAnswer, tables
<1>2. PICK a \in ToServer : /\ a = Head(toDS) /\ a = toDS[1] /\ Msgs(toDS) = {a} \cup Msgs(toDS')
                            /\ IsAnswer(a) /\ ~IsFirst(a) /\ ~IsAgain(a) /\ Worth(a) = 0
  BY <1>1, HeardIs DEF Sound, CoinsType, IsAnswer, IsFirst, IsAgain, Worth
<1>3. Ordered' /\ \A m \in Msgs(toDS') : ~IsAnswer(m)
  BY <1>1, <1>2, OrderedHeard DEF Sound, Good
<1>4. AnswerRight(a)
  BY <1>2 DEF Sound, Good, Placed
<1>5. game = "Entering" /\ \A m \in Msgs(toMJ) : ~IsEnter(m)
  BY <1>2, <1>4 DEF Sound, Good, Placed, EnterRight, AnswerRight
<1>6. /\ Reported' <=> Reported
      /\ Away' <=> Away
      /\ \A q \in Rooms : Sits(q)' <=> Sits(q)
      /\ \A q \in Rooms : Known(q)' <=> Known(q)
  BY <1>1, <1>2 DEF Reported, Known, Sits, Away
<1>7. "public" \in Rooms /\ "private" \in Rooms /\ NoRoom \notin Rooms
  BY Constants
<1>8. OneEnter'
  BY <1>1 DEF Sound, Good, OneEnter
<1>9. Placed'
  <2>1. /\ game' = "NotIn" => Away' /\ ~Reported'
        /\ game' = "StayIn" => Known(at)'
    BY <1>1, <1>2, <1>4, <1>6, <1>7 DEF AnswerRight
  <2>2. ASSUME NEW m \in Msgs(toDS'), IsFirst(m)
        PROVE  Stays(m.room)'
    <3>1. m.room = a.room
      BY <1>2, <1>3, <1>5, <2>2 DEF Sound, Good, Placed, Stays, Told
    <3>2. m.room \in Rooms
      BY <1>2, <2>2, Kinds, MsgsType DEF Sound, IsFirst
    <3> QED
      BY <1>1, <1>2, <1>7, <3>1, <3>2 DEF Stays
  <2>3. ASSUME NEW m \in Msgs(toDS'), IsAgain(m)
        PROVE  game' = "NotIn" \/ Reported'
    <3>1. Reported \/ a.room = NoRoom
      BY <1>2, <1>3, <1>5, <2>3 DEF Sound, Good, Placed, Told
    <3> QED
      BY <1>1, <1>2, <1>6, <3>1
  <2>4. /\ Sits("public")' => ~Sits("private")'
        /\ \A m \in Msgs(toDS') : IsFirst(m) \/ IsAgain(m) => Away'
    BY <1>2, <1>6, <1>7 DEF Sound, Good, Placed
  <2> QED
    BY <1>1, <1>3, <1>5, <2>1, <2>2, <2>3, <2>4 DEF Placed
<1>10. Numbered'
  BY <1>1, <1>2, <1>6 DEF Sound, Good, Numbered
<1>11. Balanced'
  <2>1. PICK b \in Int, x \in Int, y \in Int :
          Base(b) /\ Carries(toMJ, x) /\ Carries(toDS, y) /\ b + x + y = due - vanished
    BY DEF Sound, Good, Balanced
  <2>2. Base(b)'
    BY <1>1, <1>2, <1>6, <1>7, <2>1 DEF Base
  <2>3. Carries(toDS', y)
    <3>1. Carries(toDS', y - 0)
      BY <1>1, <1>2, <2>1, CarriesHeard, QueueTypes DEF Sound
    <3> QED
      BY <3>1
  <2> QED
    BY <1>1, <2>1, <2>2, <2>3 DEF Balanced
<1> QED
  BY <1>3, <1>8, <1>9, <1>10, <1>11 DEF Good

LEMMA HearDoLeaveGood ==
  ASSUME Sound, HearDoLeave
  PROVE  Good'
<1>1. /\ toDS # <<>> /\ toDS' = Tail(toDS) /\ Head(toDS).kind = "doLeave"
      /\ coin' = Head(toDS).n /\ heard' = Head(toDS).num /\ game' = "NotIn" /\ at' = NoRoom
      /\ UNCHANGED <<toMJ, seat, loser, real, running, settles, due, vanished>>
  BY DEF HearDoLeave, tables
<1>2. PICK m \in ToServer : /\ m = Head(toDS) /\ m = toDS[1] /\ Msgs(toDS) = {m} \cup Msgs(toDS')
                            /\ ~IsAnswer(m) /\ Worth(m) = 0 /\ (IsFirst(m) \/ IsAgain(m))
  BY <1>1, HeardIs DEF Sound, CoinsType, IsAnswer, IsFirst, IsAgain, Worth
<1>3. /\ Ordered'
      /\ \A e \in Msgs(toDS') : ~IsAnswer(e) /\ ~IsFirst(e)
  BY <1>1, <1>2, OrderedHeard DEF Sound, Good
<1>4. \/ IsFirst(m) /\ Stays(m.room)
      \/ ~IsFirst(m) /\ game = "NotIn" /\ coin = m.n
  BY <1>2 DEF Sound, HearDoLeave, IsFirst, IsAgain, Stays
<1>5. game # "Entering" /\ Away /\ m.num = settles /\ \A e \in Msgs(toMJ) : ~IsEnter(e)
  BY <1>2, <1>4 DEF Sound, Good, Placed, Numbered, Stays
<1>6. Away' /\ ~Reported' /\ ~Sits("public") /\ ~Sits("private") /\ ~Sits("public")' /\ ~Sits("private")'
  BY <1>1, <1>3, <1>5 DEF Away, Reported, Sits
<1>7. OneEnter'
  BY <1>1 DEF Sound, Good, OneEnter
<1>8. Placed'
  BY <1>1, <1>3, <1>5, <1>6 DEF Placed
<1>9. Numbered'
  BY <1>1, <1>2, <1>3, <1>5 DEF Sound, Good, Numbered
<1>10. Balanced'
  <2>1. PICK b \in Int, x \in Int, y \in Int :
          Base(b) /\ Carries(toMJ, x) /\ Carries(toDS, y) /\ b + x + y = due - vanished
    BY DEF Sound, Good, Balanced
  <2>2. b = m.n
    BY <1>2, <1>4, <1>5, <2>1 DEF Base, Sound, Good, Placed
  <2>3. Base(b)'
    BY <1>1, <1>2, <1>3, <1>6, <2>2 DEF Base
  <2>4. Carries(toDS', y)
    <3>1. Carries(toDS', y - 0)
      BY <1>1, <1>2, <2>1, CarriesHeard, QueueTypes DEF Sound
    <3> QED
      BY <3>1
  <2> QED
    BY <1>1, <2>1, <2>3, <2>4 DEF Balanced
<1> QED
  BY <1>3, <1>7, <1>8, <1>9, <1>10 DEF Good

(* A request or coins are heard.                                                *)
LEMMA OtherHeard ==
  ASSUME Sound, toDS # <<>>, toDS' = Tail(toDS), Head(toDS).kind \in {"sync", "back"},
         \A e \in Msgs(toMJ') : IsEnter(e) => e \in Msgs(toMJ),
         coin' = coin \/ game = "NotIn" \/ ~Away \/ Reported,
         UNCHANGED <<game, at, seat, loser, real>>
  PROVE  /\ Ordered' /\ Placed'
         /\ Msgs(toDS') \subseteq Msgs(toDS)
         /\ Reported' <=> Reported
         /\ Away' <=> Away
         /\ Sits("public")' <=> Sits("public")
         /\ Sits("private")' <=> Sits("private")
<1>1. PICK h \in ToServer : /\ h = toDS[1] /\ Msgs(toDS) = {h} \cup Msgs(toDS')
                            /\ ~IsAnswer(h) /\ ~IsFirst(h) /\ ~IsAgain(h)
  BY HeardIs DEF Sound, CoinsType, IsAnswer, IsFirst, IsAgain
<1>2. Ordered'
  BY OrderedHeard DEF Sound, Good
<1>3. /\ Reported' <=> Reported
      /\ Away' <=> Away
      /\ \A q : Told(q)' <=> Told(q)
      /\ \A q \in Rooms : Sits(q)' <=> Sits(q)
      /\ \A q \in Rooms : Known(q)' <=> Known(q)
  BY <1>1 DEF Reported, Known, Sits, Away, Told
<1>4. "public" \in Rooms /\ "private" \in Rooms /\ (game = "StayIn" => at \in Rooms)
  BY Constants DEF Sound, CoinsType
<1>5. ASSUME NEW e \in Msgs(toMJ'), IsEnter(e)
      PROVE  EnterRight(e)'
  <2>1. EnterRight(e)
    BY <1>5 DEF Sound, Good, Placed
  <2>2. ~Reported
    BY <2>1 DEF EnterRight, Reported
  <2>3. Away /\ e.n = coin => e.n = coin'
    BY <2>1, <2>2 DEF EnterRight
  <2> QED
    BY <1>1, <1>3, <2>1, <2>3 DEF EnterRight
<1>6. ASSUME NEW e \in Msgs(toDS'), IsAnswer(e)
      PROVE  AnswerRight(e)'
  <2>1. AnswerRight(e)
    BY <1>1, <1>6 DEF Sound, Good, Placed
  <2> QED
    BY <1>3, <2>1 DEF AnswerRight
<1>7. Placed'
  <2>1. /\ Sits("public")' => ~Sits("private")'
        /\ \A e \in Msgs(toDS') : IsFirst(e) \/ IsAgain(e) => Away'
        /\ game = "NotIn" => Away' /\ ~Reported'
        /\ game = "StayIn" => Known(at)'
    BY <1>1, <1>3, <1>4 DEF Sound, Good, Placed
  <2>2. /\ \A e \in Msgs(toDS') : IsFirst(e) => Stays(e.room)' \/ Told(e.room)'
        /\ \A e \in Msgs(toDS') : IsAgain(e) => game = "NotIn" \/ Reported' \/ Told(NoRoom)'
    BY <1>1, <1>3 DEF Sound, Good, Placed, Stays
  <2>3. game # "Entering" => /\ \A e \in Msgs(toDS') : ~IsAnswer(e)
                             /\ \A e \in Msgs(toMJ') : ~IsEnter(e)
    BY <1>1 DEF Sound, Good, Placed
  <2> QED
    BY <1>5, <1>6, <2>1, <2>2, <2>3 DEF Placed
<1> QED
  BY <1>1, <1>2, <1>3, <1>4, <1>7

LEMMA HearSyncGood ==
  ASSUME Sound, HearSync
  PROVE  Good'
<1>1. /\ toDS # <<>> /\ toDS' = Tail(toDS) /\ Head(toDS).kind = "sync"
      /\ ~(Head(toDS).num <= heard) /\ running' \subseteq running
      /\ UNCHANGED <<game, at, toMJ, seat, loser, real, settles, due, vanished>>
  BY DEF HearSync, Sound
<1>2. PICK q \in ToServer : /\ q = Head(toDS) /\ q \in Msgs(toDS) /\ IsSync(q) /\ Worth(q) = 0
                            /\ q.kind \in {"sync", "back"}
  BY <1>1, HeardIs DEF Sound, CoinsType, IsSync, Worth
<1>3. ~Away \/ Reported
  BY <1>1, <1>2 DEF Sound, Good, Numbered
<1>4. /\ Ordered' /\ Placed' /\ Msgs(toDS') \subseteq Msgs(toDS)
      /\ Reported' <=> Reported
      /\ Away' <=> Away
      /\ Sits("public")' <=> Sits("public")
      /\ Sits("private")' <=> Sits("private")
  BY <1>1, <1>2, <1>3, OtherHeard
<1>5. OneEnter'
  BY <1>1 DEF Sound, Good, OneEnter
<1>6. Numbered'
  BY <1>1, <1>3, <1>4 DEF Sound, Good, Numbered
<1>7. Balanced'
  <2>1. PICK b \in Int, x \in Int, y \in Int :
          Base(b) /\ Carries(toMJ, x) /\ Carries(toDS, y) /\ b + x + y = due - vanished
    BY DEF Sound, Good, Balanced
  <2>2. Base(b)'
    BY <1>1, <1>3, <1>4, <2>1 DEF Base
  <2>3. Carries(toDS', y)
    <3>1. Carries(toDS', y - 0)
      BY <1>1, <1>2, <2>1, CarriesHeard, QueueTypes DEF Sound
    <3> QED
      BY <3>1
  <2> QED
    BY <1>1, <2>1, <2>2, <2>3 DEF Balanced
<1> QED
  BY <1>4, <1>5, <1>6, <1>7 DEF Good

LEMMA HearBackGood ==
  ASSUME Sound, HearBack
  PROVE  Good'
<1>1. /\ toDS # <<>> /\ toDS' = Tail(toDS) /\ Head(toDS).kind = "back"
      /\ UNCHANGED <<game, at, seat, loser, real, running, settles, due, heard>>
  BY DEF HearBack, tables
<1>2. PICK m \in ToServer : /\ m = Head(toDS) /\ m.kind = "back" /\ m.room = "private"
                            /\ m.kind \in {"sync", "back"}
  <2>1. Head(toDS) \in ToServer
    BY <1>1, HeardIs, QueueTypes DEF Sound
  <2> QED
    BY <1>1, <2>1, Kinds
<1>3. PICK n \in Nat : m.n = n /\ Worth(m) = n
  BY <1>2, Kinds DEF Worth
<1>4. PICK b \in Int, x \in Int, y \in Int :
        Base(b) /\ Carries(toMJ, x) /\ Carries(toDS, y) /\ b + x + y = due - vanished
  BY DEF Sound, Good, Balanced
<1>5. Carries(toDS', y - n)
  BY <1>1, <1>2, <1>3, <1>4, CarriesHeard, QueueTypes DEF Sound
<1>6. due \in Int /\ vanished \in Nat /\ coin \in Nat
  BY DEF Sound, CoinsType
<1>7. ASSUME OneEnter', \A e \in Msgs(toMJ') : IsEnter(e) => e \in Msgs(toMJ),
             coin' = coin \/ game = "NotIn" \/ ~Away \/ Reported,
             NEW b2 \in Int, NEW x2 \in Int, Carries(toMJ', x2),
             b2 + x2 + (y - n) = due' - vanished',
             IF Away /\ ~Reported THEN b2 = coin' ELSE b2 = b
      PROVE  Good'
  <2>1. /\ Ordered' /\ Placed' /\ Msgs(toDS') \subseteq Msgs(toDS)
        /\ Reported' <=> Reported
        /\ Away' <=> Away
        /\ Sits("public")' <=> Sits("public")
        /\ Sits("private")' <=> Sits("private")
    BY <1>1, <1>2, <1>7, OtherHeard
  <2>2. Numbered'
    BY <1>1, <2>1 DEF Sound, Good, Numbered
  <2>3. Base(b2)'
    <3>1. CASE Away /\ ~Reported
      BY <1>7, <2>1, <3>1 DEF Base, Away, Reported
    <3>2. CASE ~(Away /\ ~Reported)
      BY <1>1, <1>4, <1>7, <2>1, <3>2 DEF Base
    <3> QED
      BY <3>1, <3>2
  <2>4. Balanced'
    <3>1. y - n \in Int
      OBVIOUS
    <3> QED
      BY <1>5, <1>7, <2>3, <3>1 DEF Balanced
  <2> QED
    BY <1>7, <2>1, <2>2, <2>4 DEF Good
<1>8. ASSUME UNCHANGED toMJ
      PROVE  /\ OneEnter' /\ \A e \in Msgs(toMJ') : IsEnter(e) => e \in Msgs(toMJ)
             /\ Carries(toMJ', x)
  BY <1>4, <1>8 DEF Sound, Good, OneEnter
<1>9. CASE game # "NotIn" /\ AddMoney(n) /\ UNCHANGED vanished
  <2>1. PICK e \in ToTable : /\ ~IsEnter(e) /\ Worth(e) = n /\ toMJ' = Append(toMJ, e)
                             /\ coin' = coin
    <3>1. [kind |-> "add", room |-> at, n |-> n] \in ToTable
      BY MessageTypes DEF Sound
    <3> QED
      BY <1>9, <3>1 DEF AddMoney, IsEnter, Worth
  <2>2. toMJ \in Seq(ToTable)
    BY DEF Sound, CoinsType
  <2>3. Msgs(toMJ') = Msgs(toMJ) \cup {e}
    BY <2>1, <2>2, SentIs
  <2>4. OneEnter'
    BY <2>1, OneEnterSent DEF Sound, Good
  <2>5. Carries(toMJ', x + n)
    <3>1. Worth(e) \in Int
      BY <2>1
    <3>2. Carries(Append(toMJ, e), x + Worth(e))
      BY <1>4, <2>2, <3>1, CarriesSent
    <3> QED
      BY <2>1, <3>2
  <2>6. x + n \in Int /\ b + (x + n) + (y - n) = due' - vanished'
    BY <1>1, <1>4, <1>6, <1>9
  <2>7. IF Away /\ ~Reported THEN b = coin' ELSE b = b
    BY <1>4, <2>1 DEF Base
  <2> QED
    BY <1>7, <2>1, <2>3, <2>4, <2>5, <2>6, <2>7
<1>10. CASE game = "NotIn" /\ coin' = coin + n /\ UNCHANGED <<toMJ, vanished>>
  <2>1. Away /\ ~Reported /\ b = coin
    BY <1>4, <1>10 DEF Sound, Good, Placed, Base
  <2>2. b + n \in Int /\ b + n + x + (y - n) = due' - vanished' /\ b + n = coin'
    BY <1>1, <1>4, <1>6, <1>10, <2>1
  <2> QED
    BY <1>4, <1>7, <1>8, <1>10, <2>1, <2>2
<1>11. CASE /\ game # "NotIn" /\ at = "private" /\ vanished' = vanished + n /\ UNCHANGED toMJ
  <2>1. Known(at) /\ at \in Rooms
    BY <1>11, Constants DEF Sound, CoinsType, Good, Placed
  <2>2. ~Away \/ Reported
    BY <1>11, <2>1 DEF Known, Away, Reported
  <2>3. b + x + (y - n) = due' - vanished'
    BY <1>1, <1>4, <1>6, <1>11
  <2> QED
    BY <1>4, <1>7, <1>8, <1>11, <2>2, <2>3
<1> QED
  BY <1>2, <1>3, <1>9, <1>10, <1>11 DEF HearBack

-----------------------------------------------------------------------------
(* The theorems                                                               *)

LEMMA GoodStays ==
  ASSUME Sound, [Next]_vars
  PROVE  Good'
<1>1. CASE UNCHANGED vars
  BY <1>1 DEF vars, server, tables, Sound, Good, OneEnter, Ordered, Placed, Numbered, Balanced, Base,
              Sits, Away, Reported, Known, Told, EnterRight, AnswerRight, Stays
<1>2. CASE Player
  BY <1>2, AskEnterGood, GiftGood, SpendGood DEF Player
<1>3. CASE Table
  BY <1>3, ServeEnterGood, ServeAddGood, StartGameGood, DecideLoseGood, AddOffsetGood, LeaveGood DEF Table
<1>4. CASE Hear
  BY <1>4, HearAnswerGood, HearDoLeaveGood, HearSyncGood, HearBackGood DEF Hear
<1> QED
  BY <1>1, <1>2, <1>3, <1>4, NetworkGood DEF Next

LEMMA InitGood == Init => Good
<1> SUFFICES ASSUME Init
             PROVE  Good
  OBVIOUS
<1>1. /\ coin = StartCoin /\ game = "NotIn" /\ toMJ = <<>> /\ toDS = <<>> /\ loser = "no"
      /\ running = {} /\ due = StartCoin /\ vanished = 0 /\ StartCoin \in Nat
      /\ seat["public"] = Empty /\ seat["private"] = Empty
  BY Constants DEF Init
<1>2. Len(<<>>) = 0 /\ Msgs(<<>>) = {}
  BY DEF Msgs
<1>3. Away /\ ~Sits("public") /\ ~Sits("private") /\ ~Reported
  BY <1>1, <1>2 DEF Away, Sits, Reported
<1>4. OneEnter /\ Ordered /\ Placed /\ Numbered
  BY <1>1, <1>2, <1>3 DEF OneEnter, Ordered, Placed, Numbered
<1>5. Balanced
  <2>1. Base(coin) /\ coin \in Int
    BY <1>1, <1>2, <1>3 DEF Base
  <2>2. coin + 0 + 0 = due - vanished /\ 0 \in Int
    BY <1>1
  <2> QED
    BY <1>1, <2>1, <2>2, CarriesNothing DEF Balanced
<1> QED
  BY <1>4, <1>5 DEF Good

LEMMA CoinsInvStays == CoinsInv /\ [Next]_vars => CoinsInv'
<1> SUFFICES ASSUME CoinsInv, [Next]_vars
             PROVE  CoinsInv'
  OBVIOUS
<1>1. CoinsType'
  BY NextType DEF CoinsInv
<1>2. CASE flaw # {}
  BY <1>1, <1>2, FlawStays DEF CoinsInv
<1>3. CASE Doomed
  BY <1>1, <1>3, DoomedStays DEF CoinsInv
<1>4. CASE flaw = {} /\ Good
  <2>1. ASSUME flaw' = {}, ~Doomed'
        PROVE  Good'
    BY <1>1, <1>4, <2>1, GoodStays DEF Sound, CoinsInv
  <2> QED
    BY <1>1, <2>1 DEF CoinsInv
<1> QED
  BY <1>2, <1>3, <1>4 DEF CoinsInv

\* When the player is settled nothing is on its way: nothing is bound to go wrong any
\* more, no message carries coins, and what he is due is with DataServer.
LEMMA CoinsInvImplies == CoinsInv => CoinsDue
<1> SUFFICES ASSUME CoinsInv, Settled, flaw = {}
             PROVE  coin = due - vanished
  BY DEF CoinsDue
<1>1. /\ game = "NotIn" /\ toMJ = <<>> /\ toDS = <<>> /\ ~Sits("public") /\ ~Sits("private")
  BY DEF Settled, Quiet, Sits
<1>2. Len(<<>>) = 0 /\ Msgs(<<>>) = {}
  BY DEF Msgs
<1>3. ~Doomed
  BY <1>1, <1>2 DEF Doomed, Forgotten, Settled
<1>4. Away /\ ~Reported
  BY <1>1, <1>2 DEF Away, Reported
<1>5. PICK b \in Int, x \in Int, y \in Int :
        Base(b) /\ Carries(toMJ, x) /\ Carries(toDS, y) /\ b + x + y = due - vanished
  BY <1>3 DEF CoinsInv, Good, Balanced
<1>6. b = coin /\ x = 0 /\ y = 0
  BY <1>1, <1>4, <1>5, CarriesNothing DEF Base
<1> QED
  BY <1>5, <1>6

\* Whatever the tables, the network and the player do, and in whatever order DataServer
\* hears of it: something has gone wrong that CoinsDue names, or is bound to, or the coins
\* at the table he plays at, in its report or with DataServer, together with those in
\* the messages of MSG_SYNC_IN_GAME_ADD_COIN, are what he is due but for those that
\* have vanished.
THEOREM CoinsInvCorrect == Spec => []CoinsInv
<1>1. Init => CoinsInv
  BY InitType, InitGood DEF CoinsInv
<1> QED
  BY <1>1, CoinsInvStays, PTL DEF Spec

\* Once he is in no room and nothing that concerns him is on its way, the coins that
\* DataServer has of a player are those he is due (addOffsetCoin, startGame, onPlayerApplyLeave
\* of the tables; AddMoney, eAsync_SyncPlayerRoomCoin and MSG_SVR_DO_LEAVE_ROOM of
\* CPlayerBaseData), for any number of settlements, gifts and lost requests.
THEOREM CoinsDueCorrect == Spec => []CoinsDue
BY CoinsInvCorrect, CoinsInvImplies, PTL
=============================================================================
