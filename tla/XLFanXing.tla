------------------------------- MODULE XLFanXing -------------------------------
(***************************************************************************)
(* What a winning hand is worth (XLFanXingChecker, XLMJPlayerCard): its    *)
(* pattern, its `gen' and the multiplier of the base bet they make.        *)
(*                                                                         *)
(* A hand is abstracted to what the checkers ask of it.  The hands and the *)
(* multiplier are bytes in the code: it is doubled first and capped then.  *)
(***************************************************************************)
EXTENDS Integers

MAX_BEISHU == 32

Hand ==
  [sevenPairs : BOOLEAN,   \* canHoldCard7PairHu: no pong, no exposed kong, pairs in hand
   oneSuit    : BOOLEAN,   \* cards in hand, pongs and exposed kongs of one suit
   triplets   : BOOLEAN,   \* cards in hand are triplets but for the eye
   ends       : BOOLEAN,   \* every meld and the eye has a one or a nine
   twos       : BOOLEAN,   \* eye, pongs and exposed kongs are of two, five or eight
   four       : 0..3,      \* cards of which all four are in hand
   penged     : 0..4,      \* m_vPenged
   kept       : 0..4,      \* pongs of which the fourth card is in hand
   ganged     : 0..4,      \* m_vGanged, kongs of a discard or added to a pong
   anGanged   : 0..4]      \* m_vAnGanged, concealed kongs

Held(h) == 14 - 3 * (h.penged + h.ganged + h.anGanged)

\* The hands that there are.  A concealed kong is not looked for by the test for
\* seven pairs, so that two of them and four pairs pass, as do four and one pair.
Realizable(h) ==
  /\ Held(h) >= 2 /\ 4 * h.four <= Held(h)
  /\ h.kept <= h.penged /\ 4 * h.four + h.kept <= Held(h)
  /\ h.sevenPairs => h.penged = 0 /\ h.ganged = 0 /\ Held(h) % 2 = 0
  /\ Held(h) = 2 => h.triplets /\ h.kept = 0

-----------------------------------------------------------------------------
Patterns ==
  {"PingHu", "DuiDuiHu", "QingYiSe", "QiDui", "JinGouDiao", "DaiYaoJiu",
   "QingDuiDuiHu", "QingDui", "LongQiDui", "QingJinGouDiao", "JiangJinGouDiao",
   "QingDaiYaoJiu", "QingLongQiDui", "ShiBaLuoHan"}

\* doSelfCheck.  Concealed kongs are left out of account by every pattern.
Meets(h, pattern) ==
  CASE pattern = "PingHu"          -> TRUE
    [] pattern = "DuiDuiHu"        -> h.triplets
    [] pattern = "QingYiSe"        -> h.oneSuit
    [] pattern = "QiDui"           -> h.sevenPairs
    [] pattern = "JinGouDiao"      -> Held(h) <= 2
    [] pattern = "DaiYaoJiu"       -> h.ends
    [] pattern = "QingDuiDuiHu"    -> h.oneSuit /\ h.triplets
    [] pattern = "QingDui"         -> h.oneSuit /\ h.sevenPairs
    [] pattern = "LongQiDui"       -> h.sevenPairs /\ h.four > 0
    [] pattern = "QingJinGouDiao"  -> h.oneSuit /\ Held(h) <= 2
    [] pattern = "JiangJinGouDiao" -> h.twos /\ Held(h) <= 2
    [] pattern = "QingDaiYaoJiu"   -> h.oneSuit /\ h.ends
    [] pattern = "QingLongQiDui"   -> h.oneSuit /\ h.sevenPairs /\ h.four > 0
    [] pattern = "ShiBaLuoHan"     -> Held(h) <= 2 /\ h.ganged >= 4

\* The multiplier of a pattern is a power of two: its exponent
Fan(pattern) ==
  CASE pattern = "PingHu"                                             -> 0
    [] pattern = "DuiDuiHu"                                           -> 1
    [] pattern \in {"QingYiSe", "QiDui", "JinGouDiao", "DaiYaoJiu"}   -> 2
    [] pattern = "QingDuiDuiHu"                                       -> 3
    [] pattern \in {"QingDui", "LongQiDui", "QingJinGouDiao",
                    "JiangJinGouDiao", "QingDaiYaoJiu"}               -> 4
    [] pattern \in {"QingLongQiDui", "ShiBaLuoHan"}                   -> 5

\* doCheckFanxing: the checkers are sorted by getBeishu, which is 64 for
\* ShiBaLuoHan.  Patterns of the same rank pay the same; LongQiDui never shares
\* its rank with another pattern of the same hand.
Rank(pattern) == IF pattern = "ShiBaLuoHan" THEN 6 ELSE Fan(pattern)
Pattern(h) ==
  CHOOSE a \in {b \in Patterns : Meets(h, b)} :
     \A b \in Patterns : Meets(h, b) => Rank(b) <= Rank(a)

GenShu(h) == h.four + h.ganged + h.anGanged + h.kept

\* onDoHu: the four of a kind that makes LongQiDui is not counted twice
HuGen(h) ==
  GenShu(h) - (IF Pattern(h) \in {"LongQiDui", "QingLongQiDui"} THEN 1 ELSE 0)

-----------------------------------------------------------------------------
\* uint8_t nBeiShu = 1, doubled n times
Doubled(n) == 2^n % 256

Cap(bei) == IF bei > MAX_BEISHU THEN MAX_BEISHU ELSE bei

\* The doublings of a win in onPlayerHu and onPlayerZiMo: pattern, gen, one for the
\* card after a kong or of a robbed kong, one for a card drawn by oneself
HuFan(h, gangHu, ziMo) ==
  Fan(Pattern(h)) + HuGen(h) + (IF gangHu THEN 1 ELSE 0) + (IF ziMo THEN 1 ELSE 0)

BeiShu(fan) == Cap(Doubled(fan))

\* getMaxPossibleBeiShu over the hands that the cards a player waits for would make
MaxPossibleBeiShu(hands) ==
  LET bei(h) == Doubled(Fan(Pattern(h)) + GenShu(h))
  IN  CHOOSE b \in {bei(h) : h \in hands} : \A h \in hands : bei(h) <= b
=============================================================================
