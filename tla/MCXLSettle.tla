----------------------------- MODULE MCXLSettle -----------------------------
EXTENDS XLSettle, TLC

Plain == [sevenPairs |-> FALSE, oneSuit |-> FALSE, triplets |-> FALSE, ends |-> FALSE,
          twos |-> FALSE, four |-> 0, penged |-> 0, kept |-> 0, ganged |-> 0, anGanged |-> 0]
\* four concealed kongs and an eye
FourAnGangs == [Plain EXCEPT !.sevenPairs = TRUE, !.oneSuit = TRUE, !.triplets = TRUE,
                             !.anGanged = 4]

MCHands == {Plain, FourAnGangs}
MCWaitHands == {{Plain}}
MCStart == {0 :> 1 @@ 1 :> 3 @@ 2 :> 4 @@ 3 :> 40}
=============================================================================
