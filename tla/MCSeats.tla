------------------------------- MODULE MCSeats -------------------------------
EXTENDS Seats

CONSTANTS p1, p2, r1, r2

\* Hands are played at r1; at r2 there is always a free seat
MCSeatCnt == [r \in Rooms |-> IF r = r1 THEN 1 ELSE 3]

\* p2 comes with a client of his own, or switches the account on that of p1
MCSessions == [p \in Players |-> IF p = p1 THEN {1} ELSE {1, 2}]
==============================================================================
