CONSTANTS
  SeatCnt = 3
  DealCnt = 4
  WallSize = 2
  BloodEnd = TRUE
  HasDelegate = TRUE
SPECIFICATION Spec
INVARIANTS EnoughPlayers
PROPERTIES WinnersHandFrozen
\* a private table has no turn timer: it stops when its players cannot act
CHECK_DEADLOCK FALSE
