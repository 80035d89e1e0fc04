CONSTANTS
  SeatCnt = 3
  DealCnt = 4
  WallSize = 2
  BloodEnd = FALSE
  HasDelegate = TRUE
SPECIFICATION Spec
INVARIANTS OnlyActiveAsked
CHECK_DEADLOCK FALSE
