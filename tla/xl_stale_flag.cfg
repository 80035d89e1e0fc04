CONSTANTS
  SeatCnt = 3
  DealCnt = 4
  WallSize = 1
  BloodEnd = FALSE
  HasDelegate = FALSE
SPECIFICATION Spec
PROPERTIES DoubledOnlyAfterGang
