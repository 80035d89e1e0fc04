CONSTANTS
  SeatCnt = 3
  DealCnt = 4
  WallSize = 2
  BloodEnd = FALSE
  HasDelegate = FALSE
SPECIFICATION LiveSpec
INVARIANTS TypeOK HandSizes OnlyActiveAsked NobodyPlaysBroke SupplyWaitsForBroke ClaimOnce
PROPERTIES WinBeforeClaims GameEnds
