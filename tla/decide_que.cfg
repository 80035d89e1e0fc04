SPECIFICATION LiveSpec
CHECK_DEADLOCK FALSE
CONSTANTS
  SeatCnt = 3
  Weights = {1, 2}
INVARIANTS OnlyBadAnswerHasNoQue FirstAnswerStands ToldUnlessLate
PROPERTIES PlayStarts
