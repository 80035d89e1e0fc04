SPECIFICATION LiveSpec
CONSTANTS
  Players = {p1, p2, p3, p4}
  Owner = p1
  SeatCnt = 3
  Circles = 2
  CirclesPerCard = 1
INVARIANTS TypeOK SeatsRecorded SeatsHeld VoteInOrder BooksBalance
PROPERTIES MajorityRules ClosedRoomGoes VoteEnds
