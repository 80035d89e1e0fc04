CONSTANTS
  p1 = p1
  p2 = p2
  r1 = r1
  r2 = r2
  Players = {p1, p2}
  Rooms = {r1, r2}
  NoRoom = NoRoom
  SeatCnt <- MCSeatCnt
  Sessions <- MCSessions
  MaxQueue = 1
SPECIFICATION LiveSpec
INVARIANTS TypeOK StayInIsSeated OneRoomWhileRemembered
PROPERTIES EnteringEnds
