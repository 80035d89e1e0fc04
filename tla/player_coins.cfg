CONSTANTS
  NoRoom = NoRoom
  StartCoin = 2
  Points = 5
  DeskFee = 1
  MaxGifts = 2
  MaxSettles = 2
  MaxLosses = 1
  MaxQueue = 2
SPECIFICATION Spec
CONSTRAINT BeforeFlaws
INVARIANTS CoinsDue
