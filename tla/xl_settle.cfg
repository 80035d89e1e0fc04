CONSTANTS
  BloodEnd = FALSE
  BaseBet = 1
  StartCoins <- MCStart
  Hands <- MCHands
  WaitHands <- MCWaitHands
  BuyCoins = 2
  MaxWinners = 2
  MaxWins = 1
  MaxSettles = 2
SPECIFICATION Spec
INVARIANTS BooksBalance BillsAddUp VoidOnlyFromEightFan
PROPERTIES TableCoins
