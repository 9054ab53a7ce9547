CONSTANTS
  Accounts = {a1}
  Txs = {t1, t2}
  MaxFailures = 1
  InitialBalance = 2
  Stakes = {2}
  MaxJoins = 1
  MaxCrashes = 1
  MaxHands = 0
  ReturnsInHand = FALSE
  Amount = 3
  MaxBlocks = 3
  InBlockOrder = TRUE
SYMMETRY Interchangeable
SPECIFICATION Spec
INVARIANTS TypeOK OwedIsOwned  NoDepositPassedOver
CHECK_DEADLOCK FALSE
