CONSTANTS
  Accounts = {a1, a2}
  Txs = {}
  MaxFailures = 0
  InitialBalance = 2
  Stakes = {1, 2}
  MaxJoins = 3
  MaxCrashes = 0
  MaxHands = 1
  ReturnsInHand = TRUE
  Amount = 3
  MaxBlocks = 1
  InBlockOrder = TRUE
SPECIFICATION Spec
CHECK_DEADLOCK FALSE
INVARIANT EntranceIsLocked
