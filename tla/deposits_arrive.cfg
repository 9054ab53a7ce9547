CONSTANTS
  Accounts = {a1}
  Txs = {t1, t2}
  MaxFailures = 2
  InitialBalance = 2
  Stakes = {2}
  MaxJoins = 0
  MaxCrashes = 1
  MaxHands = 0
  ReturnsInHand = FALSE
  Amount = 3
  MaxBlocks = 3
  InBlockOrder = TRUE
SPECIFICATION FairSpec
PROPERTY DepositsArrive
CHECK_DEADLOCK FALSE
