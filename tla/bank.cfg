CONSTANTS
  Accounts = {a1, a2}
  Txs = {t1}
  MaxFailures = 0
  InitialBalance = 2
  Stakes = {2}
  MaxJoins = 2
  MaxCrashes = 1
  MaxHands = 1
  ReturnsInHand = FALSE
  Amount = 3
  MaxBlocks = 2
  InBlockOrder = TRUE
SYMMETRY Interchangeable
SPECIFICATION Spec
INVARIANTS LockedIsAtTables OwedIsOwned
CHECK_DEADLOCK FALSE
