CONSTANTS
  MaxConnections = 3
  MaxClients = 2
  MaxQueue = 1
  Orderly = TRUE
  Accounts = {a1}
  Tables = {t1}
  MaxTokens = 3
SPECIFICATION FairSpec
INVARIANTS TypeOK NoUseAfterFree BothSidesAgree
PROPERTIES OnlyTheGoneAreRemoved GoneAreRemoved
CHECK_DEADLOCK FALSE
