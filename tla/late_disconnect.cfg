CONSTANTS
  MaxConnections = 2
  MaxClients = 2
  MaxQueue = 2
  Orderly = FALSE
  Accounts = {a1}
  Tables = {t1}
  MaxTokens = 2
SPECIFICATION Spec
PROPERTIES OnlyTheGoneAreRemoved
CHECK_DEADLOCK FALSE
