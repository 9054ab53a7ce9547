CONSTANTS
  Listed = {1, 2, 3}
  MaxBet = 4
  Ranks = {9, 10, 11, 12}
  Singles = {6, 7, 8}
  Shuffles <- ShufflesUsed
  Sessions = {s1, s2, s3}
  None = none
  MaxPlayers = 2
  Characters = {"a", "b"}
  Keys <- Tokens
  Values = {v1, v2}
  NoValue = nothing
  Packets <- PacketsSent
  MaskKeys <- KeysUsed
  MaxPackets = 2
  MaxPings = 1
  MaxSends = 1
  MaxWire = 2
SPECIFICATION AnySpec
INVARIANTS NeverOverpays OnlyMatchedBetsAreWon PaysSidePots CategoryIsRight LeadsWithItsGroup WellLinked MostPlayersFirst TrieIsMap PacketsComeOut FramesAreWhole
CHECK_DEADLOCK FALSE
