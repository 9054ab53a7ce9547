SPECIFICATION Spec
CONSTANTS
    alice = alice
    bob = bob
    carol = carol
    None = None
    p1 = p1
    p2 = p2
    p3 = p3
    Players = {p1, p2, p3}
    Accounts = {alice, bob, carol}
    MaxPlayers = 3
    SmallBlind = 1
    BigBlind = 2
    EnteranceMin = 2
    Modulus = 64
    JoinRequests <- ShortBigBlind
    ActionRequests <- OnlyChecks
    Leavers = {}
    MaxJoins = 3
    MaxHands = 1
    MaxQueue = 1
    MaxCounter = 4
PROPERTY
    TimeoutEndsTurn
CHECK_DEADLOCK FALSE
