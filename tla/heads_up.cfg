SPECIFICATION Spec
CONSTANTS
    alice = alice
    bob = bob
    carol = carol
    p1 = 1
    p2 = 2
    p3 = 3
    None = None
    Players = {1, 2}
    Accounts = {alice, bob}
    MaxPlayers = 3
    SmallBlind = 1
    BigBlind = 2
    EnteranceMin = 3
    Modulus = 64
    JoinRequests <- HeadsUpJoins
    ActionRequests <- AllActions
    Leavers = {}
    MaxJoins = 2
    MaxHands = 3
    MaxQueue = 2
    MaxCounter = 4
INVARIANTS
    TypeOK
    BetsWithinCurrentBet
    PotIsTheBets
    OneDriver
    TurnCanAct
    NoHang
PROPERTIES
    ChipsNeverCreated
    HandEnds
CHECK_DEADLOCK FALSE
