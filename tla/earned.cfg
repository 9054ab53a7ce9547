SPECIFICATION Spec
CONSTANTS
    Listed = {1, 2}
    MaxBet = 4
    Ranks = {}
    Singles = {}
    Shuffles = {}
INVARIANT
    WinnerEarnsThePot
CHECK_DEADLOCK FALSE
