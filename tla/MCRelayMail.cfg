SPECIFICATION MCSpec
CONSTANTS
    ana = ana
    rui = rui
    None = None
    Users = {ana, rui}
    Offered = {"send", "askqueue", "getmsg"}
    MaxRuns = 4
    MaxOpen = 1
    MaxTake = 1
    MaxInterrupts = 0
    MaxNum = 2
    MaxListed = 2
    MaxKey = 0
    MaxExpired = 0
    MaxRestarts = 0
SYMMETRY Symmetry
INVARIANTS
    NumbersHold
    ReadWasFetched
CHECK_DEADLOCK FALSE
