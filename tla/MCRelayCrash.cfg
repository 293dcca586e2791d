SPECIFICATION MCSpec
CONSTANTS
    ana = ana
    rui = rui
    None = None
    Users = {ana, rui}
    Offered = {"send", "getmsg"}
    MaxRuns = 2
    MaxOpen = 2
    MaxTake = 2
    MaxInterrupts = 1
    MaxNum = 1
    MaxListed = 2
    MaxKey = 1
    MaxExpired = 0
    MaxRestarts = 1
SYMMETRY Symmetry
INVARIANTS
    TypeOK
    ToldIsTrue
    OneKeyPerQueue
PROPERTIES
    ImplementsMailbox
CHECK_DEADLOCK FALSE
