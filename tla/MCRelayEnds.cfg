SPECIFICATION MCFairSpec
CONSTANTS
    ana = ana
    rui = rui
    None = None
    Users = {ana, rui}
    Offered = {"send", "askqueue", "getmsg", "bare", "help"}
    MaxRuns = 2
    MaxOpen = 2
    MaxTake = 2
    MaxInterrupts = 1
    MaxNum = 0
    MaxListed = 2
    MaxKey = 0
    MaxExpired = 1
    MaxRestarts = 0
INVARIANTS
    UnverifiedGetsNothing
    CompletedNeverSticks
PROPERTIES
    EndsUnless
CHECK_DEADLOCK FALSE
