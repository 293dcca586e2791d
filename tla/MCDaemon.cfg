SPECIFICATION FairSpec
CONSTANTS
    None = None
    Clients = {c1, c2}
    MaxProcs = 3
    PipeCap = 1
    MaxRequests = 2
    MaxStops = 1
    MaxInterrupts = 1
CHECK_DEADLOCK FALSE
INVARIANTS
    TypeOK
    RequestAccounted
    AnswerIsOwn
PROPERTIES
    AttendedWhileRoom
    AnsweredUnless
