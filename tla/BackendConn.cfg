SPECIFICATION FairSpec
CONSTANTS
    Sessions = {s1, s2}
    Pushes = 2
    InputCap = 2
    TaskCap = 1
    MaxBuffered = 1
    MaxConns = 2
    NoReq = NoReq
CHECK_DEADLOCK FALSE
INVARIANTS
    ReplyIsMine
PROPERTIES
    AllAnswered
    ImplementsService
