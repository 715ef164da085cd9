SPECIFICATION FairSpec
CONSTANTS
    MaxReqs = 3
    MaxKeys = 2
    MaxSubs = 4
    MaxPipeline = 1
    MaxBuffered = 1
CHECK_DEADLOCK FALSE
INVARIANTS
    RepliesInOrder
    QuitLostByReader
PROPERTIES
    RequestAnswered
    SessionEnds
