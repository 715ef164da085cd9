CONSTANTS
    Trackers = {1, 2}
    Order <- MCOrder
    MaxRun = 1
    MaxInterval = 1
    MaxCrashes = 1
    MaxCuts = 1
SPECIFICATION FairSpec
CHECK_DEADLOCK FALSE

    
PROPERTIES
    SittingLeaderSafe
    LeaderFound
