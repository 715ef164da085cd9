SPECIFICATION FairSpec
CONSTANTS
    g1 = g1
    g2 = g2
    g3 = g3
    Groups <- MCGroups
    Memories <- MCMemories
    SlotNum = 5
    Others <- MCOthers
CHECK_DEADLOCK FALSE

    
PROPERTIES
    QuotaReached
    RebalanceEnds
