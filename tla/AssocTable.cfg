SPECIFICATION FairSpec
CONSTANTS
    k1 = k1
    k2 = k2
    k3 = k3
    k4 = k4
    Workers = {w1, w2}
    Keys <- MCKeys
    hash <- MChash
    Stored <- MCStored
    Asked <- MCAsked
    HASHPOWER_DEFAULT = 1
    item_lock_hashpower = 1
    NoItem = NoItem
    Nobody = Nobody
    MaxPower = 2
    MaxOps = 3
CHECK_DEADLOCK FALSE
INVARIANTS
    MoveAlone
    OverlapOnlyInSwitch
PROPERTIES
    
    ExpansionEnds
