SPECIFICATION Spec
CONSTANTS
    g1 = g1
    g2 = g2
    a1 = a1
    a2 = a2
    a3 = a3
    Groups <- MCGroups
    Addrs <- MCAddrs
    Servers <- MCServers
    Owners <- MCOwners
    NoGroup = NoGroup
    NoAddr = NoAddr
    Callers = {c1, c2}
    Migrator = Migrator
    SlotNum = 1
    MaxCalls = 2
    MaxTasks = 1
    MaxActions = 3
    MaxFaults = 1
CHECK_DEADLOCK FALSE
SYMMETRY Symmetry
INVARIANTS
    OneMaster
    UsedGroupExists
PROPERTIES
    PromoteDone
    MasterMissed
