SPECIFICATION FairSpec
CONSTANTS
    Slots = {s1, s2}
    Groups = {g1, g2}
    Proxies = {p1}
    Up = {p1}
    NoGroup = NoGroup
    NoSlot = NoSlot
    MaxTasks = 2
    MaxActions = 12
    MaxStarts = 1
    MaxFaults = 1
CHECK_DEADLOCK FALSE
INVARIANTS
    OneMigration
PROPERTIES
    MigrationCompletes
