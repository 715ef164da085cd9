SPECIFICATION Spec
CONSTANTS
    Slots = {s1}
    Groups = {g1, g2}
    Proxies = {p1, p2}
    Up = {p1}
    NoGroup = NoGroup
    NoSlot = NoSlot
    MaxTasks = 1
    MaxActions = 4
    MaxStarts = 2
    MaxFaults = 1
SYMMETRY GroupSymmetry
CONSTRAINT BeforeStray
CHECK_DEADLOCK FALSE
INVARIANTS
    NoSplitRoute
    KeysReachable
PROPERTIES
    ConfirmMeansApplied
    OfflineMeansLeaving
