SPECIFICATION FairSpec
CONSTANTS
    MaxSlotNum = 2
    Requests = {r1}
    Addrs = {a1, a2}
    Conns = {c1, c2}
    NoAddr = NoAddr
    NoConn = NoConn
INVARIANTS
    RefcntExact
    SendOnOpenChannel
    RoutedToOwner
PROPERTIES
    JobCompletes
    RequestCompletes
