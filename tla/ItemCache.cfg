\* Two connections, three items, a slab move, a crawl and a flush.
CONSTANTS
    w1 = w1
    w2 = w2
    i1 = i1
    i2 = i2
    i3 = i3
    k1 = k1
    k2 = k2
    Workers = {w1, w2}
    Keys = {k1, k2}
    Items = {i1, i2, i3}
    Page <- MCPage
    Lru <- MCLru
    Key0 <- MCKey0
    Expiring = {k2}
    NoItem = NoItem
    Nobody = Nobody
    Crawler = Crawler
    Tries = 2
    MaxOps = 2
    MaxCrawls = 1
    MaxFlushes = 1
SPECIFICATION Spec
CHECK_DEADLOCK FALSE
INVARIANTS
    
    HeldStays
    ListsAgree
    
    StolenSlabClear

    
