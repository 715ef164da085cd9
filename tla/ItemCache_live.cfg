\* The same without flush_all: does everything end?
CONSTANTS
    w1 = w1
    w2 = w2
    i1 = i1
    i2 = i2
    i3 = i3
    k1 = k1
    k2 = k2
    Workers = {w1, w2}
    Keys = {k1, k2}
    Items = {i1, i2, i3}
    Page <- MCPage
    Lru <- MCLru
    Key0 <- MCKey0
    Expiring = {}
    NoItem = NoItem
    Nobody = Nobody
    Crawler = Crawler
    Tries = 2
    MaxOps = 2
    MaxCrawls = 2
    MaxFlushes = 0
SPECIFICATION FairSpec
CHECK_DEADLOCK FALSE
PROPERTIES
    
    CrawlEnds
