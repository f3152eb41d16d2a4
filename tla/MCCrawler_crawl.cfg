\* Two download slots; a page with two links, one of them back to it.
CONSTANTS
    u1 = u1
    u2 = u2
    u3 = u3
    Urls = {u1, u2, u3}
    Seeds = {u1}
    Threads = {1, 2}
    Web <- MCWeb
    LinkFirst = {u2}
    NoUrl = NoUrl
    MaxAsked = 1
    MaxNotices = 1
SPECIFICATION FairSpec
INVARIANTS
    QueueMatchesWork
    NoSlotWasted
    CrawlHasWork
    ReportsAreComplete
PROPERTIES
    IdleIsWaiting
    CrawlEnds
