SPECIFICATION FairSpec
CONSTANTS
    t1 = t1
    t2 = t2
    hits = hits
    page = page
    lock = lock
    Threads = {t1, t2}
    Keys = {hits, page, lock}
    NoKey = NoKey
    Backends = {"locmem", "redis"}
    MaxEntries = 2
    CullFrequency = 2
    Timeouts = {"running"}
    Default = "running"
    Ops <- MCOps
    MaxValue = 2
INVARIANTS
    TypeOK
    SizeBounded
    TalliesExact
PROPERTY
    EventuallyFresh
CHECK_DEADLOCK FALSE
