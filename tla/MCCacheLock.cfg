SPECIFICATION FairSpec
CONSTANTS
    t1 = t1
    t2 = t2
    hits = hits
    page = page
    lock = lock
    Threads = {t1, t2}
    Keys = {lock}
    NoKey = NoKey
    Backends = {"locmem"}
    MaxEntries = 2
    CullFrequency = 2
    Timeouts = {"running"}
    Default = "running"
    Ops <- MCOps
    MaxValue = 1
CHECK_DEADLOCK FALSE
PROPERTY
    AddExclusive
