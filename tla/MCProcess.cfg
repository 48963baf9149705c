SPECIFICATION FairProcessSpec
CONSTANTS
    Threads = {t1, t2}
    Receivers = {r1, r2, r3}
    Uids = {u1, u2}
    Nobody = nobody
    UidOf <- MCUidOf
    Weak = {r1, r2}
    Callers = {t1, t2}
    Installed <- MCInstalled
    BootFaults = {"settings", "create", "import", "ready"}
    Schedule <- MCSchedule
    Every <- MCEvery
    MaxLag = 1
    Readers = {t1, t2}
    Overrides = {o1, o2}
    Modifies = {o2}
    Project = project
    Nothing = nothing
    Failed = failedRead
    MaxDepth = 3
    Main = t1
    HookOf <- MCHookOf
    AppOf <- MCAppOf
    r1 = r1
    r2 = r2
    r3 = r3
    u1 = u1
    u2 = u2
    blog = blog
    shop = shop
    gone = gone
    e1 = e1
    e2 = e2
    e3 = e3
    e4 = e4
INVARIANTS
    ProcessTypeOK
    RegistrationsKept
    ReadyMeansComplete
    HooksOnce
    FailedStaysFailed
    OverridesNest
PROPERTIES
    EveryListenerHears
    IntervalsKept
    BeatGoesOn
CHECK_DEADLOCK FALSE
