SPECIFICATION Spec
CONSTANTS
    t1 = t1
    t2 = t2
    t3 = t3
    w1 = w1
    w2 = w2
    web = web
    th1 = th1
    th2 = th2
    NoJob = NoJob
    Tasks = {t1, t2}
    Processes = {w1, w2}
    Workers = {w1, w2}
    Pool = {}
    Home <- MCHomeNone
    Broker = "redis"
    MaxRetries <- MCMaxRetries
    Backoff <- MCBackoff
    Registry <- MCRegistryPartial
    Faults = {"raise", "crash", "stop"}
INVARIANTS
    TypeOK
    AttemptsBounded
    ExclusiveExecution
    FailedMeansExhausted
PROPERTIES
    FinalIsFinal
    Lifecycle
