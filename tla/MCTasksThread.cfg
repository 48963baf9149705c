SPECIFICATION Spec
CONSTANTS
    t1 = t1
    t2 = t2
    t3 = t3
    w1 = w1
    w2 = w2
    web = web
    th1 = th1
    th2 = th2
    NoJob = NoJob
    Tasks = {t1, t2}
    Processes = {w1}
    Workers = {w1}
    Pool = {th1, th2}
    Home <- MCHomeWorker
    Broker = "thread"
    MaxRetries <- MCMaxRetries
    Backoff <- MCBackoff
    Registry <- MCRegistryFull
    Faults = {"raise", "crash", "stop", "expire"}
INVARIANTS
    ExclusiveExecution
    FailedMeansExhausted
PROPERTIES
    FinalIsFinal
