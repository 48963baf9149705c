SPECIFICATION FairSpec
CONSTANTS
    t1 = t1
    t2 = t2
    t3 = t3
    w1 = w1
    w2 = w2
    web = web
    th1 = th1
    th2 = th2
    NoJob = NoJob
    Tasks = {t1, t2, t3}
    Processes = {w1}
    Workers = {w1}
    Pool = {}
    Home <- MCHomeNone
    Broker = "redis"
    MaxRetries <- MCMaxRetries
    Backoff <- MCBackoff
    Registry <- MCRegistryFull
    Faults = {"stop"}
PROPERTIES
    NoRetryForgotten
    EveryTaskFinishes
    StopIsHonoured
