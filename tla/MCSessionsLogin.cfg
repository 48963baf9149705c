SPECIFICATION Spec
CONSTANTS
    c1 = c1
    c2 = c2
    NoClient = NoClient
    r1 = r1
    r2 = r2
    r3 = r3
    k1 = k1
    k2 = k2
    k3 = k3
    NoKey = NoKey
    Clients = {c1}
    Requests = {r1, r2}
    MaxInFlight <- MCMaxInFlight
    Keys = {k1, k2}
    Engines = {"db"}
    Ops = {"write", "login"}
    Faults = {}
INVARIANT
    EveryKnownIsKept
SYMMETRY Symmetry
CHECK_DEADLOCK FALSE
