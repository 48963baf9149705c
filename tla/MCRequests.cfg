SPECIFICATION Spec
CONSTANTS
    Slots = {r1, r2}
    Messages = {m1, m2, m3}
    Tokens = {k1, k2}
    None = none
    Urls = {front, draft}
    HomeOf <- MCHomeOf
    Sent <- MCSent
    Depth <- MCDepth
    Crowded = {front}
    front = front
    draft = draft
    top = top
    blog = blog
    Storages = {"cookie", "session", "fallback"}
    Capacity = 1
    MaxBody = 3
    BodyLimit = 1
    Shared = 1
SYMMETRY MCSymmetry
INVARIANTS
    TypeOK
    BodyIntact
PROPERTIES
    FormAccepted
    KeepsItsPromise
CHECK_DEADLOCK FALSE
