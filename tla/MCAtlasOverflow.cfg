SPECIFICATION Spec
CONSTANTS
    p1 = p1
    p2 = p2
    Provider = {p1, p2}
    BaseCooldown = 1
    DefaultCooldown = 1
    t1 = t1
    t2 = t2
    Thread = {t1, t2}
    Request <- Cascades
    MaxCooldown = 3
    OverflowAt = 1
    MaxRecord = 2
    MaxCalls = 2
SYMMETRY Threads
INVARIANTS CascadeNeverRaises
CHECK_DEADLOCK FALSE
