SPECIFICATION Spec
CONSTANTS
    p1 = p1
    p2 = p2
    Provider = {p1, p2}
    BaseCooldown = 1
    DefaultCooldown = 1
    t1 = t1
    t2 = t2
    Thread = {t1, t2}
    Request <- Requests
    MaxCooldown = 3
    OverflowAt = 1024
    MaxRecord = 2
    MaxCalls = 2
SYMMETRY Threads
INVARIANTS TypeOK Screened HealthConsistent LedgerExact
PROPERTIES NoCallThroughOldCooldown NothingSteadyOverlooked
    ResetEndsOldCooldowns
CHECK_DEADLOCK FALSE
