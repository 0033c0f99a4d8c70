SPECIFICATION PipeSpec
CONSTANTS
    a1 = a1
    a2 = a2
    c1 = c1
    Agent = {a1, a2}
    Advertises = {a1}
    Strict = {}
    Caller = {c1}
    Request <- Requests
    Plan <- Plans
    MaxDelegations = 3
    MaxRegistrations = 2
INVARIANTS OutputsChain OnlyTheNamedAgent
CHECK_DEADLOCK FALSE
