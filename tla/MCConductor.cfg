SPECIFICATION FairSpec
CONSTANTS
    a1 = a1
    a2 = a2
    c1 = c1
    Agent = {a1, a2}
    Advertises = {a1}
    Strict = {a1}
    Caller = {c1}
    Request <- Requests
    MaxDelegations = 3
    MaxRegistrations = 1
INVARIANTS ResultIsTrue NothingRunsBelow HandoffsAreComplete
PROPERTIES TimedDelegationsReturn
CHECK_DEADLOCK FALSE
