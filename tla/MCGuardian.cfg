SPECIFICATION Spec
CONSTANTS
    c1 = c1
    c2 = c2
    guarded = guarded
    Ctx = {c1, c2}
    Main = {c1}
    Agent = {guarded}
    Groups <- GroupsOf
    Ledger = {"rate", "cap"}
    Result <- Results
    Request <- Requests
    Past <- PastUses
    MaxCalls = 2
    MaxBlocks = 2
    MaxTime = 1
INVARIANTS OvershootIsBounded CrashesOnlyInRaces PoliciesAreEnforced
           ViolationsAreSettled ReturnedIsRedacted DryInsideBlocks
CHECK_DEADLOCK FALSE
