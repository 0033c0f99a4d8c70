SPECIFICATION Spec
CONSTANTS
    t1 = t1
    t2 = t2
    early = early
    late = late
    NoFactory = NoFactory
    Thread = {t1, t2}
    MaxDepth = 2
    EventKind = {"health", "profile"}
    Wildcard = "all"
    MaxSubs = 3
    CheckName = {"db", "disk"}
    CheckOutcome = {"DEGRADED", "raise"}
    HealthRun = "health"
    Layer <- Layers
    LayerName = {early, late}
    Factories <- Made
    Chains <- Given
    RuleOutcome = {"PASS", "FAIL", "other", "raise"}
    Start <- Populated
    MaxCalls = 3
INVARIANTS EachHandlerOnce OverallIsHonest PassMeansAllPassed
SYMMETRY Symmetry
