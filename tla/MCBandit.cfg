SPECIFICATION Spec
CONSTANTS
    t1 = t1
    t2 = t2
    p1 = p1
    p2 = p2
    k0 = k0
    k1 = k1
    ucb1 = ucb1
    thompson = thompson
    None = None
    Named = Named
    Made = Made
    Remade = Remade
    Thread = {t1, t2}
    Prov = {p1, p2}
    Part = {k0, k1}
    Bandits = {ucb1, thompson}
    Kind <- KindOf
    Installed = ucb1
    Candidates <- Healthy
    Feedback <- Reported
    Past <- Saved
    MaxCalls = 3
    MaxRestarts = 1
INVARIANTS OutcomeToItsChooser MemoryCoversStore
PROPERTIES ExploresFirst
