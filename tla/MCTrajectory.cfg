SPECIFICATION Spec
CONSTANTS
    c1 = c1
    c2 = c2
    c3 = c3
    r1 = r1
    r2 = r2
    Ctx = {c1, c2, c3}
    Main = {c1, c2}
    Traj = {r1, r2}
    MaxSteps = 2
SYMMETRY Interchangeable
INVARIANTS CurrentIsInnermost SavedIsComplete SpansAreSettled RaisesOnlyAcrossExit
CHECK_DEADLOCK FALSE
