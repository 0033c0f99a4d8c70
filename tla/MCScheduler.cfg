SPECIFICATION Spec
CONSTANTS
    j1 = j1
    j2 = j2
    c1 = c1
    c2 = c2
    Job = {j1, j2}
    Caller = {c1, c2}
    Interval = 2
    MaxWait = 2
    MaxAdds = 2
    MaxLoops = 2
SYMMETRY Callers
INVARIANTS RemovedJobsFade
PROPERTIES NoLoopIsLost ClaimsAnIntervalApart
CHECK_DEADLOCK FALSE
