SPECIFICATION Spec
CONSTANTS
    j1 = j1
    j2 = j2
    c1 = c1
    c2 = c2
    Job = {j1, j2}
    Caller = {c1, c2}
    Interval = 1
    MaxWait = 1
    MaxAdds = 3
    MaxLoops = 2

INVARIANTS SingleThread
CHECK_DEADLOCK FALSE
