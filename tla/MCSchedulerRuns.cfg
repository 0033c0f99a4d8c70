SPECIFICATION FairSpec
CONSTANTS
    j1 = j1
    j2 = j2
    c1 = c1
    c2 = c2
    Job = {j1, j2}
    Caller = {c1}
    Interval = 1
    MaxWait = 1
    MaxAdds = 2
    MaxLoops = 2
PROPERTIES DueJobRuns StopIsSeen
CHECK_DEADLOCK FALSE
