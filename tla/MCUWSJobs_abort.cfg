SPECIFICATION Spec
CONSTANTS
    Jobs = {j1}
    Requests = {r1, r2}
    ArqIds = {a1}
    Workers = {w1}
    None = None
    Ops <- AsyncOps
    MaxRuns = 1
    MaxFaults = 0
    Timely = TRUE
PROPERTY AbortLeavesCompleted
CHECK_DEADLOCK FALSE
