SPECIFICATION FairSpec
CONSTANTS
    Jobs = {j1}
    Requests = {r1}
    ArqIds = {a1}
    Workers = {w1}
    None = None
    Ops <- RunOps
    MaxRuns = 1
    MaxFaults = 0
    Timely = FALSE
PROPERTY ResultsAreStored
CHECK_DEADLOCK FALSE
