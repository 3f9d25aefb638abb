SPECIFICATION ServicesFairSpec
CONSTANTS
    Jobs = {j1}
    Requests = {r1, r2}
    ArqIds = {a1}
    Workers = {w1}
    None = None
    MaxRuns = 2
    MaxFaults = 0
    Timely = TRUE
    Calls = {c1, c2}
    Names = {e1, e2}
    Backoff = 2
    MayOverlap <- PublishesOverlap
INVARIANTS ReadyMeansStarted
PROPERTIES
    ResultsAreStored FinishedJobsStayFinished RequestsFinish
    UnrecoverableIsFinal Recovers
CHECK_DEADLOCK FALSE
