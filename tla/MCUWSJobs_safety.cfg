SPECIFICATION Spec
CONSTANTS
    Jobs = {j1}
    Requests = {r1, r2}
    ArqIds = {a1, a2}
    Workers = {w1}
    None = None
    Ops <- AnyOp
    MaxRuns = 2
    MaxFaults = 1
    Timely = FALSE
SYMMETRY Symmetry
CONSTRAINT RestartsOrRequests
INVARIANTS Provenance SyncResultIsOwn SuccessesAreReported
PROPERTIES NoResurrection
CHECK_DEADLOCK FALSE
