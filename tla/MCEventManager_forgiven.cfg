SPECIFICATION Spec
CONSTANTS
    Calls = {c1, c2}
    Names = {e1, e2}
    Backoff = 1
    MayOverlap <- CreatesOverlap
PROPERTY UnrecoverableIsFinal
CHECK_DEADLOCK FALSE
