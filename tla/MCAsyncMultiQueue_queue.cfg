SPECIFICATION FairSpec
CONSTANTS
    Readers = {r1, r2}
    Items = {a}
    End = End
    MaxLen = 2
    MaxClears = 1
    MaxStart = 1
INVARIANTS InOrder NoLostWakeup TriggersAreLive
PROPERTIES EndIsSeen ItemsAreDelivered ImplementsLog
CHECK_DEADLOCK FALSE
