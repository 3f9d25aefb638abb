SPECIFICATION Spec
CONSTANTS
    Requests = {r1, r2}
    Routes <- EveryRoute
    Alone <- OneStepRoutes
    MaxJobs = 1
    Times = {1, 4}
    Durations <- SomeDurations
    Waits <- SomeWaits
    Parameters = {"given", "empty"}
    Quotes = {0}
    ResultUrls = {"file"}
    ErrorTypes = {"USAGE"}
    MaxFaults = 1
    execution_duration = 2
    lifetime = 3
    sync_timeout = 2
    wait_timeout = 1
SYMMETRY Symmetry
VIEW StepState
INVARIANTS LimitsHold
PROPERTIES UpdateKeepsOther 
CHECK_DEADLOCK FALSE
