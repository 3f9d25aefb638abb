SPECIFICATION Spec
CONSTANTS
    Requests = {r1}
    Routes <- SyncRoutes
    Alone <- NoRoutes
    MaxJobs = 1
    Times = {1, 3}
    Durations <- SomeDurations
    Waits <- SomeWaits
    Parameters = {"given"}
    Quotes = {0}
    ResultUrls = {"s3"}
    ErrorTypes = {"USAGE"}
    MaxFaults = 0
    execution_duration = 2
    lifetime = 3
    sync_timeout = 2
    wait_timeout = 1
PROPERTY SyncWaitsItsTimeout
CHECK_DEADLOCK FALSE
