SPECIFICATION Spec
CONSTANTS
    j1 = j1
    j2 = j2
    Jobs <- OneJob
    MaxConcurrentJobs = 1
    Polled <- NoJob
    MaxFiles = 1
    MaxLoads = 0
    MaxFaults = 1
    MaxClears = 0
    MaxCrashes = 0
INVARIANTS
    RunNeverRaises
CHECK_DEADLOCK FALSE
