SPECIFICATION Spec
CONSTANTS
    j1 = j1
    j2 = j2
    Jobs <- OneJob
    MaxConcurrentJobs = 1
    Polled <- NoJob
    MaxFiles = 1
    MaxLoads = 0
    MaxFaults = 0
    MaxClears = 0
    MaxCrashes = 0
INVARIANTS
    FinalStateIsDurable
CHECK_DEADLOCK FALSE
