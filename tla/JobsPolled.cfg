SPECIFICATION FairSpec
CONSTANTS
    j1 = j1
    j2 = j2
    Jobs <- TwoJobs
    MaxConcurrentJobs = 1
    Polled <- FirstJob
    MaxFiles = 1
    MaxLoads = 1
    MaxFaults = 0
    MaxClears = 1
    MaxCrashes = 0
INVARIANTS
    PollsSeeTheWorker
PROPERTIES
    EveryJobEnds
CHECK_DEADLOCK FALSE
