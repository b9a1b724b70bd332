SPECIFICATION Spec
CONSTANTS
    j1 = j1
    j2 = j2
    Jobs <- TwoJobs
    MaxConcurrentJobs = 1
    Polled <- NoJob
    MaxFiles = 2
    MaxLoads = 0
    MaxFaults = 1
    MaxClears = 1
    MaxCrashes = 1
SYMMETRY JobSymmetry
INVARIANTS
    TypeOK
    PermitsConserved
    DurableSuccessHasResult
    CancelKept
    EndedIsDurable
    EventsTellOutcome
    TotalsAreFinal
PROPERTIES
    CancelStopsFiles
    ImplementsArchive
CHECK_DEADLOCK FALSE
