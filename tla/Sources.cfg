SPECIFICATION Spec
CONSTANTS
    j1 = j1
    j2 = j2
    None = None
    Callers <- TwoJobs
    NumSecrets = 2
    Locations = {"main", "mirror"}
    Buckets = {"results", "other"}
    Deployed <- MCDeployed
    Requests <- MCRequests
    Days = {1, 2, 10}
    Names <- MCNames
    Stem <- MCStem
    Delivered <- MCDelivered
    Deliveries <- MCDeliveries
    RemoteFiles <- MCRemoteFiles
    Content <- MCContent
    Feed <- MCFeed
    MaxChanges = 2
SYMMETRY JobSymmetry
INVARIANTS
    TypeOK
    ListingIsExact
    WorkDirHoldsOneFile
    SuccessReadEverything
    RunsOverItsSource
    CountersAgree
    DocumentsAreFound
    BundleOfThisProcess
PROPERTIES
    SettledCacheStays
CHECK_DEADLOCK FALSE
