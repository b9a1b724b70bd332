SPECIFICATION Spec
CONSTANTS
    j1 = j1
    j2 = j2
    None = None
    Callers <- OneJob
    NumSecrets = 2
    Locations = {"main", "mirror"}
    Buckets = {"results", "other"}
    Deployed <- MCDeployed
    Requests <- MirrorRequests
    Days = {1, 2, 10}
    Names <- MCNames
    Stem <- MCStem
    Delivered <- MCDelivered
    Deliveries <- MCDeliveries
    RemoteFiles <- MCRemoteFiles
    Content <- MCContent
    Feed <- MCFeed
    MaxChanges = 0
INVARIANTS
    MirrorServesLaterRuns
CHECK_DEADLOCK FALSE
