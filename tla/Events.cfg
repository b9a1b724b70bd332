SPECIFICATION FairSpec
CONSTANTS
    c1 = c1
    c2 = c2
    Clients <- MCClients
    QueueSize = 2
    LogSize = 3
    MaxEvents = 6
INVARIANTS
    TypeOK
    StreamHasNoGap
    ActivityClosesTheGap
PROPERTIES
    DroppedOnlyWhenBehind
    QueuesDrain
CHECK_DEADLOCK FALSE
