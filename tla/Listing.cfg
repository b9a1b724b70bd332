SPECIFICATION Spec
CONSTANTS
    NumJobs = 3
    PageSizes = {1, 2}
    PluginOf <- MCPluginOf
    Filters <- MCFilters
    MaxClears = 1
INVARIANTS
    PageIsOrderedAndFull
    SkippedOnlyAfterDeparture
    RepeatedOnlyAfterArrival
CHECK_DEADLOCK FALSE
