SPECIFICATION FairSpec
CONSTANTS
    s1 = s1
    s2 = s2
    BatchLimit = 2
    QueryFiles = 1
    Readers <- MCReaders
    Filters <- MCFilters
    Scans <- MCScans
    Concurrency = 2
    PlanningBudget = 7
INVARIANTS
    PinnedToWanted
    PlanExact
    NoMatchingRowLost
    PlanValidated
PROPERTIES
    EveryScanEnds
