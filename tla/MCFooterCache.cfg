SPECIFICATION FairSpec
CONSTANTS
    p1 = p1
    p2 = p2
    p3 = p3
    e1 = e1
    a = a
    b = b
    c = c
    Readers <- MCReaders
    Preflight <- MCPreflight
    Optioned <- MCOptioned
    Files <- MCFiles
    File <- MCFile
    Uri <- MCUri
    Limit = 6
    KeyBytes = 1
    Estimate <- MCEstimate
    Actual <- MCActual
INVARIANTS
    BudgetKept
    OneVersionPerUri
    NotRefusedForOthers
PROPERTIES
    EveryCallAnswered
