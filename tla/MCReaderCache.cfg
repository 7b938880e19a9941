SPECIFICATION FairSpec
CONSTANTS
    r1 = r1
    r2 = r2
    Readers <- MCReaders
    Path <- MCPath
    Checkpoint = "checkpoint"
    Nodes = {"node"}
    Limit = 6
    Permits = 1
    WorkCost = 1
    LoadCost = 1
    FillCost = 2
    DecodeCost = 2
    PageCost = 1
INVARIANTS
    BudgetKept
    SingleFlight
    AuthenticOnly
PROPERTIES
    EveryReadAnswered
