SPECIFICATION Spec
CONSTANTS
    c1 = c1
    c2 = c2
    c3 = c3
    Calls <- Pair
    MaxReconciliations = 1
    MaxVersion = 1
INVARIANTS
    AlreadyExistsMeansAnother
