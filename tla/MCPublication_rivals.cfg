SPECIFICATION Spec
CONSTANTS
    c1 = c1
    c2 = c2
    c3 = c3
    Calls <- RivalCalls
    KeyOf <- RivalKeys
    IntentOf <- RivalIntents
    Appends <- RivalAppends
    FilesPerAppend = 1
    MaxRebases = 1
    MaxReconciliations = 1
SYMMETRY RivalSymmetry
INVARIANTS
    PublicationInv
