SPECIFICATION FairSpec
CONSTANTS
    c1 = c1
    c2 = c2
    c3 = c3
    Calls <- Rivals
    MaxReconciliations = 1
    MaxVersion = 1
INVARIANTS
    AnswersTrue
    OwnTableDeniedOnlyIfMovedOn
PROPERTIES
    TableNeverReplaced
    EveryCreatorAnswered
