SPECIFICATION FairSpec
CONSTANTS
    q1 = q1
    q2 = q2
    Queries <- MCQueries
    Statements = 1
    Images <- MCImages
    NumPages = 4
    MaxRecord = 2
    MaxReads = 2
    MaxRoles = 3
INVARIANTS
    RolesFormTree
    AnswersOwnCause
    NoLostRead
PROPERTIES
    EngineComesFree
