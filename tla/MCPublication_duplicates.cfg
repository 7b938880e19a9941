SPECIFICATION FairSpec
CONSTANTS
    c1 = c1
    c2 = c2
    c3 = c3
    Calls <- DuplicateCalls
    KeyOf <- DuplicateKeys
    IntentOf <- DuplicateIntents
    Appends <- DuplicateAppends
    FilesPerAppend = 2
    MaxRebases = 1
    MaxReconciliations = 1
INVARIANTS
    KeyCommittedOnce
    OkIsCommitted
    DefiniteErrorNeverCommitted
    CommittedObjectsExist
PROPERTIES
    EveryCallAnswered
    ImplementsCommitLog
