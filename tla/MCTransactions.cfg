SPECIFICATION Spec
CONSTANTS
    c1 = c1
    c2 = c2
    c3 = c3
    c4 = c4
    c5 = c5
    Calls <- FiveCalls
    Scenarios <- MCScenarios
    GenesisSchema <- Schema1
    FloatFields = {2}
INVARIANTS
    CandidatesValid
    HistoryVerifies
    AppendsStayOnTheirLine
    ChangesRecorded
    NoStaleWrite
    FieldIdsIntroducedOnce
