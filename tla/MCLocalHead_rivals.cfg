SPECIFICATION FairSpec
CONSTANTS
    w1 = w1
    w2 = w2
    w3 = w3
    w4 = w4
    w5 = w5
    p1 = p1
    p2 = p2
    p3 = p3
    Absent = "absent"
    Writes <- RivalWrites
    Expected <- RivalExpected
    Value <- RivalValue
    Processes <- RivalProcesses
    ProcessOf <- RivalProcessOf
    PidOf <- RivalPidOf
    StatMayFail = FALSE
PROPERTIES
    ImplementsConditionalHead
    EveryWriteReturns
