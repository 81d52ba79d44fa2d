CONSTANTS
    Capacity = 2
    MaxLines = 3
SPECIFICATION FairProcessSpec
INVARIANTS ProcessTypeOK ResultTrue
PROPERTIES ExecReturns
CHECK_DEADLOCK FALSE
