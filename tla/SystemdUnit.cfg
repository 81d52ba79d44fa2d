CONSTANTS
    Controls = {"start", "stop", "restart"}
    Removals = {"done", "canceled", "unsupported"}
    MaxJobs = 3
    MaxCalls = 2
SPECIFICATION FairSystemdSpec
INVARIANTS ServiceTypeOK ResultOfOwnJob
PROPERTY WaitEnds
CHECK_DEADLOCK FALSE
