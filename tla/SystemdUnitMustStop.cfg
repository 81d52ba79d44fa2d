CONSTANTS
    Controls = {"start", "stop", "restart"}
    Removals = {"done", "canceled", "unsupported"}
    MaxJobs = 2
    MaxCalls = 1
SPECIFICATION SystemdSpec
INVARIANT MustStopStops
CHECK_DEADLOCK FALSE
