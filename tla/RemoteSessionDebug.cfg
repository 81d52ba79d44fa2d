CONSTANTS
    Files <- MCFiles
    f1 = f1
    f2 = f2
    MaxEvents = 2
    MaxSessions = 2
SPECIFICATION FairSessionSpec
INVARIANT DebugHarmless
CHECK_DEADLOCK FALSE
