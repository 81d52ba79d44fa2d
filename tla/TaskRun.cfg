CONSTANTS
    MaxTask = 4
    MaxDeps = 2
    Unknown = Unknown
    Tasks <- MCTasks
    DepGraphs <- MCDepGraphs
    Requests <- MCRequests
    CommandLines <- MCCommandLines
    DefaultLists <- MCDefaultLists
SPECIFICATION FairRunSpec
INVARIANTS RunTypeOK UnwrapSafe CancelSkipsOnlyDownstream BodiesRunAfterUpstream VerdictReported
PROPERTY ImplementsDependencyRun
CHECK_DEADLOCK FALSE
