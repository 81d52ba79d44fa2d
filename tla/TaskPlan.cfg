CONSTANTS
    MaxTask = 4
    MaxDeps = 2
    MaxRequests = 2
    Tasks <- MCTasks
    DepGraphs <- MCDepGraphs
    Requests <- MCRequests
SPECIFICATION FairSpec
INVARIANTS TypeOK ParentsFirst EarlierTargetsFirst
PROPERTIES ImplementsDependencyOrder
CHECK_DEADLOCK FALSE
