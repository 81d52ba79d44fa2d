CONSTANTS
    a = a
    b = b
    Names <- MCNames
    MaxTasks = 2
    MaxDeps = 2
    MaxArgs = 2
    MaxTargets = 3
SPECIFICATION DefSpec
INVARIANTS DefTypeOK GraphWellFounded NamesKeepMeaning
CHECK_DEADLOCK FALSE
