CONSTANTS
    Names <- MCNames
    Elsewhere <- MCElsewhere
    MaxForeign = 1
    MaxReqs = 2
    MaxCalls = 2
SPECIFICATION PkgSpec
INVARIANTS PkgTypeOK StatusAccurate CallsEffective EnsureIdempotent
CHECK_DEADLOCK FALSE
