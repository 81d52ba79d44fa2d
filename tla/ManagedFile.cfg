CONSTANTS
    Markers <- MCMarkers
    Extensions <- MCExtensions
    Contents = {"x", "y"}
    TextOf <- MCTextOf
    Terminated = {"y"}
    MaxCalls = 3
    MaxEdits = 1
SPECIFICATION FileSpec
INVARIANTS FileTypeOK CallsExact BoundsKept
CHECK_DEADLOCK FALSE
