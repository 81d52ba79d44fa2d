CONSTANTS
    Versions = {1, 2}
    Parts = 3
    MaxCalls = 4
SPECIFICATION InstallSpec
INVARIANTS InstallerTypeOK SkipJustified InstalledIsWhole
CHECK_DEADLOCK FALSE
