SPECIFICATION MCSpec
CONSTANTS
    VersionWidth = 32
    MaxRestarts = 1
    MaxLosses = 1
INVARIANT UpgradeExitsZero
CHECK_DEADLOCK FALSE
