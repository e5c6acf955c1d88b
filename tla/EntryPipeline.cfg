CONSTANTS
    pullback = pullback
    trend = trend
    orb = orb
    None = None
    Tags <- ThreeTags
    MaxSize = 1
    MaxPending = 2
    MaxIntents = 3
SPECIFICATION FairSpec
CHECK_DEADLOCK FALSE
INVARIANTS TypeOK KeysMatch OneEntry
PROPERTIES KeysAreFreed StopEnds
