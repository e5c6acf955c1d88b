CONSTANTS
    p1 = p1
    p2 = p2
    Nobody = Nobody
    Processes <- TwoProcesses
    MaxFiles = 3
SPECIFICATION LockSpec
CHECK_DEADLOCK FALSE
INVARIANT OneInstance
