CONSTANTS
    stopLoss = stopLoss
    takeProfit = takeProfit
    None = None
    Reasons <- TwoReasons
    OrderQty = 2
    MaxOrders = 4
    MaxStops = 2
    Env <- Mishaps
SPECIFICATION Spec
CHECK_DEADLOCK FALSE
SYMMETRY AlikeReasons
INVARIANTS TypeOK NoBlindEntry FileIsCurrent PendingBelongs
PROPERTIES StoredTermsLast BackoffHolds
