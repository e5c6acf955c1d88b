CONSTANTS
    w1 = w1
    w2 = w2
    s1 = s1
    b1 = b1
    b2 = b2
    x1 = x1
    o1 = o1
    o2 = o2
    NoOrder = NoOrder
    NoKey = NoKey
    Qty = 2
    Workers <- OneWorker
    Symbols <- OneSymbol
    Keys <- OneBuy
    BuyKeys <- OneBuy
    Symbol <- SymbolOf
    Owner <- AllW1
    Orders <- TwoOrders
    Held <- HeldNone
    MaxCrashes = 0
    Env <- Unseen
SPECIFICATION Spec
CHECK_DEADLOCK FALSE
INVARIANT TimeoutCancels
