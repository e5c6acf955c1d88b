CONSTANTS
    stopLoss = stopLoss
    takeProfit = takeProfit
    None = None
    Reasons <- TwoReasons
    OrderQty = 2
    MaxOrders = 2
    MaxStops = 2
    Env <- AvgDiffers
SPECIFICATION Spec
CHECK_DEADLOCK FALSE
PROPERTY RestoresHoldings
