CONSTANTS
    Callers <- TwoThreads
    Clients <- OneClient
    Api <- Theirs
    Life = 2
    Retries = 1
SPECIFICATION ApiSpec
CHECK_DEADLOCK FALSE
PROPERTY BalanceCallsReturn
