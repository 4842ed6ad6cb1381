SPECIFICATION FairSpec
CONSTANTS
    InitialCash = 1000
    Prices = {50, 100, 150}
    Volatilities = {0, 1}
    BarTimes = {575, 630, 900, 955}
    Slippage = 2
    PerShare = 1
    PerOrder = 2
    SoftLimit = 7
    HardLimit = 12
    MaxLosses = 2
    Risk = 1
    StopDistance = 2
    MaxSize = 100
    MaxBars = 7
PROPERTIES LockIsTemporary
CHECK_DEADLOCK FALSE
