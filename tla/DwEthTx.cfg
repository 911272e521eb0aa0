CONSTANTS
    CONFIG_RX_DESCR_NUM = 2
    CONFIG_TX_DESCR_NUM = 2
    RX_BATCH = 3
    Lengths = {{1,2}, {2,3}}
    EmptyFrames = {}
    NetRetry = TRUE
    MaxArrivals = 2
    Unending = TRUE
    MaxSends = 4
    MaxStarts = 2
SPECIFICATION FairSpec
INVARIANTS SendsInOrder RefusesOnlyWhenFull
PROPERTIES TakenIsSent EthRxReturns
CHECK_DEADLOCK FALSE
