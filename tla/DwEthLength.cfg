CONSTANTS
    CONFIG_RX_DESCR_NUM = 1
    CONFIG_TX_DESCR_NUM = 2
    RX_BATCH = 2
    Lengths = {{1,2}, {2,3}}
    EmptyFrames = {}
    NetRetry = FALSE
    MaxArrivals = 1
    Unending = FALSE
    MaxSends = 4
    MaxStarts = 2
SPECIFICATION Spec
INVARIANT SendsTheBytesPassed
CHECK_DEADLOCK FALSE
