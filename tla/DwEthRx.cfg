CONSTANTS
    CONFIG_RX_DESCR_NUM = 3
    CONFIG_TX_DESCR_NUM = 1
    RX_BATCH = 2
    Lengths = {{1}}
    EmptyFrames = {3}
    NetRetry = FALSE
    MaxArrivals = 9
    Unending = FALSE
    MaxSends = 0
    MaxStarts = 3
SPECIFICATION FairSpec
INVARIANTS TypeOK RecvSeesFrames PacketStays DropsOnlyWhenFull
PROPERTIES DeliversInOrder FrameIsTaken
CHECK_DEADLOCK FALSE
