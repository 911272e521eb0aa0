\* An in-order network that loses and a server that repeats; block numbers wrap.
SPECIFICATION FairSpec
CONSTANTS
    TFTP_SEQUENCE_SIZE = 3
    TFTP_BLOCK_SIZE = 1
    tftp_block_size_option = 2
    tftp_timeout_count_max = 1
    RetryCnt = 2
    FileSize = 4
    Replies = {"DATA", "OACK", "OACK_blksize", "ERROR_fatal", "ERROR"}
    Reorder = FALSE
    PortReuse = FALSE
    MaxTid = 2
    Cap = 2
CHECK_DEADLOCK FALSE
INVARIANTS TypeOK CompleteImage AckedIsStored FirstBlockIsOne
PROPERTIES Returns ImplementsFileTransfer
