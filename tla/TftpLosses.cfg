\* A timely network that loses two packets, wherever they are.
SPECIFICATION TimelySpec
CONSTANTS
    TFTP_SEQUENCE_SIZE = 3
    TFTP_BLOCK_SIZE = 1
    tftp_block_size_option = 2
    tftp_timeout_count_max = 2
    RetryCnt = 0
    FileSize = 5
    Replies = {"DATA", "OACK", "OACK_blksize"}
    Reorder = FALSE
    PortReuse = FALSE
    MaxTid = 3
    Cap = 2
    MaxLosses = 2
CHECK_DEADLOCK FALSE
PROPERTY LossesAreRepaired
