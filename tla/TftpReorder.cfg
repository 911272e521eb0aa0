\* A network that loses, repeats and reorders; the file is short of a wrap.
SPECIFICATION Spec
CONSTANTS
    TFTP_SEQUENCE_SIZE = 4
    TFTP_BLOCK_SIZE = 1
    tftp_block_size_option = 2
    tftp_timeout_count_max = 1
    RetryCnt = 2
    FileSize = 2
    Replies = {"DATA", "OACK", "OACK_blksize", "ERROR"}
    Reorder = TRUE
    PortReuse = FALSE
    MaxTid = 2
    Cap = 2
CHECK_DEADLOCK FALSE
INVARIANTS StoredInPlace CompleteImage
