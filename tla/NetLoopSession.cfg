SPECIFICATION FairSpec
CONSTANTS
    Servers = {"srvA"}
    Routers = {}
    Commands = {"DHCP", "TFTPGET", "PING"}
    Local = {"pinghost"}
    RetryCnt = 0
    CONFIG_BOOTP_ID_CACHE_SIZE = 4
    BOOTP_TIMEOUT_MIN = 1
    BOOTP_TIMEOUT_MAX = 1
    TIMEOUT_MS = 2
    REQUEST_TIMEOUT = 1
    ARP_TIMEOUT = 1
    ARP_TIMEOUT_COUNT = 3
    START_AGAIN = 1
    PING_TIMEOUT = 1
    MaxCommands = 3
INVARIANT KeepsSendingUnlessWaitLeft
INVARIANT ReleasesWhatWaits
INVARIANT OkMeansLoadedUnlessPinged
PROPERTY Returns
CHECK_DEADLOCK FALSE
