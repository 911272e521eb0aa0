SPECIFICATION Spec
CONSTANTS
    Servers = {"srvA", "srvB"}
    Routers = {"srvA"}
    Commands = {"DHCP"}
    Local = {}
    RetryCnt = 2
    CONFIG_BOOTP_ID_CACHE_SIZE = 2
    BOOTP_TIMEOUT_MIN = 1
    BOOTP_TIMEOUT_MAX = 2
    TIMEOUT_MS = 6
    REQUEST_TIMEOUT = 2
    ARP_TIMEOUT = 1
    ARP_TIMEOUT_COUNT = 2
    START_AGAIN = 1
    PING_TIMEOUT = 2
    MaxCommands = 1
INVARIANT TypeOK
INVARIANT IdCacheSound
INVARIANT KeepsSending
INVARIANT GivesUpInTime
INVARIANT RouterFromLessor
INVARIANT TimedByListener
CHECK_DEADLOCK FALSE
