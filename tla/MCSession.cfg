\* Two clients, every kind of request, failing ports and a restart.
SPECIFICATION FairSpec
CONSTANTS
    Methods = {"virtio-serial", "isa-serial", "unix-listen"}
    Commands = {"call", "quiet", "noexec", "long", "deep"}
    READ_COUNT = 2
    MAX_TOKEN_SIZE = 3
    MAX_NESTING = 1
    Capacity = 2
    Faults = {"read", "write"}
    MaxSessions = 2
    MaxRequests = 4
    MaxKills = 1
CHECK_DEADLOCK FALSE
INVARIANTS TypeOK NothingStale
PROPERTIES SyncCompletes RequestAnswered
