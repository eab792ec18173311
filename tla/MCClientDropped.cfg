SPECIFICATION BeatingSpec
CONSTANTS
    HEARTBEAT_TIMEOUT = 2
    HEARTBEAT_INTERVAL = 1
    WORD = 16
    SetAhead = {}
    SetBack = {}
    MaxBack = 0
    MaxStall = 1
    MaxServers = 1
    MaxId = 1
    MaxQueue = 1
PROPERTIES DroppedClientReturns
CHECK_DEADLOCK FALSE
