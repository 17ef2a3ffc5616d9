SPECIFICATION CCSpec
CONSTANTS
    N = 2
    Backends = {1, 2}
    MaxEvents = 1
    Heartbeat = 1
    Timeout = 1
    ConnectTimeout = 1
    Duration = 3
PROPERTY TimeoutIsReal
CHECK_DEADLOCK FALSE
