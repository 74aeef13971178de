SPECIFICATION Spec
CONSTANTS
    MaxConnNum = 1
    MaxNotInform = 1
    MaxThreads = 2
    MaxFds = 2
    MaxSend = 2
    Ips = {10}
    PrintfCancels = FALSE
    SerialArrivals = TRUE
INVARIANT OwnFramesOnly
CHECK_DEADLOCK FALSE
