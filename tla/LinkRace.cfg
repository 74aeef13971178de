SPECIFICATION Spec
CONSTANTS
    MaxConnNum = 2
    MaxNotInform = 1
    MaxThreads = 3
    MaxFds = 2
    MaxSend = 1
    Ips = {10}
    PrintfCancels = TRUE
    SerialArrivals = FALSE
INVARIANTS
    TypeOK
    NoWildCancel
    TableSound
CHECK_DEADLOCK FALSE
