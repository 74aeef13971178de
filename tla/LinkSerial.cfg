SPECIFICATION Spec
CONSTANTS
    MaxConnNum = 2
    MaxNotInform = 1
    MaxThreads = 2
    MaxFds = 2
    MaxSend = 2
    Ips <- MCIps
    PrintfCancels = FALSE
    SerialArrivals = TRUE
INVARIANTS
    OneLinkPerAddress
    ServedIsRegistered
    
PROPERTY
    ImplementsRegistry
CHECK_DEADLOCK FALSE
