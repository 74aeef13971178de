SPECIFICATION FairStopSpec
CONSTANTS
    MaxConnNum = 2
    MaxNotInform = 1
    MaxThreads = 2
    MaxFds = 2
    MaxSend = 0
    Ips <- MCIps
    PrintfCancels = FALSE
    SerialArrivals = TRUE
INVARIANTS
    StopTypeOK
    NamedLinksEnd

    
CHECK_DEADLOCK FALSE
