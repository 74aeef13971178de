SPECIFICATION FairSpec
CONSTANTS
    MaxConnNum = 2
    MaxNotInform = 1
    MaxThreads = 2
    MaxFds = 2
    MaxSend = 1
    Ips <- MCIps
    PrintfCancels = FALSE
    SerialArrivals = TRUE
INVARIANT IndInv

    
CHECK_DEADLOCK FALSE
