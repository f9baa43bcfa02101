SPECIFICATION FairSpec
CONSTANTS
    MaxPids = 4
    MaxFailures = 2
    MaxRestarts = 2
    MaxFaults = 2
    MaxRequests = 1
    UnlinkOpen = TRUE
    Paces = {FALSE, TRUE}
INVARIANT TypeOK
INVARIANT Accounted
INVARIANT SoleServerHoldsLock
 
