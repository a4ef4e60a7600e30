\* Progress of the reactor with clients that finish the requests they begin.
CONSTANTS
    c1 = c1
    c2 = c2
    L = L
    Clients <- MCClients
    Listen <- L
    Requests <- MCLiveRequests
    RespSizes = {2}
    SndCap = 1
    Timeout = 2
    MaxRequests = 1
    Faults = FALSE
SPECIFICATION FairSpec
PROPERTIES
    TimerEventuallyHandled
    ConnectionReleased
