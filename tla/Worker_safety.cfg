\* Reactor and connection safety, two clients, symmetric.
CONSTANTS
    c1 = c1
    c2 = c2
    L = L
    Clients <- MCClients
    Listen <- L
    Requests <- MCRequests
    RespSizes = {1, 2}
    SndCap = 1
    Timeout = 2
    MaxRequests = 1
    Faults = TRUE
SYMMETRY MCSymmetry
SPECIFICATION Spec
INVARIANTS
    TypeOK
    RegistrationsLive
    
    NumConnsCounts
