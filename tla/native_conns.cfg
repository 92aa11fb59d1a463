SPECIFICATION FairSpec
CONSTANTS
    Callers = {g1, g2}
    Custom = TRUE
    MaxOps = 2
    MaxStream = 2
    MaxLen = 1
    MaxOver = 1
    Cases <- MCCases
    Units = 3
    EncInitial = 2
    EncMax = 8
    MaxBuf = 2
    MaxMessage = 2
    Users = {u1, u2}
    MbUnits = 2
    MbPlain = 2
    MbMessage = 1
    MbArrivals = 3
    MbWritten = 2
INVARIANTS
    SemaphoreLive
    
    NoSilentLoss
    ScBuffers
    
    ScTrustDecided
PROPERTIES
    
    NwCallsEnd
    NwAllReleased
CHECK_DEADLOCK FALSE
