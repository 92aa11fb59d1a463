SPECIFICATION Spec
CONSTANTS
    Reqs = {r1, r2}
    Conns = {c1, c2}
    Keys = {k1, k2}
    MaxPerHost = 1
    MaxTotal = 1
    None = None
SYMMETRY Symmetry
INVARIANTS
    OnePlace
    NoConnectionLost
    
    SentOnceUnlessReplayable
PROPERTIES
    NoResendAfterAnswer
    PoolImplemented
CHECK_DEADLOCK FALSE
