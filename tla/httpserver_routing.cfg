SPECIFICATION Spec
CONSTANTS
    Conns = {c1, c2}
    MaxSent = 3
SYMMETRY Symmetry
INVARIANTS
    ReplayComplete
    NoEarlyDataLost
    
PROPERTIES
    HijackIsFinal
CHECK_DEADLOCK FALSE
