SPECIFICATION Spec
CONSTANTS
    Reqs = {r1, r2}
    Conns = {c1}
    Keys = {k1}
    MaxPerHost = 1
    MaxTotal = 1
    None = None
SYMMETRY Symmetry
PROPERTIES
    CancelIsOwn
CHECK_DEADLOCK FALSE
