SPECIFICATION Spec
CONSTANTS
    Conns = {c1}
    MaxSent = 1
SYMMETRY Symmetry
INVARIANTS
    CloseIsIdempotent
CHECK_DEADLOCK FALSE
