SPECIFICATION FairSpec
CONSTANTS
    Conns = {c1, c2}
    MaxSent = 1
PROPERTIES
    DispatchEnds
    ServeEndsWithListener
    ServeReportsShutdown
CHECK_DEADLOCK FALSE
