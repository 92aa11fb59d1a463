SPECIFICATION FairSpec
CONSTANTS
    Conns = {c1}
    MaxSent = 1
PROPERTIES
    ServeEndsWithShutdown
CHECK_DEADLOCK FALSE
