SPECIFICATION SqlFairSpec
CONSTANTS
    Queries = {q1, q2}
    MaxUses = 2
INVARIANTS
    WatcherJoined
    NoStrayInterrupt
PROPERTIES
    SqlCallsEnd
CHECK_DEADLOCK FALSE
