SPECIFICATION MCFairSpec
CONSTANTS
    Reqs = {r1, r2}
    Conns = {c1}
    Keys = {k1}
    MaxPerHost = 1
    MaxTotal = 1
    Procs = {p1, p2, p3}
    Fds = {fd1}
    Socks = {s1}
    BufLen = 1
    EarlyShare = FALSE
    None = None
PROPERTIES
    
    CloseCompletes
    SendNotStalledByRecv
CHECK_DEADLOCK FALSE
