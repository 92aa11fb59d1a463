SPECIFICATION Spec
CONSTANTS
    Procs = {p1, p2, p3}
    Fds = {fd1, fd2}
    Socks = {s1, s2, s3}
    BufLen = 2
    EarlyShare = FALSE
    None = None
SYMMETRY Symmetry
VIEW ControlView
INVARIANTS
    TableNamesOwnSocket
    CloseClosesOwnSocket
    TLSOperationSafe
    NoSessionLeak
    

    
