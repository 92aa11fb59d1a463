SPECIFICATION Spec
CONSTANTS
    Procs = {p1, p2}
    Fds = {fd1}
    Socks = {s1}
    BufLen = 1
    EarlyShare = FALSE
    None = None
INVARIANTS
    SendWritesWholeBuffer
