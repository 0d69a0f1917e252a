SPECIFICATION Spec
CONSTANTS
    Threads = {t1}
    Fds = {fd0, fd3, fd4}
    Stdin = fd0
    NoFd = NoFd
    NoThread = NoThread
    MaxConnections = 1
    MaxBacklog = 1
    MaxElsewhere = 0
    WordSize = 8
    Resets = TRUE
    Timeouts = TRUE
SYMMETRY Symmetry
INVARIANT DisconnectedOnce
