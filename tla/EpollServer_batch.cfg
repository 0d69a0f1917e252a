SPECIFICATION FairSpec
CONSTANTS
    Threads = {t1}
    Fds = {fd0, fd3, fd4, fd5}
    Stdin = fd0
    NoFd = NoFd
    NoThread = NoThread
    MaxConnections = 2
    MaxBacklog = 2
    MaxElsewhere = 1
    WordSize = 8
    Resets = FALSE
    Timeouts = TRUE
PROPERTIES PendingServed AcceptProgress
