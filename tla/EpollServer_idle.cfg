SPECIFICATION Spec
CONSTANTS
    Threads = {t1, t2}
    Fds = {fd0, fd3, fd4, fd5}
    Stdin = fd0
    NoFd = NoFd
    NoThread = NoThread
    MaxConnections = 1
    MaxBacklog = 1
    MaxElsewhere = 1
    WordSize = 8
    Resets = FALSE
    Timeouts = TRUE
SYMMETRY Symmetry
INVARIANTS TypeOK SomeoneListens DescriptorsAccounted SessionsMatch ListenerMatches
