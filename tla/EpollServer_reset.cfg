SPECIFICATION Spec
CONSTANTS
    Threads = {t1}
    Fds = {fd0, fd3, fd4, fd5, fd6, fd7}
    Stdin = fd0
    NoFd = NoFd
    NoThread = NoThread
    MaxConnections = 2
    MaxBacklog = 1
    MaxElsewhere = 1
    WordSize = 8
    Resets = TRUE
    Timeouts = FALSE
INVARIANTS CountMatches DescriptorsAccounted ClientsTimed
SYMMETRY Symmetry
