SPECIFICATION FairSpec
CONSTANTS
    Threads = {t1, t2}
    NoThread = NoThread
    Clients = {c1, c2}
    Slow = {c2}
    PipeSize = 2
    MaxMessages = 3
INVARIANTS DeliveredInOrder ReachesReadersClients
PROPERTY PipeDrains
