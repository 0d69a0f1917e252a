SPECIFICATION Spec
CONSTANTS
    Threads = {t1, t2}
    NoThread = NoThread
    Clients = {c1, c2}
    Slow = {}
    PipeSize = 2
    MaxMessages = 1
INVARIANT ReachesEveryClient
