SPECIFICATION Spec
CONSTANTS
    Threads = {t1, t2}
    Files = {f1}
    Unreadable = {f1}
    MaxSize = 2
    Budget = 3
    MaxEdits = 3
    NoThread = NoThread
    NoFile = NoFile
SYMMETRY Symmetry
INVARIANTS TypeOK HolderLoads LedgerBalances CacheBounded ServedFresh
