SPECIFICATION Spec
CONSTANTS
    Connections <- McConnections
    Garbage <- McGarbage
    MaxSessions = 2
    MaxCommands <- McCommands
    MaxShells = 2
    Players = {1}
    Handles <- McHandles
    MaxJoins = 2
    Nodes = {"n1", "n2", "n3"}
    Knows <- McKnows
    MaxCrashes = 1
    MaxData = 1
    Numbers = {5, 6}
    MaxConnections = 3
    Workers = {w1, w2}
    Tables = {"threads"}
    MaxAccounts = 2
    MaxRows = 2
    MaxMarked = 1
INVARIANTS ProgramsTypeOK SessionsKeptApart TablesAgree HandshakeFirst OwnersKept
PROPERTIES ClientReturns ShellReleased NodesHear
CHECK_DEADLOCK FALSE
