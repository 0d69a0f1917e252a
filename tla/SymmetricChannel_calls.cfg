SPECIFICATION FairSpec
CONSTANTS
    Requests = {r1, r2, r3}
    NoAnswer = NoAnswer
    MaxConns = 3
    MaxRestarts = 1
    Modulus = 2
INVARIANTS TypeOK TransactionsInStep
PROPERTIES RpcSpec CommunicateReturns
