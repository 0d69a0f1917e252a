SPECIFICATION Spec
CONSTANTS
    Threads = {t1, t2}
    Clients = {c1, c2}
    Addresses = {a1}
    AddressOf <- OneAddress
    NoKey = NoKey
    Lifetime = 1
    Minimum = 2
    MaxTime = 2
    MaxCaptchas = 1
    MaxSessions = 2
SYMMETRY Symmetry
INVARIANTS TypeOK LimitBounded CaptchaBounded
