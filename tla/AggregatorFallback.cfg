SPECIFICATION Spec
CONSTANTS
    c1 = c1
    Generator = generator
    Missing = missing
    NoEntry = noEntry
    Clients <- OneClient
    Recipients <- Configured
    TTL = 1
    MaxRun = 1
    MaxVersion = 1
    MaxTime = 0
CHECK_DEADLOCK FALSE
INVARIANT
    FallbacksAreIsolated
