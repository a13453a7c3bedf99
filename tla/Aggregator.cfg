SPECIFICATION FairSpec
CONSTANTS
    c1 = c1
    Generator = generator
    Missing = missing
    NoEntry = noEntry
    Clients <- OneClient
    Recipients <- UserOrder
    TTL = 1
    MaxRun = 1
    MaxVersion = 1
    MaxTime = 3
CHECK_DEADLOCK FALSE
INVARIANTS
    TypeOK
    BoundedStaleness
    OutagesForgotten
    RefreshCarriesUpdate
PROPERTY
    RequestsAnswered
