SPECIFICATION FairSpec
CONSTANTS
    N = 2
    w1 = w1
    w2 = w2
    r1 = r1
    scheduler = scheduler
    free = free
    absent = absent
    badId = badId
    Writers <- TwoWriters
    Readers <- None
    Scheduler <- scheduler
    Free <- free
    Absent <- absent
    BadId <- badId
    Seed <- SeedMixed
    GeneratedIds <- AnyId
    MaxRequests = 4
    MaxGenerated = 1
CHECK_DEADLOCK FALSE
INVARIANTS
    TypeOK
    TransitionsExclusive
PROPERTIES
    ImplementsPipeline
    QueueDrains
