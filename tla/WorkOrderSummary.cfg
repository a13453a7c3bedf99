SPECIFICATION Spec
CONSTANTS
    N = 3
    w1 = w1
    w2 = w2
    r1 = r1
    scheduler = scheduler
    free = free
    absent = absent
    badId = badId
    Writers <- OneWriter
    Readers <- OneReader
    Scheduler <- scheduler
    Free <- free
    Absent <- absent
    BadId <- badId
    Seed <- SeedMixed
    GeneratedIds <- AnyId
    MaxRequests = 2
    MaxGenerated = 1
CHECK_DEADLOCK FALSE
INVARIANTS
    SummaryMissesNoOrder
    TotalsCoverStages
