SPECIFICATION Spec
CONSTANTS
    billing = billing
    o1 = o1
    Absent = absent
    NoCard = noCard
    NoCall = noCall
    Ids <- OneId
    Seed <- Pending
    Pages <- Billing
    Role <- Lists
    Calls = {1, 2}
    Fetches = {1, 2}
    MaxCreates = 2
    MaxFaults = 2
INVARIANTS
    TypeOK
    SuccessMeansMoved
PROPERTIES
    ButtonsFreed
    ShowsListing
CHECK_DEADLOCK FALSE
