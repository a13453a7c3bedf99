SPECIFICATION Spec
CONSTANTS
    OnPush <- BumpOnly
    MaxMerges = 3
    MaxNightly = 1
    MaxCode = 0
    LoopAttempts = 3
    MaxFaults = 1
    MaySkipCi = TRUE
INVARIANTS
    TypeOK
    AttemptsAccountedFor
PROPERTIES
    VersionsConsecutive
\* Every job ends.
CHECK_DEADLOCK FALSE
