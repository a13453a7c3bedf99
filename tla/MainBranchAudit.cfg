SPECIFICATION Spec
CONSTANTS
    OnPush <- Both
    MaxMerges = 2
    MaxNightly = 0
    MaxCode = 1
    LoopAttempts = 5
    MaxFaults = 0
    MaySkipCi = FALSE
INVARIANTS
    AuditCurrent
\* Every job ends.
CHECK_DEADLOCK FALSE
