SPECIFICATION Spec
CONSTANTS
    f1 = f1
    f2 = f2
    NoFile = noFile
    Files <- BothFiles
    Texts <- Pairs
    FirstModes <- AllButOne
    MaxEdits = 1
SYMMETRY FileSymmetry
INVARIANTS
    TypeOK
    FixablesGone
    OthersKept
    ReportCurrent
CHECK_DEADLOCK FALSE
