SPECIFICATION Spec
CONSTANTS
    PRs = {p1, p2}
    AdrFiles <- ThreeFiles
    Templates <- OneTemplate
    CodeFiles <- TwoCodes
    IdOf <- Numbers
    Block <- BlockNames
    Row <- RowNames
    Total = "total_records"
    Updated = "last_updated"
    Docs <- FewDocs
    Days = {d1, d2}
    Absent = Absent
    Weight <- Weights
    Mentions <- Keywords
    RuleWeight <- RuleWeights
    Minimum = 20
    Mains <- Start
    MaxChanges = 1
SYMMETRY Symmetry
INVARIANTS
    TypeOK
    GateHolds
    MainVerifies
    IndexCurrent
    TotalCurrent
CHECK_DEADLOCK FALSE
