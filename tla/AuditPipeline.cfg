SPECIFICATION Spec
CONSTANTS
    RuleNames <- TwoRules
    Layouts <- AllLines
    MaxLines = 3
    Names <- AllNames
    Base <- BaseOf
    Within <- Parts
    Sha3 = {}
    Kinds = {TRUE}
    MaxGenerated = 1
    PostQuantum = {}
    Vulnerable = {"RSA-2048", "RSA"}
    CoveredBy <- OtherCovered
    Catalog <- TwoProfiles
    MaxListed = 1
    Sboms <- SmallSboms
    Upstreams <- OtherVouched
INVARIANTS
    TypeOK
    CallsReported
    NothingInvented
    RatingEarned
