SPECIFICATION Spec
CONSTANTS
    Names <- AllNames
    RuleNames <- RulesOnly
    Base <- BaseOf
    Within <- Parts
    Sha3 <- StartSha3
    Locations = {l1, l2}
    Kinds = {TRUE}
    MaxGenerated = 2
    MaxSites = 2
INVARIANTS
    TypeOK
    SitesCovered
    RepeatChangesNothing
