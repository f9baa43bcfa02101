SPECIFICATION FairSpec
CONSTANTS
    Leaves = {"m"}
    Types = {"timeout", "auth"}
    MultiKey = {}
    Attempts = {a1}
    Threshold = 2
    Cooldown <- MCTwoTypes
    SoftBan = 2
    LongBan = 3
    AutoDisable = {FALSE}
    DiskMayFail = TRUE
INVARIANTS
    TypeOK
    LadderConsistent
PROPERTIES
    TimedBansEnd
