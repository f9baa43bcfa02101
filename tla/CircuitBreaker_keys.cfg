SPECIFICATION FairSpec
CONSTANTS
    Conns <- MCTwoConns
    Models = {m1}
    RoundRobin = FALSE
    Attempts = {a1, a2}
    Thresholds <- MCThresholds
    RecoveryTimeout = 1
    Resets <- MCResets
    MaxCooldown = 2
    MaxFailures = 2
INVARIANTS
    TypeOK
    StreakMatchesState
    DimHasTrippedKey
PROPERTIES
    
    
    NoKeyIsStarved
