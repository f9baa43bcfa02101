CONSTANTS
    Accounts = {a, b}
    Positions <- MCPositions
    Sessions = {s, t, u}
    m = m
    Models = {m}
    Allowed <- MCAllowed
    Requests = {r1, r2}
    MaxSessions = 2
    Cycle = 2
    MaxSaves = 1
SPECIFICATION Spec
SYMMETRY MCSymmetry
INVARIANTS TypeOK TriesAreBounded
PROPERTIES PickIsBest BindingMovesForCause
