SPECIFICATION FairSpec
CONSTANTS
    p = p
    q = q
    a = a
    b = b
    c = c
    r1 = r1
    r2 = r2
    None = None
    Providers = {p, q}
    Conns = {a, b, c}
    provider <- MCprovider
    OAuth = a
    InitRows = {a, c}
    Leaves = {l}
    Requests = {r1, r2}
    Tabs = {}
    Jobs = {}
    AutoDisable = TRUE
    DiskMayFail = TRUE
    MaxCommits = 2
    MaxTokens = 2
INVARIANT TypeOK
INVARIANT RefreshIsCurrent
PROPERTY WaitersServed
