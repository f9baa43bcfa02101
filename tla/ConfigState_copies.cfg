SPECIFICATION Spec
CONSTANTS
    p = p
    q = q
    a = a
    b = b
    c = c
    r1 = r1
    r2 = r2
    None = None
    Providers = {p, q}
    Conns = {a, b, c}
    provider <- MCprovider
    OAuth = a
    InitRows = {a}
    Leaves = {l}
    Requests = {r1}
    Tabs = {t1}
    Jobs = {j1}
    AutoDisable = TRUE
    DiskMayFail = TRUE
    MaxCommits = 2
    MaxTokens = 2
PROPERTY ProvidersKept
 
 
