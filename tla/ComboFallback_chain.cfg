SPECIFICATION FairSpec
CONSTANTS
    a = a
    b = b
    p = p
    q = q
    Leaves = {a, b}
    Providers = {p, q}
    ProviderOf <- MCSameProvider
    Conns <- MCConns
    Base <- MCBase
    RetrySettings = {TRUE, FALSE}
    Lanes = {"stream", "json"}
    MaxDials = 7
    MaxRestarts = 1
    MaxChanges <- MCChanges
INVARIANT TypeOK
INVARIANT PassIsBounded
PROPERTY PassIsComplete
 
PROPERTY RequestEnds
