SPECIFICATION Spec
CONSTANTS
    t1 = t1
    t2 = t2
    t3 = t3
    t4 = t4
    i1 = i1
    i2 = i2
    i3 = i3
    Turns = {t1, t2, t3, t4}
    Ids = {i1, i2, i3}
    NoId = NoId
    MaxThreads = 2
    Ttl = 1
    SweepInterval = 1
    MaxChainDepth = 2
    MaxNow = 2
SYMMETRY MCSymmetry
INVARIANT TypeOK
 
PROPERTY EvictsOnlyForRoom
