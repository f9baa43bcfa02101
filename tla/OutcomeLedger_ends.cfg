CONSTANTS
    a = a
    b = b
    c = c
    Attempts = {a, b, c}
    Stamps = {s}
    NoId = none
    NonUsage = {c}
    Reports <- MCReports
    Cap = 3
    RegCap = 2
    RegDrop = 1
    MaxReports = 3
SPECIFICATION LedgerSpec
SYMMETRY MCSymmetry
INVARIANTS LedgerTypeOK OneEnd
