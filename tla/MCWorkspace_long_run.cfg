SPECIFICATION Spec
CONSTANTS
    r1 = r1
    r2 = r2
    m1 = m1
    m2 = m2
    f1 = f1
    f2 = f2
    g1 = g1
    t1 = t1
    t2 = t2
    Runs = {r1, r2}
    Modules = {m1, m2}
    SourceOf <- MCSourceOf
    Stamps = {t1, t2}
    NoStamp = NoStamp
    UniqueStamps = TRUE
    Threshold = 1
    MaxTime = 2
    MaxFaults = 1
SYMMETRY MCSymmetry
INVARIANTS
    OnlyJunkIsSwept
CHECK_DEADLOCK FALSE
