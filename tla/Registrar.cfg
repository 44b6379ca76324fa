SPECIFICATION Spec
CONSTANTS
    f1 = f1
    f2 = f2
    a = a
    b = b
    bad = bad
    c1 = c1
    c2 = c2
    c3 = c3
    c4 = c4
    None = None
    Unsettled = Unsettled
    Ids = {f1, f2}
    Infos = {a, b, bad}
    ValidInfos = {a, b}
    Calls = {c1, c2, c3, c4}
INVARIANTS
    StoreBackedByDb
    AckedIsDurable
    RacedIsNotLost
SYMMETRY Interchangeable
