SPECIFICATION Spec
CONSTANTS
    p1 = p1
    p2 = p2
    t1 = t1
    f1 = f1
    f2 = f2
    f3 = f3
    NoFile = NoFile
    Process = {p1, p2}
    Target = {t1}
    File = {f1, f2, f3}
SYMMETRY Symmetric
CHECK_DEADLOCK FALSE
INVARIANTS
    TypeOK
    RunTraced
    EntriesAccounted
PROPERTIES
    StoreComplete
