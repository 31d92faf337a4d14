SPECIFICATION Spec
CONSTANTS
    n1 = n1
    c1 = c1
    o1 = o1
    NetSession = {n1}
    CliSession = {c1, o1}
    MuxSession = {o1}
    Session = {n1, c1, o1}
    KeyLogin = TRUE
    Together <- Pairs
    Other = other
    NoOne = none
    Lines = 2
INVARIANTS
    TypeOK
    NothingLeftBehind
PROPERTIES
    OnlyOwnLines
    NeverRolledBack
    InStep
    PromiseKept
CHECK_DEADLOCK FALSE
