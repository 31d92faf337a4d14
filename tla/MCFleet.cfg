CONSTANTS
    b1 = b1
    b2 = b2
    k1 = k1
    u1 = u1
    u2 = u2
    User = {u1, u2}
    Borrower = {b1, b2}
    Key = {k1}
    KeyOf <- OneKey
    Session = {1}
    NoOne = NoOne
    Pool = TRUE
    Keep = 1
    Commands = 1
    InTask = TRUE
SPECIFICATION FleetSpec
INVARIANTS
    ClosedKeepsNothing
PROPERTIES
    BorrowEnds
CHECK_DEADLOCK FALSE
