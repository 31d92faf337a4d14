CONSTANTS
    b1 = b1
    b2 = b2
    b3 = b3
    k1 = k1
    k2 = k2
    Borrower = {b1, b2}
    Key = {k1}
    KeyOf <- TwoKeys
    Session = {1, 2}
    NoOne = NoOne
    Pool = TRUE
    Keep = 1
    Commands = 2
    InTask = FALSE
SPECIFICATION Spec
INVARIANTS
    DoubtTornDown
