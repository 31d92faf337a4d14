SPECIFICATION PairSpec
CONSTANTS
    o1 = o1
    o2 = o2
    p1 = p1
    p2 = p2
    k1 = k1
    k2 = k2
    NoKey = NoKey
    Open = {o1, o2}
    Process = {p1, p2}
    Kinds <- KindsOf
    Key = {k1, k2}
    Elsewhere = {p1}
    MaxTurn = 4
    MaxRevoked = 1
SYMMETRY Symmetric
CHECK_DEADLOCK FALSE
INVARIANT RevokedAlwaysRefused
