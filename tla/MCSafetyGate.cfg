SPECIFICATION Spec
CONSTANTS
    p1 = p1
    p2 = p2
    d1 = d1
    Process = {p1, p2}
    Device = {d1}
    RateLimit = 1
    CooldownSeconds = 2
    Window = 2
    HasFile = TRUE
    MaxTime = 3
    MaxLogins = 2
SYMMETRY Symmetric
INVARIANTS
    TypeOK
    RateBound
    CooldownDurable
PROPERTIES
    CooldownHonoured
    FailsClosed
    NeverInMemoryAlone
