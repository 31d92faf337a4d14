\* A confirm of one device, interrupted while it is sent: recorded as skipped
\* and not audited.
SPECIFICATION Spec
CONSTANTS
    t1 = t1
    t2 = t2
    t3 = t3
    t4 = t4
    d1 = d1
    d2 = d2
    Target = {t1, t2, t3, t4}
    Device = {d1, d2}
    DeviceOf <- Listings
    KeyOf <- Listings
    Line <- Lines
    Specs <- Confirms
    Workers = 2
    Retries = 1
    RateLimit = 4
    SkipUnreachable = TRUE
    OpenFaults <- OpenEndings
    OpFaults <- Endings
    CommitFaults <- CommitEndings
    LateClosing = {t3}
INVARIANT CommitTold
