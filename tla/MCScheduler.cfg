\* An edit of two listings of one device and one of another, a batch on kept
\* sessions, a dry run and a configuration read; two workers, one retry.
SPECIFICATION Spec
CONSTANTS
    t1 = t1
    t2 = t2
    t3 = t3
    t4 = t4
    d1 = d1
    d2 = d2
    Target = {t1, t2, t3, t4}
    Device = {d1, d2}
    DeviceOf <- Listings
    KeyOf <- Listings
    Line <- Lines
    Specs <- Runs
    Workers = 2
    Retries = 1
    RateLimit = 4
    SkipUnreachable = TRUE
    OpenFaults <- OpenEndings
    OpFaults <- Endings
    CommitFaults <- CommitEndings
    LateClosing = {t3}
INVARIANTS TypeOK ReservedByOne CommitTold CooldownDecidedUncut NeverHalfway OkIsComplete
PROPERTIES StopsAtInterrupt LeftAlone PromiseKept
