SPECIFICATION FairSpec
CONSTANTS
    t1 = t1
    t2 = t2
    t3 = t3
    r1 = r1
    r2 = r2
    r3 = r3
    None = None
    Threads <- MCThreads
    Registrations <- MCRegistrations
INVARIANTS
    NoCallAfterClear
PROPERTY
    ClearReturns
