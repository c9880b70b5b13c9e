SPECIFICATION FairSpec
CONSTANTS
    c1 = c1
    c2 = c2
    k1 = k1
    k2 = k2
    Clients = {c1, c2}
    Keys = {k1, k2}
    Values = {v1}
    Ttls <- Ttl
    Batches <- TwoKeys
    Absent = Absent
    MaxClock = 2
    MaxOps = 3
INVARIANTS
    ReaderEntryStays
    LookupsCounted
PROPERTIES
    ImplementsTtlMap
    ExpiredIsPurged
    DestructorReturns
CHECK_DEADLOCK FALSE
