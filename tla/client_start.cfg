SPECIFICATION StartFairSpec
CONSTANTS
    Threads = {t1, t2}
    MaxCalls = 2
    Nobody = Nobody
    Outage = TRUE
INVARIANT NoLostWakeup
PROPERTY LookupReturns
CHECK_DEADLOCK FALSE
