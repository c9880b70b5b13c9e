SPECIFICATION LifecycleFairSpec
CONSTANTS
    Threads = {t1, t2, t3, t4}
    Overlap = FALSE
INVARIANTS
    NoTerminate
    MeansWhatItSays
PROPERTIES
    StopReturns
    KeepsScanning
