SPECIFICATION Spec
CONSTANTS
    t1 = t1
    t2 = t2
    Threads = {t1, t2}
    Programs <- MCPrograms
    Rounds = 2
    Faulty = TRUE
    LineMax = 12
    DataMax = 8
INVARIANTS
    OutcomeFollows
    SessionMeansLogin
    ProfileIsOwnOrEmpty
    EndIsExplained
    StartsAsConfigured
CHECK_DEADLOCK FALSE
