SPECIFICATION FairSpec
CONSTANTS
    p1 = p1
    p2 = p2
    svc1 = svc1
    svc2 = svc2
    m1 = m1
    m2 = m2
    Providers = {p1, p2}
    Services = {svc1, svc2}
    Methods = {m1, m2}
    ServiceOf <- OfService
    PathsOf <- SamePaths
    NoSession = NoSession
    MaxRuns <- OneRestart
    Impatient = TRUE
    Partition = TRUE
    Lossy = TRUE
INVARIANT ServingIsPublished
PROPERTIES
    ExitMeansRace
    StaleNodeGoes
CHECK_DEADLOCK FALSE
