SPECIFICATION FairSpec
CONSTANTS
    t1 = t1
    t2 = t2
    w = w
    h1 = h1
    h2 = h2
    m1 = m1
    m2 = m2
    Threads <- AllThreads
    Probers <- Worker
    Channels <- AllChannels
    ChannelsOf <- OwnChannels
    Methods = {m1, m2}
    MethodsOf <- Services
    Fds = {3, 4}
    MaxCalls <- CallBounds
    NoConn = NoConn
    Unchecked = {m2}
    Faulty = {t1}
INVARIANTS
    NoCrossTalk
    OwnConnection
    KeptCallFails
    LeakOnlyOnError
PROPERTIES
    NoForeignClose
    CallsReturn
CHECK_DEADLOCK FALSE
