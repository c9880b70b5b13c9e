SPECIFICATION Spec
CONSTANTS
    Services = {s1, s2}
    NoService = NoService
    Interval = 2
    ProbeTime = 1
    Timeout = 6
    Latency = 0
    Triggered = {s1}
    MaxClock = 11
INVARIANTS
    TypeOK
    IteratorValid
    MissesBound
PROPERTY LastHeartbeatMonotone
