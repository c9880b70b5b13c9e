SPECIFICATION GateSpec
CONSTANTS
    Services = {s1, s2}
    NoService = NoService
    Interval = 1
    ProbeTime = 1
    Timeout = 4
    Latency = 0
    Triggered = {}
    MaxClock = 10
SYMMETRY Symmetry
INVARIANTS
    EvictionNeedsMisses
    DetectionBound
PROPERTY RefusalIsLate
