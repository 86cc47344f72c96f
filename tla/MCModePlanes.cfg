SPECIFICATION Spec
CONSTANTS
    p1 = p1  p2 = p2  k1 = k1  k2 = k2
    Process = {p1, p2}
    Runner = {p1}
    Halter = {p1}
    Proven = {p1}
    Killer = {k1}
    Target = {"Full-auto"}
    Configured = "Semi-auto"
    MaxClock = 3
    MaxFaults = 1
INVARIANTS KillHolds AuditedBeforeEffect
PROPERTIES CacheConverges KillReachesStore
CHECK_DEADLOCK FALSE
