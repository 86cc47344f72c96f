SPECIFICATION SafetySpec
CONSTANTS
    p1 = p1  p2 = p2  k1 = k1  k2 = k2
    Process = {p1}
    Runner = {p1}
    Halter = {p1}
    Proven = {p1}
    Killer = {k1}
    Target = {"Full-auto"}
    Configured = "Shadow"
    MaxClock = 4
    MaxFaults = 2
INVARIANT KillSurvivesRestart
CHECK_DEADLOCK FALSE
