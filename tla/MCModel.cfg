SPECIFICATION Spec
CONSTANTS
    w1 = w1  w2 = w2  c1 = c1  c2 = c2  c3 = c3
    Worker = {w1, w2}
    Call = {c1, c2, c3}
    Home <- Calls3
    FailureThreshold = 2
    HalfOpenNeeded = 2
    MaxOutages = 2
    MaxFaults = 1
PROPERTIES Recovers OutageOpens
