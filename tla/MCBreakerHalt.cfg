SPECIFICATION Spec
CONSTANTS
    w1 = w1  w2 = w2  t1 = t1  t2 = t2  t3 = t3
    Worker = {w1, w2}
    Task = {t1, t2, t3}
    Home <- Home3
    FailureThreshold = 1
    HalfOpenNeeded = 1
    MaxRuns = 3
    MaxResumes = 2
    MaxFaults = 1
INVARIANTS DeviationHalts
