SPECIFICATION Spec
CONSTANTS
    w1 = w1  w2 = w2  w3 = w3  d1 = d1  d2 = d2
    Writer = {w1, w2, w3}
    Decision = {d1, d2}
    Hash <- Digest
    Genesis <- NoDigest
    MaxRetries = 1
    MaxAppends = 4
    MaxFaults = 1
INVARIANTS ChainVerifies AckedStays
PROPERTIES ContentionServed IsAppendLog
CHECK_DEADLOCK FALSE
