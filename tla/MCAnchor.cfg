SPECIFICATION AnchorSpec
CONSTANTS
    w1 = w1  w2 = w2  d1 = d1  d2 = d2
    Writer = {w1, w2}
    Decision = {d1, d2}
    Hash <- Digest
    Genesis <- NoDigest
    MaxRetries = 1
    MaxAppends = 3
    MaxFaults = 1
    Window = 2
    MaxAnchors = 2
    MaxLosses = 2
INVARIANTS VerdictIsTrue
PROPERTIES LossIsReported
CHECK_DEADLOCK FALSE
