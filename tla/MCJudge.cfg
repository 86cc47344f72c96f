SPECIFICATION Spec
CONSTANTS
    liveness = liveness  frontier = frontier  sibling = sibling
    Monitor = {liveness, frontier, sibling}
    Rearmer = {liveness, sibling}
    FailureThreshold = 1
    HalfOpenNeeded = 1
    MaxOutages = 2
    MaxFaults = 1
INVARIANTS OnePagePerOpening
PROPERTIES DeathHalts LifeRearms
