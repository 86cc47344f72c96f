SPECIFICATION FairSpec
CONSTANTS
    w1 = w1  w2 = w2  a1 = a1  a2 = a2  b1 = b1  i1 = i1  i2 = i2
    h1 = h1  h1upper = h1upper
    Slot = {a1, a2, b1}
    Worker = {w1, w2}
    WorkerOf <- PlaceOf
    Session = {i1, i2}
    Target = {h1}
    Host <- Lower
    Window = 3
    SessionPerWindow = 1
    TargetPerWindow = 1
    SessionInFlight = 1
    TargetInFlight = 2
    ClaimTTL = 2
    Cooldown = 1
    MaxHold = 1
INVARIANTS EffectExclusive LeaseExact WindowCap
PROPERTIES DisturbedParks NeverWedged
