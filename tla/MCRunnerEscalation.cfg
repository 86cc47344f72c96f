SPECIFICATION FairSpec
CONSTANTS
    MaxMisbound = 2
    ClearReadings = 2
    ClearRounds = 3
    PlanSteps = 3
    Cap = 1
    MaxVotes = 2
    MaxFaults = 2
PROPERTIES DroppedConverges
CHECK_DEADLOCK FALSE
