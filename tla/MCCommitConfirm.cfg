SPECIFICATION FairSpec
CONSTANTS
    HoldRechecks = 2
    ResolveAttempts = 2
    MaxFaults = 3
INVARIANTS EffectIsGuarded AbortedNotCompleted ResolutionRecorded OneCredit RefireOnlyAfterLoss
PROPERTIES WindowResolves DeviationAnswered
CHECK_DEADLOCK FALSE
