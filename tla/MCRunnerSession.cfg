SPECIFICATION FairSpec
CONSTANTS
    MaxMisbound = 2
    ClearReadings = 2
    ClearRounds = 3
    PlanSteps = 3
    Cap = 1
    MaxVotes = 2
    MaxFaults = 2
INVARIANTS ActsOnRecordedVote AnsweredNotExpired DoneIsConfirmed LeavesItsRecord OnePagePerRow PlanAccounts
PROPERTIES SessionEnds UnansweredEscalates
CHECK_DEADLOCK FALSE
