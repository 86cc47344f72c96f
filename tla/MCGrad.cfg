SPECIFICATION FairSpec
CONSTANTS
    w1 = w1  w2 = w2  t1 = t1  t2 = t2
    Worker = {w1, w2}
    Thread = {t1, t2}
    WorkerOf <- OneEach
    Ref = {r1, r2}
    Legacy = FALSE
    Embedded = FALSE
    TierForbidsAuto = FALSE
    PromoteThreshold = 2
    NoticeThreshold = 2
    MaxRetries = 1
    MaxRecords = 4
    MaxFaults = 1
INVARIANTS ServedWasGranted
PROPERTIES PromotionEarned IsSerialLadder StalenessEnds
CHECK_DEADLOCK FALSE
