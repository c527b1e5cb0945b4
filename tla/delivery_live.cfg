SPECIFICATION FairSpec
CONSTANTS
    Messages = {m1, m2}
    NoMsg = NoMsg
    RetryTicks = {t1}
    SimTicks = {s1}
    Mode = "live"
    RETRY_LIMIT = 3
    RetryTake = 1
    SimTake = 1
    MaxFaults = 3
INVARIANTS StampsMatchStatus CallBudget CopyBudget OrphanOnlyByFault
PROPERTIES BackoffRespected ImplementsOutbox EventuallySettled
CHECK_DEADLOCK FALSE
