SPECIFICATION FairSpec
CONSTANTS
    Messages = {m1, m2}
    NoMsg = NoMsg
    RetryTicks = {t1, t2}
    SimTicks = {s1}
    Mode = "demo"
    RETRY_LIMIT = 1
    RetryTake = 2
    SimTake = 1
    MaxFaults = 4
INVARIANTS SentMeansAccepted RetryCountBound
PROPERTIES OutcomeRevisedLate EventuallyDelivered
CHECK_DEADLOCK FALSE
