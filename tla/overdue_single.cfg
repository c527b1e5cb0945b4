SPECIFICATION FairSpec
CONSTANTS
    Tasks = {k1, k2}
    NoTask = NoTask
    Ticks = {t1}
    NoTick = NoTick
    NRules = 2
    Matching <- AllMatch
    NoRecipient <- NoneUnresolved
    TaskTake = 1
    MaxEvents = 4
    MaxFaults = 2
INVARIANTS TypeOK OnceUnlessAborted
PROPERTIES FlagIsFinal EventuallyFlagged
CHECK_DEADLOCK FALSE
