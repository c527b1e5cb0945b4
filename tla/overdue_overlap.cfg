SPECIFICATION Spec
CONSTANTS
    Tasks = {k1, k2}
    NoTask = NoTask
    Ticks = {t1, t2}
    NoTick = NoTick
    NRules = 3
    Matching <- MixedMatch
    NoRecipient <- OneUnresolved
    TaskTake = 2
    MaxEvents = 3
    MaxFaults = 1
SYMMETRY Symmetry
INVARIANTS FlagMeansHandled RulesInOrder UnresolvedBlocks
CHECK_DEADLOCK FALSE
