SPECIFICATION Spec
CONSTANTS
    NRows = 4
    Tables <- MCTables
    Limits = {1, 2}
    MaxRank = 1
    MaxChanges = 3
INVARIANTS TypeOK MissedBounded RepeatsBounded
CHECK_DEADLOCK FALSE
