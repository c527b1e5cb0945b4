SPECIFICATION Spec
CONSTANTS
    NoCall = NoCall
    TaskIds = {k1, k2}
    Procs = {p1, p2}
    MaxEntries = 4
    MaxFaults = 1
SYMMETRY Symmetry
CONSTRAINT Apart
INVARIANT AuditExplains
PROPERTY KeepsLifecycle
CHECK_DEADLOCK FALSE
