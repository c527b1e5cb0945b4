SPECIFICATION Spec
CONSTANTS
    NoCall = NoCall
    TaskIds = {k1}
    Procs = {p1, p2}
    MaxEntries = 4
    MaxFaults = 0
CHECK_DEADLOCK FALSE
PROPERTY LegalTransitions
