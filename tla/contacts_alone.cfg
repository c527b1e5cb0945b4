SPECIFICATION Spec
CONSTANTS
    p1 = p1
    p2 = p2
    NoProc = NoProc
    Procs = {p1, p2}
    MaxContacts = 4
    Existing = 0
    Calls = {"create", "update", "delete"}
    Flags = {"unset", "true", "false"}
CONSTRAINT Alone
INVARIANT AtMostOnePrimary
PROPERTY OldestPromoted
CHECK_DEADLOCK FALSE
