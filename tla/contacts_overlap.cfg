SPECIFICATION FairSpec
CONSTANTS
    p1 = p1
    p2 = p2
    NoProc = NoProc
    Procs = {p1, p2}
    MaxContacts = 4
    Existing = 2
    Calls = {"create", "update"}
    Flags = {"unset", "true", "false"}
INVARIANTS OnePrimaryBeforeCreates PrimariesBounded
PROPERTIES PrimaryLostOnRequest CallsEnd
CHECK_DEADLOCK FALSE
