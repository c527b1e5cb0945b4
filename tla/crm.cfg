SPECIFICATION Spec
CONSTANTS
    p1 = p1
    p2 = p2
    Procs = {p1, p2}
    NoCall = NoCall
    Serves <- MCServes
    CustomerIds = {c1, c2}
    DealIds = {d1}
    NoDeal = NoDeal
    Emails = {e1}
    NoEmail = NoEmail
    Stages = {"new", "won"}
    NRules = 3
    Matches <- MCMatches
    WantsCustomer = {1, 2}
    MaxEvents = 2
SYMMETRY Symmetry
INVARIANTS SharedOnlyByRace AnnouncedOnce EventsReplay
CHECK_DEADLOCK FALSE
