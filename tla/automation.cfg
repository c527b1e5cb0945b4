SPECIFICATION Spec
CONSTANTS
    Undefined = undefined
    Null = null
    NaN = nan
    u = undefined
    o = null
    nan = nan
    Values <- MCValues
    NumberOf <- MCNumberOf
    LengthOf <- MCLengthOf
    Includes <- MCIncludes
    Envs <- MCEnvs
    Customers <- MCCustomers
    Contents <- MCContents
    Events <- MCEvents
    Patches <- MCPatches
    TestSends <- MCTestSends
    Admins = {a, b}
    NRules = 2
    NTemplates = 2
    NRequests = 1
    Keys = {k, l}
    None = None
    MaxChanges = 2
INVARIANTS TypeOK RecordsFollowRules SentByMode AddressFitsChannel RemovedStaysOff EvaluatorSound
CHECK_DEADLOCK FALSE
