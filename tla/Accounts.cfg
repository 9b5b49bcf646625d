\* One person, two requests at a time.
SPECIFICATION Spec
CONSTANTS
    ann = ann
    r1 = r1
    r2 = r2
    Users <- OneUser
    Requests <- TwoRequests
    MaxRequests = 6
    MaxCuts = 1
    MaxLapses = 1
SYMMETRY AnyRequest
CHECK_DEADLOCK FALSE
INVARIANTS
    RevokedOnReset
    TokenSpentOnce
PROPERTIES
    EndedForGood
