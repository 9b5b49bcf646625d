SPECIFICATION Spec
CONSTANTS
    s1 = s1
    s2 = s2
    c1 = c1
    c2 = c2
    r1 = r1
    r2 = r2
    none = none
    Sessions = {s1, s2}
    ContainerIds = {c1, c2}
    Slots = {r1, r2}
    NoSession = none
    MaxRequests = 3
    MaxMishaps = 1
SYMMETRY Interchangeable
INVARIANTS
    KillSparesSharedUndisturbed
    KillLeavesNothingBehind
    DestroyedStaysDown
CHECK_DEADLOCK FALSE
