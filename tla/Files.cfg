SPECIFICATION Spec
CONSTANTS
    r1 = r1
    r2 = r2
    Slots = {r1, r2}
    Stamps = {1, 2}
    MaxCalls = 3
    MaxResults = 3
    MaxMishaps = 1
SYMMETRY Interchangeable
INVARIANTS
    EditsAreAtomic
    ChangesStick
    WalksAreComplete
CHECK_DEADLOCK FALSE
