SPECIFICATION Spec
SYMMETRY Symmetry
CONSTANTS
    Providers = {p1}
    Models = {m1, m2}
    NoModel = NoModel
    Sessions = {s1}
    Handlers = {h1}
    Needy = {}
    Nobody = Nobody
    Slots = {i1, i2}
    MaxRequests = 3
    MaxMishaps = 1
INVARIANTS
    ModelsInUseAreLiveUndisturbed
    LiveModelsHaveTheirKeyUndisturbed
    OneModelPerSessionUndisturbed
    TokensFollowHandlersUndisturbed
CHECK_DEADLOCK FALSE
