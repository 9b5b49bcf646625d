SPECIFICATION Spec
CONSTANTS
    run_code = run_code
    bash = bash
    Tools = {run_code, bash}
    CodeTools = {run_code}
    MaxPrompts = 2
    PageSize = 3
    MaxMishaps = 1
CONSTRAINT Bound
INVARIANTS
    NothingSkippedUnlessOverlapping
    ReplayRebuildsUnlessDisturbed
    AnswersFollowTheirPrompts
    
CHECK_DEADLOCK FALSE
