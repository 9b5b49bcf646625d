SPECIFICATION Spec
CONSTANTS
    run_code = run_code
    bash = bash
    Tools = {run_code, bash}
    CodeTools = {run_code}
    MaxPrompts = 1
    PageSize = 3
    MaxMishaps = 0
INVARIANT ReplayRebuildsTable
CHECK_DEADLOCK FALSE
