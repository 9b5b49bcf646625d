\* Two prompts, side by side or in turn; a worker or a request may be lost.
SPECIFICATION FairSpec
CONSTANTS
    MaxRuns = 2
    Workers = {w1, w2}
    Requests = {q1, q2}
    Operations = {"chat"}
    AgentSteps = 1
    ToolSteps = {1}
    MaxCrashes = 1
    MaxFaults = 1
    MaxOverruns = 0
    NoWorker = NoWorker
CHECK_DEADLOCK FALSE
INVARIANTS
    ProcessingIsHeld
PROPERTIES
    EveryRunSettles
    SessionFreed
