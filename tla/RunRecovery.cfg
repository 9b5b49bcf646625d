\* Crashes, faults and overrun leases around one prompt, and every handler.
SPECIFICATION Spec
CONSTANTS
    MaxRuns = 1
    Workers = {w1, w2}
    Requests = {q1}
    Operations = {"chat", "close", "abort", "kill", "poll"}
    AgentSteps = 1
    ToolSteps = {1}
    MaxCrashes = 1
    MaxFaults = 1
    MaxOverruns = 1
    NoWorker = NoWorker
SYMMETRY Symmetry
CHECK_DEADLOCK FALSE
INVARIANTS
    NoConcurrentExecution
    StepsInOrder
PROPERTIES
    SettledForGood
    ImplementsPromptJob
