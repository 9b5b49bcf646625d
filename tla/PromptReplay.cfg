\* Two prompts, three tool calls, one crash, two waits for a tool.
SPECIFICATION FairSpec
CONSTANTS
    CallIds <- ThreeCalls
    MaxPrompts = 2
    MaxTurns = 2
    MaxCalls = 2
    Detached <- ThreeCalls
    MaxCrashes = 1
    MaxFaults = 1
    MaxWaits = 2
CHECK_DEADLOCK FALSE
INVARIANTS
    CallsAnswered
    RecordedOnce
    ContextPersistsUndisturbed
PROPERTIES
    EveryPromptEnds
