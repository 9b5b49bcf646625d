SPECIFICATION FairBashSpec
CONSTANTS
    MaxOutput = 3
    BufferSize = 2
    MaxSlips = 1
    HeedChoices = {TRUE}
    Detachable = {TRUE, FALSE}
INVARIANTS
    CommandStartedOnce
    OutputShownInOrder
    StopReachesCommand
PROPERTY
    CallSettles
CHECK_DEADLOCK FALSE
