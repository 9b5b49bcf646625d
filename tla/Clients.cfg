SPECIFICATION FairSpecAnyPage
CONSTANTS
    a = a
    b = b
    none = none
    t1 = t1
    t2 = t2
    t3 = t3
    noTask = noTask
    Sessions = {a, b}
    NoSession = none
    Tasks = {t1, t2, t3}
    NoTask = noTask
    MaxClicks = 2
    MaxCommands = 3
    MaxMishaps = 1
INVARIANTS
    ShownIsSelectedUnlessMoved
    LoadsForItsPromptUnlessOverlapped
    MessagesAreOfTheSessionUnlessStrayed
PROPERTY ClientsFreed
CHECK_DEADLOCK FALSE
