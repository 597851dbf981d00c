SPECIFICATION SceneSpec
CONSTANTS
    t1 = t1
    t2 = t2
    Todos = {t1, t2}
    Texts = {"x", "y"}
    NoText = NoText
    Pending = {t1}
    MaxPresses = 3
    MaxMounts = 2
    MaxLost = 1
    MarkDelay = 1
    SendDelay = 2
    ToastDelay = 2
CHECK_DEADLOCK FALSE
INVARIANTS
    UndoneIsNotSent
    UndoIsOfferedInTime
    SeenIsKept
    HiddenIsEnding
    UntouchedFormIsCurrent
PROPERTIES
    EveryPressEnds
    EveryToastGoes
