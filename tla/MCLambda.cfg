CONSTANTS
    Wrappers = {w1, w2}
    Invocations = {i1, i2}
    Watchers = {f1, f2}
    MaxVersion = 2
SPECIFICATION Spec
INVARIANTS
    StartedOnceAndWhole
    NothingLeftBehind
PROPERTIES
    EventuallyCurrent
    StopTakesEffect
CHECK_DEADLOCK FALSE
