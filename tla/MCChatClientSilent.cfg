\* One connection, turns that may fail outside any-llm or report two models
SPECIFICATION Spec
CONSTANTS
    Sessions = {s1, s2}
    Workers = {w1}
    Turns = {t1}
    Faults = {"silent"}
    MaxDone = 2
    MaxPresses = 1
    None = None
SYMMETRY Symmetry
INVARIANT TurnEndsWithDone
CHECK_DEADLOCK FALSE
