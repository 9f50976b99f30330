\* A session is selected after a turn on another; nothing fails
SPECIFICATION Spec
CONSTANTS
    Sessions = {s1, s2}
    Workers = {w1, w2}
    Turns = {t1, t2}
    Faults = {}
    MaxDone = 1
    MaxPresses = 1
    None = None
SYMMETRY Symmetry
INVARIANT OpenIsKnown
CHECK_DEADLOCK FALSE
