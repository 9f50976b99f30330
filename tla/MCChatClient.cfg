\* Two sessions, two connections, one message: everything may fail
SPECIFICATION Spec
CONSTANTS
    Sessions = {s1, s2}
    Workers = {w1, w2}
    Turns = {t1}
    Faults = {"get", "post", "delete", "connect", "close", "silent"}
    MaxDone = 2
    MaxPresses = 1
    None = None
SYMMETRY Symmetry
INVARIANT TypeOK
PROPERTY SentToShown
CHECK_DEADLOCK FALSE
