\* Two sessions, two connections and two messages, or three connections: they fail or close
SPECIFICATION Spec
CONSTANTS
    Sessions = {s1, s2}
    Workers = {w1, w2, w3}
    Turns = {t1, t2}
    Faults = {"connect", "close"}
    MaxDone = 1
    MaxPresses = 1
    None = None
SYMMETRY Symmetry
CONSTRAINT ThirdBeforeMessages
INVARIANTS
    InputTellsConnection
    
    ChunksInTheirBubble
CHECK_DEADLOCK FALSE
