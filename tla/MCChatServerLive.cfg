\* Liveness, without symmetry; removals may fail as well
SPECIFICATION FairSpec
CONSTANTS
    SessionIds = {s1}
    Entries = {e1, e2}
    Connections = {c1, c2}
    Streams = {t1}
    Deletes = {d1}
    Faults = {"delete"}
    None = None
    NoDir = NoDir
    Unreadable = Unreadable
PROPERTIES
    ClosedHandlerLeaves
    DeleteReturns
CHECK_DEADLOCK FALSE
