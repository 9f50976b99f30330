\* DELETE against a concurrent reload: no failure of any kind is needed
SPECIFICATION Spec
CONSTANTS
    SessionIds = {s1}
    Entries = {e1, e2}
    Connections = {c1}
    Streams = {t1}
    Deletes = {d1}
    Faults = {}
    None = None
    NoDir = NoDir
    Unreadable = Unreadable
INVARIANT
    DeletedSessionIsGone
CHECK_DEADLOCK FALSE
