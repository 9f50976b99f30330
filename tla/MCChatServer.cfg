\* One session: two connections, two turns, two DELETEs, four loads per lifetime
SPECIFICATION Spec
CONSTANTS
    SessionIds = {s1}
    Entries = {e1, e2, e3}
    Connections = {c1, c2}
    Streams = {t1, t2}
    Deletes = {d1, d2}
    Faults = {"create", "save"}
    None = None
    NoDir = NoDir
    Unreadable = Unreadable
SYMMETRY Symmetry
INVARIANTS
    TypeOK
    ExclusiveConnection
    StreamOwned
    TurnsNotInterleaved
    OnlyRegisteredSaves
    MemoryCoversDisk
PROPERTIES
    SavedRecordsKept
CHECK_DEADLOCK FALSE
