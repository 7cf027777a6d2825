SPECIFICATION Spec
CONSTANTS
    p1 = p1
    p2 = p2
    x = x
    y = y
    Procs = {p1, p2}
    Blocks = {x}
    SpoolThreshold = 2
    MaxLen = 3
    MaxWrites = 3
    MaxRecords = 2
    Starts = {"new", "listed"}
    Faults = {"bridge", "lostReply", "cache", "spool"}
    Old = Old
    Zero = Zero
    Nil = Nil
INVARIANTS TypeOK CleanIsSaved CacheIsCoherent WrittenIsKept ReadsReachTheEnd
PROPERTIES NothingSavedTwice BufferIsWriteBack
SYMMETRY Alike
