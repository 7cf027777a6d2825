SPECIFICATION Spec
CONSTANTS
    p1 = p1
    p2 = p2
    x = x
    y = y
    Procs = {p1}
    Blocks = {x}
    SpoolThreshold = 2
    MaxLen = 3
    MaxWrites = 3
    MaxRecords = 3
    Starts = {"new"}
    Faults = {}
    Old = Old
    Zero = Zero
    Nil = Nil
INVARIANTS SavedIsWritten
