SPECIFICATION Spec
CONSTANTS
    p1 = p1
    p2 = p2
    k1 = k1
    k2 = k2
    k3 = k3
    small = small
    large = large
    Procs = {p1}
    Keys = {k1}
    Values = {small, large}
    SizeOf <- Sizes
    MaxSize = 2
    Faults = {"kill"}
    MaxClock = 3
    Free = Free
    None = None
    Torn = Torn
INVARIANTS HitIsWhole
