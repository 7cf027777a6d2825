SPECIFICATION Spec
CONSTANTS
    MaxBytes = 12
    Empty = Empty
    Bad = Bad
INVARIANTS TypeOK RangeIsServed
CHECK_DEADLOCK FALSE
