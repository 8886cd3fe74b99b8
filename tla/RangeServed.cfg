SPECIFICATION Spec
CONSTANTS
    Absent = Absent
    Bad = Bad
    Totals <- SmallTotals
    Numbers <- SmallNumbers
    BufSize = 2
    MaxFaults = 1
CHECK_DEADLOCK FALSE
INVARIANTS
    RangeIsAsked
    SentIsRange
    Completes
