SPECIFICATION Spec
CONSTANTS
    c1 = c1
    c2 = c2
    c3 = c3
    c4 = c4
    n1 = n1
    n2 = n2
    p1 = p1
    p2 = p2
    None = None
    d1 = d1
    Calls = {c1, c2, c3, c4}
    Names = {n1, n2}
    Passwords = {p1, p2}
    DeviceIds = {d1}
    Faults = {"read", "write", "crash"}
    MaxFaults = 1
SYMMETRY Symmetry
CHECK_DEADLOCK FALSE
INVARIANTS
    RefusalsAreTrue
    DeviceKept
PROPERTIES
    PasswordOpens
