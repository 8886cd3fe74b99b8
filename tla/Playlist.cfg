SPECIFICATION Spec
CONSTANTS
    C1 = C1
    C2 = C2
    C3 = C3
    C4 = C4
    P1 = P1
    A = A
    B = B
    None = None
    Calls = {C1, C2, C3, C4}
    Playlists = {P1}
    Songs = {A, B}
    PositionStep = 10
    MaxPosition = 19
    MaxOrder = 3
    Faults = {"read", "write", "crash"}
    MaxFaults = 1
SYMMETRY Symmetry
CHECK_DEADLOCK FALSE
INVARIANTS
    TypeOK
    SongOnce
    LockIsLetGo
    NoOrphans
PROPERTIES
    ReordersAreWhole
    ListSpec
