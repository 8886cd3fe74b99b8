SPECIFICATION ServerSpec
CONSTANTS
    C1 = C1
    C2 = C2
    D1 = D1
    E1 = E1
    T1 = T1
    S1 = S1
    S2 = S2
    None = None
    Calls = {C1, C2}
    Devices = {D1}
    EntityTypes = {T1}
    EntityIds = {E1}
    Actions = {1}
    MaxBatch = 1
    PageSize = 1
    Concurrent = TRUE
    Faults = {"read", "write", "crash"}
    MaxFaults = 1
    Streams = {S1, S2}
    BufferSize = 1
SYMMETRY Symmetry
INVARIANTS
    NotifiedChangeIsPullable
