SPECIFICATION Spec
CONSTANTS
    C1 = C1
    C2 = C2
    C3 = C3
    D1 = D1
    D2 = D2
    E1 = E1
    E2 = E2
    T1 = T1
    Calls = {C1, C2}
    Devices = {D1}
    EntityTypes = {T1}
    EntityIds = {E1}
    Actions = {1}
    MaxBatch = 1
    PageSize = 1
    Concurrent = TRUE
    Faults = {}
    MaxFaults = 0
INVARIANTS
    NoLostChange
