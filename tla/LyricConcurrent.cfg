SPECIFICATION Spec
CONSTANTS
    Calls = {C1, C2, C3, C4}
    Songs = {"song"}
    Types = {0, 2, 4}
    Languages = {"zh"}
    Concurrent = TRUE
    Faults = {"read", "write", "crash"}
    MaxFaults = 1
    None = None
CHECK_DEADLOCK FALSE
PROPERTY StoreSpec
