SPECIFICATION Spec
CONSTANTS
    U1 = U1
    U2 = U2
    R1 = R1
    R2 = R2
    None = None
    Uploads = {U1, U2}
    Others = {R1, R2}
    Names = {1, 2}
    MaxChunks = 2
    Faults = {"write", "crash"}
    MaxFaults = 1
SYMMETRY Symmetry
CHECK_DEADLOCK FALSE
INVARIANTS
    DownloadsAreWhole
    HashOfFile
PROPERTIES
    ScannedIsSaved
    DeleteLeavesNothing
