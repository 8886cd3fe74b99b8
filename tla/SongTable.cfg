SPECIFICATION Spec
CONSTANTS
    A = A
    B = B
    C = C
    h1 = h1
    h2 = h2
    title = title
    disc = disc
    User = User
    Default = Default
    None = None
    Clients = {A, B, C}
    Hashes = {h1, h2}
    TextColumns = {title}
    NumberColumns = {disc}
    Given = {title}
    Tags <- MCTags
    Preset = {disc}
    Faults = {"read", "write", "crash"}
    MaxFaults = 1
SYMMETRY Symmetry
CHECK_DEADLOCK FALSE
INVARIANTS
    EveryTagLands
    OneSongPerFile
PROPERTIES
    FilledStays
