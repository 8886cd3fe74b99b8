SPECIFICATION FairSpec
CONSTANTS
    A = A
    B = B
    S1 = S1
    S2 = S2
    S3 = S3
    N1 = N1
    N2 = N2
    M1 = M1
    M2 = M2
    None = None
    Devices = {A, B}
    Streams = {S1, S2, S3}
    Notifiers = {N1, N2}
    Messages = {M1, M2}
    BufferSize = 1
CHECK_DEADLOCK FALSE
INVARIANTS
    AtMostOnce
    NoAbandonedChannel
PROPERTIES
    UnsubscribeStops
    LiveStreamRegistered
    NotifyEnds
