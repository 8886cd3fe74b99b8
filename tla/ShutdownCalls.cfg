SPECIFICATION ClientsLeaveSpec
CONSTANTS
    Unary = {C1, C2}
    Streams = {S1, S2}
    Uploads = {U1, U2}
    MayFail = {"setup", "serve", "rest"}
CHECK_DEADLOCK FALSE
INVARIANT CallsFinish
PROPERTY ShutdownEnds
