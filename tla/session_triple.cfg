SPECIFICATION Spec
CONSTANTS
    Client = {c1, c2}
    NoClient = NoClient
    MaxClients = 2
    FrameCount = 3
    MaxFrames = 4
    Posix = TRUE
    ServerIoFails = FALSE
    FenceRecvFails = FALSE
SYMMETRY Symmetry
INVARIANTS TypeOK LeaseAccounting HeldFrameIntact RefusedForAReason
