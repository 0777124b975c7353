SPECIFICATION Spec
CONSTANTS
    Client = {c1, c2}
    NoClient = NoClient
    MaxClients = 2
    FrameCount = 2
    MaxFrames = 3
    Posix = TRUE
    ServerIoFails = TRUE
    FenceRecvFails = TRUE
SYMMETRY Symmetry
INVARIANTS RefAccounting HeldFrameIntact
