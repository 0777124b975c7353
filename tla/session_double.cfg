SPECIFICATION Spec
CONSTANTS
    Client = {c1, c2, c3}
    NoClient = NoClient
    MaxClients = 2
    FrameCount = 2
    MaxFrames = 3
    Posix = FALSE
    ServerIoFails = FALSE
    FenceRecvFails = FALSE
SYMMETRY Symmetry
INVARIANT SkippedForNewer
PROPERTIES Refines ImplementsHandshake FrameIdsIncrease
