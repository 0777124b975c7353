SPECIFICATION Spec
CONSTANTS
    Client = {c1}
    NoClient = NoClient
    MaxClients = 1
    FrameCount = 2
    MaxFrames = 2
    Posix = TRUE
    ServerIoFails = FALSE
    FenceRecvFails = FALSE
PROPERTY AcquireDelivers
