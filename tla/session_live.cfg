SPECIFICATION FairSpec
CONSTANTS
    Client = {c1, c2}
    NoClient = NoClient
    MaxClients = 1
    FrameCount = 2
    MaxFrames = 3
    Posix = TRUE
    ServerIoFails = FALSE
    FenceRecvFails = FALSE
PROPERTIES DeadClientReclaimed ConnectAnswered ProducerProgress
