SPECIFICATION Spec
CONSTANTS
    Server = {s1, s2}
    Client = {}
    Pid = {p1, p2}
    Name <- Names
    Desc <- Descs
    Unwritten = Unwritten
    Junk <- Remains
    NoOne = NoOne
    MaxSessions = 2
    Win32 = FALSE
SYMMETRY Symmetry
INVARIANTS
    TypeOK
    AnnouncedIsFound
    ListeningIsReachable
    DestroyLeavesNothing
PROPERTY ImplementsNameService
CHECK_DEADLOCK FALSE
