SPECIFICATION Spec
CONSTANTS
    Server = {s1, s2}
    Client = {c1}
    Pid = {p1, p2}
    Name <- Names
    Desc <- DefaultPaths
    Unwritten = Unwritten
    Junk <- Nothing
    NoOne = NoOne
    MaxSessions = 1
    Win32 = FALSE
INVARIANT OpensItsProducersSegment
CHECK_DEADLOCK FALSE
