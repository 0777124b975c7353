SPECIFICATION Spec
CONSTANTS
    Server = {s1, s2}
    Client = {c1}
    Pid = {p1, p2}
    Name <- Names
    Desc <- Mixed
    Unwritten = Unwritten
    Junk <- Remains
    NoOne = NoOne
    MaxSessions = 1
    Win32 = FALSE
SYMMETRY Symmetry
INVARIANTS ClientMapsItsServer LockInUse
CHECK_DEADLOCK FALSE
