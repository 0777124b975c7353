SPECIFICATION Spec
CONSTANTS
    Platforms = {"posix", "win32"}
    Client = {c1, c2, c3}
    NoClient = NoClient
    MaxClients = 2
    BufCount = 2
INVARIANTS TypeOK HandlesMatch EndsAccounted StrayedMisread NobodyWaitsInVain
PROPERTIES ConnectAnswered ImplementsHandshake
CHECK_DEADLOCK FALSE
