CONSTANTS
    ana = ana  ben = ben
    Clients <- MCClients
    InitialBody <- Blank
    MaxEdits = 1
    MaxRevision = 2
    MaxBreaks = 0
SPECIFICATION SpecOpen
INVARIANTS OnlyUsersDelete
CHECK_DEADLOCK FALSE
SYMMETRY Partners
