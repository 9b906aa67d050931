CONSTANTS
    ana = ana  ben = ben
    Clients <- MCClients
    InitialBody <- Blank
    MaxEdits = 1
    MaxRevision = 2
    MaxBreaks = 1
SPECIFICATION Spec
INVARIANTS VersionsAreReal TypedTextSurvives 
CHECK_DEADLOCK FALSE
SYMMETRY Partners
