CONSTANTS
    ana = ana  ben = ben
    Clients <- MCClients
    InitialBody <- Blank
    MaxEdits = 1
    MaxRevision = 2
    MaxBreaks = 1
SPECIFICATION Spec
INVARIANTS UntouchedEditorNeverWrites
CHECK_DEADLOCK FALSE
SYMMETRY Partners
