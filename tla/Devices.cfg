CONSTANTS
    \* WatchAuthority
    Local = Local  OtherWatch = OtherWatch  NoOne = NoOne
    Couples = {a, b}
    Expiry = 1  MaxClock = 2  MaxGen = 3  MaxTargets = 2
    \* SmoochSending
    MaxSends = 3  MaxWatch = 1  MaxNow = 2  Lifetime = 1  Hour = 2  HourlyLimit = 2
    QueueLimit = 1  MaxRemovals = 1
    \* PartnerAlerts
    Devices = {d1}
    Slots = {s1, s2}
    AlertKinds = {"note", "quiz"}
    MaxEvents = 2  MaxChanges = 1  MaxFailures = 1  TTL = 1  Cooldown = 1  AlertEnd = 1
    \* NoteLibrary
    MaxShelf = 2  MaxTexts = 2  MaxOperations = 2  MaxHandling = 2
    RecoveryWindow = 1  UndoWindow = 1  LibraryEnd = 2
    \* CountdownSync
    PhoneOps = 2  PartnerOps = 1  QueueBatch = 2
    \* TogetherTime
    p1 = p1  p2 = p2
    Partners = {p1, p2}
    PlacesOf <- MCPlaces
    ClockAhead <- MCAhead
    Threshold = 1  Fresh = 1  Bridge = 2  Horizon = 2  Keep = 3  DayLength = 2
    LastMinute = 3  MaxFixes = 5  BatchLimit = 2  QueueCap = 2  MaxChoices = 2
    \* NoteEdits
    MaxLen = 5  MaxText = 2
SPECIFICATION MCSpec
INVARIANTS
    DevicesTypeOK
    
    
    AlertsAreHonest
    NotesAreKeptOnce
    EditsCountOnce
    
    ConcurrentEditsConverge
CHECK_DEADLOCK FALSE
