CONSTANTS
    \* AiWorkQueue
    l0 = l0  learn = learn
    NoRun = NoRun
    Workers = {w1}
    Locks = {l0}
    LockOf <- OneLock
    Items = {1}
    Kind <- AdminOnly
    ScheduledAt <- SlotZero
    Runs = {learn}
    RunOf <- LearningOnly
    Gap = 1  Stale = 2  Takeover = 2
    RunLimit = 1  PrepLimit = 0
    AmdBackend = TRUE
    Timely = TRUE
    MaxTime = 3
    MaxCrashes = 0
    \* Attachments
    Files = {f1}
    MediaWorkers = {m1}
    Requests = {d1}
    Sizes = {2}
    FinalSizes = {1}
    MaxFile = 3  CoupleQuota = 3  GlobalQuota = 4
    MaxUploads = 1  MaxAttempts = 2  MaxFaults = 1
    \* PartnerAlerts
    Devices = {d1}
    Slots = {s1}
    AlertKinds = {"note", "quiz"}
    MaxEvents = 1  MaxChanges = 1  MaxFailures = 1  TTL = 1  Cooldown = 1  AlertEnd = 1
    \* MailDelivery
    Mailers = {m1}
    Mails = {1, 2, 3}
    MailBatch = 2
    HeldBack = {}
    Unreadable = {}
    MaxMailFaults = 1  MaxRollbacks = 1
    \* HostMigration
    MaxRuns = 2  MaxWrites = 2  MaxMishaps = 2
SPECIFICATION MCSpec
PROPERTIES CyclesEnd RemovedBytesVanish AlertsAreDealtWith MailArrives ServiceReturns
CHECK_DEADLOCK FALSE
