CONSTANTS
    w1 = w1  w2 = w2  l0 = l0  l1 = l1  l2 = l2
    learn = learn  generate = generate
    NoRun = NoRun
    Workers <- MCWorkers
    Locks = {l0}
    LockOf <- OneLock
    Items <- MCItems
    Kind <- LearningKinds
    ScheduledAt <- LearningSlots
    Runs = {learn, generate}
    RunOf <- SharedRun
    Gap = 3  Stale = 3  Takeover = 3
    RunLimit = 1  PrepLimit = 1
    AmdBackend = TRUE
    Timely = TRUE
    MaxTime = 4
    MaxCrashes = 1
SPECIFICATION MCSpec
INVARIANTS HostGpuExclusive RowCompleteMeansDone TimelyLeaseCoversExecution
PROPERTIES FinishedStaysFinished HostRespectsTheGap
SYMMETRY Exchange
