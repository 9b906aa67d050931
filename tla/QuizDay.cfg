CONSTANTS
    ana = ana  ben = ben
    QuizMembers <- Couple
    Written <- OneWritten
    DaySize = 1  Supply = 1  CatchUp = 0
    LastDay = 2  MaxCalls = 6  MaxSwitches = 1
    Jobs = {jobA, jobB}  Couples = {couple}
    Evergreen = {}  Curated = {}  Reserve = {kept, keptIntimate}  Ideas = {newIntimate}
    Intimate = {keptIntimate, newIntimate}
    PerDay = 1  LastDate = 2  CoverageDays = 2  LookBack = 1  Strict = FALSE
    MaxEditions = 2  MaxMarks = 1
SPECIFICATION MCSpec
INVARIANTS FinishMeansReviewed NothingUnsharedIsShown PoolsAreSound
CHECK_DEADLOCK FALSE
SYMMETRY Symmetry
