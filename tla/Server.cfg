CONSTANTS
    \* AccountAccess
    AuthSlots = {r1, r2}
    MaxLinks = 2  MaxLogins = 3  MaxPasswords = 2
    AuthEnd = 2  VerifyLife = 2  ResetLife = 1  SessionLife = 1  LinkCooldown = 1
    \* Throttle
    Clients = {c1, c2}
    Subjects = {e1, e2}
    ClientLimit = 2  SubjectLimit = 1  RateWindow = 2  Retention = 3
    RateEnd = 4  MaxPerInstant = 3
    \* MailDelivery
    Mailers = {m1, m2}
    Mails = {1, 2, 3}
    MailBatch = 2
    HeldBack = {}
    Unreadable = {2}
    MaxMailFaults = 2  MaxRollbacks = 2
    \* AdminDevices
    DeviceKeys = {k1, k2}
    AdminSlots = {r1, r2}
    PinAttempts = 2  MaxPins = 2  MaxChallenges = 2  MaxAdminSessions = 2
    MaxSecrets = 2  LastStep = 1
    \* Attachments
    Files = {f1}
    MediaWorkers = {w1, w2}
    Requests = {d1, d2}
    Sizes = {2}
    FinalSizes = {1, 3}
    MaxFile = 3  CoupleQuota = 3  GlobalQuota = 4
    MaxUploads = 2  MaxAttempts = 2  MaxFaults = 1
    \* HostMigration
    MaxRuns = 3  MaxWrites = 3  MaxMishaps = 4
    \* PartnerProfile
    Names = {n1, n2}
    Unfit = {n2}
    Images = {i1}
    NoGift = NoGift
    MaxPairings = 2  MaxChanges = 2  MaxRequests = 2
SPECIFICATION MCSpec
INVARIANTS
    ServerTypeOK
    AccessIsWarranted
    ThrottleHolds
    
    AdminAccessIsProven
    
    OneCurrentServer
    ProfileIsSound
PROPERTIES ImplementsLife
CHECK_DEADLOCK FALSE
