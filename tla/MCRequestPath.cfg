SPECIFICATION RequestPathSpec
CONSTANTS
    Requests = {r1, r2, r3}
    Users = {u1}
    None = None
    RetryAttempts = 1
    RateLimitRequests = 2
    RateLimitWindow = 1
    MaxTime = 2
    MaxFaults = 1
    Emails = {e1, e2}
    BootstrapAdmin = e1
    NoAdmin = NoAdmin
    AuthSessions = {s1, s2}
    NoCall = NoCall
    MaxLogins = 2
    MaxTokens = 3
    Tasks = {t1, t2}
    NoContext = NoContext
    NoWork = NoWork
    MaxDrawn = 10
    MaxRequests = 2
    MaxTopic = 3
INVARIANTS
    OneDefaultAddress
    CreatedOnce
    RaceCostsOneAttempt
    AdmittedWithinLimit
    OneTokenPerLogin
    TraceFollowsCause
SYMMETRY Symmetry
CHECK_DEADLOCK FALSE
