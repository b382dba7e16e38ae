SPECIFICATION JobsSpec
CONSTANTS
    Handlers = {h1, h2}
    Runs = {r1}
    Cleaners = {k1}
    Ids = {m1, m2}
    NoId = NoId
    MaxAttempts = 2
    MaxCrashes = 1
    Offers = {o1, o2}
    AgingDays = 2
    StaleDays = 3
    MaxAge = 4
    Schedulers = {w1, w2}
    Orders = {d1, d2}
    Admins = {a1, a2}
    MaxErrors = 1
    MaxDeaths = 1
    Clients = {c1}
    Agents = {g1}
    Questions = {q1, q2}
    MaxCost = 1
    Budget = 2
    WarnAt = 1
    Retries = 1
    Rounds = 1
    MaxRequests = 2
    Containers = {t1, t2, t3}
    Public = {t1, t2}
    MaxStarts = 4
    MaxStrays = 1
CHECK_DEADLOCK FALSE
INVARIANTS
    RepeatsCostAFailure
    
PROPERTIES
    
    UntouchedOffersGoStale
    WebhookComesBack
