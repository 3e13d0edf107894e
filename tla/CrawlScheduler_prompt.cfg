\* One scheduler, a worker fleet, and every job done within its reservation.
SPECIFICATION Spec
CONSTANTS
    s1 = s1
    s2 = s2
    s3 = s3
    h1 = h1
    Source = {s1, s2, s3}
    Host = {h1}
    HostOf <- SharedHost
    Cap <- SharedCap
    Priority <- SharedPriority
    Ticker = {t1}
    Worker = {w1, w2, w3}
    Manual = {}
    Nobody = Nobody
    TickLimit = 2
    EnqueueTTL = 2
    OkDelay = {2}
    FailDelay = {1}
    MaxDelay = 2
    FailCap = 2
    MaxQueue = 3
    MaxMishaps = 2
    Prompt = TRUE
SYMMETRY Workers
INVARIANTS
    TypeOK
    HostRunsWithinCap
    OneJobPerSource
    FailureCounterExact
    LiveReservationsWithinCap
