\* One scheduler, but a run may outlive ENQUEUE_TTL_S: the host cap is not kept.
SPECIFICATION Spec
CONSTANTS
    s1 = s1
    s2 = s2
    s3 = s3
    h1 = h1
    Source = {s1, s2}
    Host = {h1}
    HostOf <- TightHost
    Cap <- TightCap
    Priority <- PairPriority
    Ticker = {t1}
    Worker = {w1, w2}
    Manual = {}
    Nobody = Nobody
    TickLimit = 2
    EnqueueTTL = 2
    OkDelay = {2}
    FailDelay = {1}
    MaxDelay = 2
    FailCap = 2
    MaxQueue = 2
    MaxMishaps = 0
    Prompt = FALSE
INVARIANT
    HostRunsWithinCap
