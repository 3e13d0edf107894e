\* A worker and an operator run one source, and both fail: one failure is not counted.
SPECIFICATION Spec
CONSTANTS
    s1 = s1
    s2 = s2
    s3 = s3
    h1 = h1
    Source = {s1}
    Host = {h1}
    HostOf <- LoneHost
    Cap <- LoneCap
    Priority <- LoneCap
    Ticker = {t1}
    Worker = {w1}
    Manual = {m1}
    Nobody = Nobody
    TickLimit = 2
    EnqueueTTL = 1
    OkDelay = {2}
    FailDelay = {1}
    MaxDelay = 2
    FailCap = 2
    MaxQueue = 2
    MaxMishaps = 0
    Prompt = FALSE
INVARIANT
    FailureCounterExact
