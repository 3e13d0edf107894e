\* A run may outlive its reservation, operators run sources by hand, processes die.
SPECIFICATION FairSpec
CONSTANTS
    s1 = s1
    s2 = s2
    s3 = s3
    h1 = h1
    Source = {s1, s2}
    Host = {h1}
    HostOf <- TightHost
    Cap <- DefaultCap
    Priority <- PairPriority
    Ticker = {t1}
    Worker = {w1}
    Manual = {m1}
    Nobody = Nobody
    TickLimit = 2
    EnqueueTTL = 1
    OkDelay = {1}
    FailDelay = {}
    MaxDelay = 1
    FailCap = 1
    MaxQueue = 1
    MaxMishaps = 1
    Prompt = FALSE
INVARIANTS
    OneRunPerSource
PROPERTIES
    TickEnds
    DueEventuallyRuns
