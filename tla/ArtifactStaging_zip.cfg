\* A zip of two layers, packed anew upstream with the same features.
SPECIFICATION Spec
\* Runs begin and end up to MaxClock.
CHECK_DEADLOCK FALSE
CONSTANTS
    p = p
    q = q
    d1 = d1
    NoDecision = NoDecision
    None = None
    Earlier <- Nothing
    Run = {r1}
    Sha = {"f1", "f2"}
    File <- Zips
    MaxMishaps = 0
    MaxClock = 4
PROPERTY
    DroppingIsHarmless
