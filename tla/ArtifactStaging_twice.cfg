\* Two runs that meet the same file.
SPECIFICATION Spec
\* Runs begin and end up to MaxClock.
CHECK_DEADLOCK FALSE
CONSTANTS
    p = p
    q = q
    d1 = d1
    NoDecision = NoDecision
    None = None
    Earlier <- Nothing
    Run = {r1, r2}
    Sha = {"f1"}
    File <- OneFile
    MaxMishaps = 0
    MaxClock = 4
INVARIANT
    OneShaOneArtifact
