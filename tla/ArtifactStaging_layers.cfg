\* A file of two layers, packed anew upstream, and with one of them changed.
SPECIFICATION Spec
\* Runs begin and end up to MaxClock.
CHECK_DEADLOCK FALSE
CONSTANTS
    p = p
    q = q
    d1 = d1
    NoDecision = NoDecision
    None = None
    Earlier <- Nothing
    Run = {r1}
    Sha = {"f1", "f2", "f3"}
    File <- Layers
    MaxMishaps = 0
    MaxClock = 4
INVARIANT
    NoVersionLeftEmpty
