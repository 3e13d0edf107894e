\* Two runs, at a time or one after the other, stage renderings of one layer and a document.
SPECIFICATION Spec
\* Runs begin and end up to MaxClock.
CHECK_DEADLOCK FALSE
CONSTANTS
    p = p
    q = q
    d1 = d1
    NoDecision = NoDecision
    None = None
    Earlier <- Imports
    Run = {r1, r2}
    Sha = {"f0", "g0", "f1", "f2", "f3"}
    File <- Files
    MaxMishaps = 1
    MaxClock = 4
SYMMETRY Symmetric
INVARIANTS
    TypeOK
    Traceable
    ContentKept
    NoRedundantCopies
    LeftEmptyByLayersOnly
PROPERTY
    NothingRewritten
