\* One resource, two changes of the site, two mishaps: the inventory catches up.
SPECIFICATION FairSpec
CONSTANTS
    b1 = b1
    b2 = b2
    e1 = e1
    e2 = e2
    Key = {k1}
    Url = {"u1", "u2"}
    Meta = {"m1", "m2"}
    Body = {b1, b2}
    Page <- MorePages
    Absent = Absent
    Nothing = Nothing
    EtagOf <- Etags
    NoLimit = NoLimit
    Limit = {NoLimit, 0}
    FailCap = 3
    MaxMishaps = 2
    MaxChanges = 2
PROPERTIES
    ReplayFindsNothing
    Converges
