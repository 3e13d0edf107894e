\* A discovery that passes failed requests over empties the inventory.
SPECIFICATION Spec
CONSTANTS
    b1 = b1
    b2 = b2
    e1 = e1
    e2 = e2
    Key = {k1}
    Url = {"u1", "u2"}
    Meta = {"m1", "m2"}
    Body = {b1, b2}
    Page <- Pages
    Absent = Absent
    Nothing = Nothing
    EtagOf <- Etags
    NoLimit = NoLimit
    Limit = {NoLimit, 1}
    FailCap = 3
    MaxMishaps = 1
    MaxChanges = 0
PROPERTY
    DisappearsOnlyIfGone
