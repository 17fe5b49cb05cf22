SPECIFICATION Spec
CONSTANTS
    Users = {u1, u2}
    Sessions = {s1, s2}
    Lifespan = 1
    RefreshLife = 2
    Skew = 1
    Terms = {1, 2}
    MaxTime = 2
    MaxPairs = 2
    NoRequest = NoRequest
SYMMETRY Symmetric
CHECK_DEADLOCK FALSE
PROPERTIES
    SuspensionsHoldUnlessOverlapped
    SomeAdminRemains
