SPECIFICATION Spec
CONSTANTS
    Users = {u1}
    Sessions = {s1}
    Lifespan = 1
    RefreshLife = 2
    Skew = 1
    Terms = {1}
    MaxTime = 2
    MaxPairs = 2
    NoRequest = NoRequest
CHECK_DEADLOCK FALSE
INVARIANT EntriesLastAsLongAsTokens
