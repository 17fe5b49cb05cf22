SPECIFICATION Spec
CONSTANTS
    UserIds = {u1, u2}
    Emails = {m1}
    Sessions = {s1, s2}
    Lifespan = 1
    Skew = 2
    RefreshLife = 3
    HardLimit = 3
    Cooldown = 2
    CodeExpire = 1
    LimitExpire = 1
    MaxTime = 4
    MaxFailures = 1
    NoUser = NoUser
    NoEmail = NoEmail
INVARIANTS
    OneAccountPerEmail
    WithdrawalsAreRecorded
PROPERTIES
    CooldownHolds
    SweptAccountsWereIdle
    GhostsAreRemoved
