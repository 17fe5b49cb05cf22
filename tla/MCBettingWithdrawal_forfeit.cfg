SPECIFICATION WithdrawalSpec
CONSTANTS
    e1 = e1
    e2 = e2
    o1 = o1
    o2 = o2
    Users = {u1}
    Events = {e1, e2}
    Options <- MCOptions
    EventOf <- MCEventOf
    BetIds <- MCBetIds
    Amounts = {1}
    InitialPoints = 2
    MaxRows = 3
    RatioError <- MCExact
    Sessions = {s1, s2}
SYMMETRY Symmetric
INVARIANTS
    PointsAddUpUnlessOverwritten
    NewestRowOrForfeited
