SPECIFICATION Spec
CONSTANTS
    e1 = e1
    e2 = e2
    o1 = o1
    o2 = o2
    o3 = o3
    o4 = o4
    Users = {u1}
    Events = {e1, e2}
    Options <- MCTwoEvents
    EventOf <- MCEventOfTwo
    BetIds <- MCBetIds
    Amounts = {1}
    InitialPoints = 2
    RatioError <- MCExact
    Sessions = {s1, s2}
INVARIANT LedgerChain
