SPECIFICATION Spec
CONSTANTS
    e1 = e1
    e2 = e2
    o1 = o1
    o2 = o2
    o3 = o3
    o4 = o4
    Users = {u1, u2, u3}
    Events = {e1}
    Options <- MCThreeOptions
    EventOf <- MCEventOfThree
    BetIds <- MCBetIds
    Amounts = {1, 4, 11, 12}
    InitialPoints = 11
    RatioError <- MCFloat
    Sessions = {s1}
SYMMETRY SymmetricThree
INVARIANTS
    TypeOK
    LedgerChain
    PendingUntilFinal
    BetsFollowVerdict
    PointsAreConserved
PROPERTIES
    FinalStatusIsFinal
    AtomicSpec
