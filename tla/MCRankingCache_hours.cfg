SPECIFICATION Spec
CONSTANTS
    Users = {u1, u2}
    Points = {0, 1}
    Hour = 2
    TopSize = 1
    MaxTime = 4
    MaxFaults = 1
    NoKey = NoKey
CHECK_DEADLOCK FALSE
INVARIANTS
    RanksAgree
    RankingsAreAsRecentAsStated
PROPERTIES
    RankingsReturn
