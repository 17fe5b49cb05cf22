SPECIFICATION Spec
CONSTANTS
    s1 = s1
    s2 = s2
    b1 = b1
    b2 = b2
    o1 = o1
    Sockets = {s1, s2}
    Bets = {b1, b2}
    Options = {o1, o2}
    NoOption = NoOption
    NoMessage = NoMessage
CONSTRAINT NamedInOrder
INVARIANTS
    LeftoversLastUntilBroadcast
    OddsLackOnlyOverlaps
PROPERTY GoneClientsAreForgotten
CHECK_DEADLOCK FALSE
