SPECIFICATION Spec
CONSTANTS
    Users = {u1, u2, u3}
    Events = {e1}
    LikeIds <- MCLikeIds
    Sessions = {s1, s2, s3}
    MaxCommits = 5
    NoRequest = NoRequest
SYMMETRY Symmetric
INVARIANTS
    TypeOK
    CountDriftsByOverlapsOnly
CHECK_DEADLOCK FALSE
