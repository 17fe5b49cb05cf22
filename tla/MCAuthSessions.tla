--------------------------- MODULE MCAuthSessions ---------------------------
(* Instances of AuthSessions for TLC: two users for suspensions and roles,  *)
(* one for the life of the blacklist.                                       *)
EXTENDS AuthSessions, TLC

Symmetric == Permutations(Users) \cup Permutations(Sessions)
=============================================================================
