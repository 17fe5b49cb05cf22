---------------------------- MODULE MCEventLikes ----------------------------
(* Instances of EventLikes for TLC. *)
EXTENDS EventLikes, TLC

(* Enough ids for a like of each user of each event and those in flight. *)
MCLikeIds == 1 .. Cardinality(Users) * Cardinality(Events) + Cardinality(Sessions)

Symmetric == Permutations(Users) \cup Permutations(Sessions) \cup Permutations(Events)
=============================================================================
