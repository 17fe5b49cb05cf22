----------------------------- MODULE MCBetting -----------------------------
(* Instances of Betting for TLC: one or two events with two options each. *)
EXTENDS BettingRefinement, FiniteSetsExt, TLC

CONSTANTS o1, o2, o3, o4, e1, e2

MCOneEvent == {o1, o2}
MCEventOfOne == [o \in MCOneEvent |-> e1]

MCThreeOptions == {o1, o2, o3}
MCEventOfThree == [o \in MCThreeOptions |-> e1]

MCTwoEvents == {o1, o2, o3, o4}
MCEventOfTwo == [o \in MCTwoEvents |-> IF o \in {o1, o2} THEN e1 ELSE e2]

(* RatioError for the instance's amounts, as Python computes it: none for    *)
(* amounts up to 3, and int(11 * (15 / 11)) = 14 for amounts in {1, 4, 11}.  *)
MCExact == [p \in {} |-> 0]
MCFloat == [p \in {<<11, 15, 11>>} |-> -1]

(* Enough ids for a bet of each user on each event and for the bets that *)
(* the other sessions hold in flight.                                    *)
MCBetIds == 1 .. Cardinality(Users) * Cardinality(Events) + Cardinality(Sessions) - 1

(* Users, sessions, and the options of an event, are interchangeable. *)
SymmetricOne == Permutations(Users) \cup Permutations(Sessions) \cup Permutations({o1, o2})
SymmetricThree == SymmetricOne \cup Permutations(MCThreeOptions)

(* SumOf is the fold that adds the amounts. *)
ASSUME SumOfIsSum ==
    \A S \in SUBSET {1, 2, 3} : \A f \in [{1, 2, 3} -> 0 .. 3] :
        SumOf(S, f) = MapThenSumSet(LAMBDA x : f[x], S)
=============================================================================
