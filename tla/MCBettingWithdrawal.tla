------------------------ MODULE MCBettingWithdrawal ------------------------
(* An instance of BettingWithdrawal for TLC: two events of one option each. *)
EXTENDS BettingWithdrawal, TLC

CONSTANTS o1, o2, e1, e2

MCOptions == {o1, o2}
MCEventOf == [o \in MCOptions |-> IF o = o1 THEN e1 ELSE e2]
MCBetIds == 1 .. 3
MCExact == [p \in {} |-> 0]

(* Sessions, and the events with their options, are interchangeable. *)
SwapEvents == [x \in {e1, e2, o1, o2} |->
    CASE x = e1 -> e2 [] x = e2 -> e1 [] x = o1 -> o2 [] x = o2 -> o1]

Symmetric == Permutations(Sessions) \cup {SwapEvents}
=============================================================================
