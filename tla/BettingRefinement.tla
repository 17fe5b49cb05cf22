------------------------- MODULE BettingRefinement -------------------------
(* Betting implements AtomicBetting when requests do not overlap. *)
EXTENDS Betting

(* A bet without its id. *)
Plain(b) == [user |-> b.user, event |-> b.event, option |-> b.option,
             amount |-> b.amount, status |-> b.status]

PlainBets == {Plain(b) : b \in bets}

Atomic == INSTANCE AtomicBetting WITH bets <- PlainBets

(* Every commit is one operation of AtomicBetting on the current state, and *)
(* every other step leaves that state alone.                                *)
AtomicSpec == Atomic!Spec
=============================================================================
