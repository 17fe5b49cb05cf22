--------------------------- MODULE AtomicBetting ---------------------------
(***************************************************************************)
(* What the betting service promises its users: bets, status changes,       *)
(* settlements and cancellations that each happen at one instant, on the    *)
(* state of that instant.  No session, snapshot, statistics column or       *)
(* history row: a bet takes its stake, and the end of its event gives back  *)
(* a share of the pool or the stake.                                        *)
(***************************************************************************)
EXTENDS Integers, FiniteSets, PointSums

CONSTANTS Users, Events, Options, EventOf, Amounts, InitialPoints

VARIABLES
    status,     \* the phase of each event
    points,     \* the points each user may spend
    bets        \* the bets made, with their outcome

vars == <<status, points, bets>>

BetsOn(e) == {b \in bets : b.event = e}

Stakes(B) == SumOf(B, [b \in B |-> b.amount])

(* The share of a pool that a bet of amount a in hits of value won earns: *)
(* the largest number of whole points not above a * pool / won.           *)
Share(a, pool, won) ==
    CHOOSE p \in 0 .. a * pool : p * won <= a * pool /\ a * pool < (p + 1) * won

(* Every bet of the event gets an outcome, and its user what that outcome pays. *)
Close(e, final, outcome, pays) ==
    /\ status' = [status EXCEPT ![e] = final]
    /\ bets' = (bets \ BetsOn(e)) \cup {[b EXCEPT !.status = outcome[b]] : b \in BetsOn(e)}
    /\ points' = [u \in Users |->
                    points[u] + SumOf({b \in BetsOn(e) : b.user = u}, pays)]

Refund(e, final) ==
    Close(e, final, [b \in BetsOn(e) |-> "REFUNDED"], [b \in BetsOn(e) |-> b.amount])

-----------------------------------------------------------------------------
PlaceBet(u, o, a) ==
    /\ status[EventOf[o]] = "OPEN"
    /\ ~ \E b \in BetsOn(EventOf[o]) : b.user = u
    /\ a <= points[u]
    /\ points' = [points EXCEPT ![u] = @ - a]
    /\ bets' = bets \cup {[user |-> u, event |-> EventOf[o], option |-> o,
                           amount |-> a, status |-> "PENDING"]}
    /\ UNCHANGED status

Advance(e) ==
    /\ \/ status[e] = "READY" /\ status' = [status EXCEPT ![e] = "OPEN"]
       \/ status[e] = "OPEN" /\ status' = [status EXCEPT ![e] = "CLOSED"]
    /\ UNCHANGED <<points, bets>>

Cancel(e) ==
    /\ status[e] \in {"READY", "OPEN", "CLOSED"}
    /\ Refund(e, "CANCELLED")

(* A hit earns its share of the pool, or a point less where the arithmetic *)
(* falls short, and at least its stake.                                    *)
Settle(e, winners) ==
    LET hits == {b \in BetsOn(e) : b.option \in winners}
        outcome == [b \in BetsOn(e) |-> IF b \in hits THEN "WIN" ELSE "LOSE"]
        share == [b \in hits |-> Share(b.amount, Stakes(BetsOn(e)), Stakes(hits))]
    IN  /\ status[e] = "CLOSED"
        /\ IF hits = {}
           THEN Refund(e, "SETTLED")
           ELSE \E short \in SUBSET hits :
                    LET pays == [b \in BetsOn(e) |->
                                    IF b \notin hits THEN 0
                                    ELSE IF b \in short THEN share[b] - 1 ELSE share[b]]
                    IN  /\ \A b \in short : pays[b] >= b.amount
                        /\ Close(e, "SETTLED", outcome, pays)

-----------------------------------------------------------------------------
Init ==
    /\ status = [e \in Events |-> "READY"]
    /\ points = [u \in Users |-> InitialPoints]
    /\ bets = {}

Next ==
    \/ \E u \in Users, o \in Options, a \in Amounts : PlaceBet(u, o, a)
    \/ \E e \in Events : Advance(e) \/ Cancel(e)
    \/ \E e \in Events, winners \in SUBSET Options : Settle(e, winners)

Spec == Init /\ [][Next]_vars
=============================================================================
