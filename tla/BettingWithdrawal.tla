------------------------- MODULE BettingWithdrawal -------------------------
(***************************************************************************)
(* Betting together with POST /auth/withdraw, which sets the points of an    *)
(* account to zero without a history row, while bets and settlements of the  *)
(* same user are in flight and write its points as absolute values.          *)
(*                                                                         *)
(* A withdrawal is a transaction like the others of Betting: the handler     *)
(* leaves a write set, and CommitWithdrawal applies it.  Nothing asks        *)
(* whether an account has been withdrawn: while its token lasts it may bet   *)
(* with what its open bets return, and be withdrawn again.                   *)
(***************************************************************************)
EXTENDS Betting

CONSTANT MaxRows    \* bound: history rows of a user before no request about points begins

ASSUME MaxRowsAssumption == MaxRows \in Nat

VARIABLES
    leaving,        \* the account that the withdrawal in each session is about
    since           \* Active, or the length of the account's ledger when it was withdrawn

(* History: the users whose points have been committed by another session   *)
(* since the request in each session read them, and those whose points were *)
(* then written, or left at zero, by such a request.                        *)
VARIABLES overlooked, overwritten

account == <<leaving, since>>
history == <<overlooked, overwritten>>
allVars == <<vars, account, history>>

Active == -1
Withdrawn(u) == since[u] # Active

Busy(s) == InFlight(s) \/ leaving[s] # {}

(* Rows and requests keep their types; in particular points never go below  *)
(* zero, although a withdrawal may take them from under a bet in flight.     *)
WithdrawalTypeOK ==
    /\ TypeOK
    /\ leaving \in [Sessions -> SUBSET Users]
    /\ since \in [Users -> Nat \cup {Active}]
    /\ overlooked \in [Sessions -> SUBSET Users]
    /\ overwritten \subseteq Users

-----------------------------------------------------------------------------
(* What a step of session s that commits the points of the users in wrote   *)
(* means for the requests that remain in flight.                            *)
Overlook(s, wrote) ==
    overlooked' = [t \in Sessions |-> IF t = s \/ ~Busy(t) THEN {} ELSE overlooked[t] \cup wrote]

(* The requests of Betting.  The scheduler's, which write no points and no   *)
(* status that an administrator may not, are left out.                      *)
BeginBetting(s) ==
    /\ leaving[s] = {}
    /\ \A u \in Users : Len(ledger[u]) < MaxRows
    /\ \/ \E u \in Users, e \in Events, o \in Options, a \in Amounts : CreateBet(s, u, e, o, a)
       \/ \E e \in Events, winners \in SUBSET Options : SettleEvent(s, e, winners)
       \/ \E e \in Events, new \in EventStatus : UpdateEventStatus(s, e, new)
    /\ UNCHANGED <<account, history>>

CommitBetting(s) ==
    LET wrote == DOMAIN txn[s].points IN
    /\ leaving[s] = {}
    /\ Commit(s)
    /\ Overlook(s, wrote)
    /\ overwritten' = overwritten \cup (wrote \cap overlooked[s])
    /\ UNCHANGED account

AbortBetting(s) ==
    /\ leaving[s] = {}
    /\ Abort(s)
    /\ Overlook(s, {})
    /\ UNCHANGED <<account, overwritten>>

(* Faulty: the points are kept. *)
WithdrawKeepingPoints(s, u) ==
    /\ ~Busy(s)
    /\ leaving' = [leaving EXCEPT ![s] = {u}]
    /\ UNCHANGED <<vars, since, history>>

(* user.points = 0 *)
Forfeit(u) == [NoWrites EXCEPT !.points = [x \in {u} |-> 0]]

(* execute_withdrawal.  The ORM sends the points only if they are not zero  *)
(* already.                                                                 *)
Withdraw(s, u) ==
    /\ ~Busy(s)
    /\ txn' = [txn EXCEPT ![s] = IF points[u] = 0 THEN NoWrites ELSE Forfeit(u)]
    /\ leaving' = [leaving EXCEPT ![s] = {u}]
    /\ UNCHANGED <<dbVars, since, history>>

CommitWithdrawal(s) ==
    /\ leaving[s] # {}
    /\ Apply(txn[s])
    /\ txn' = [txn EXCEPT ![s] = NoWrites]
    /\ leaving' = [leaving EXCEPT ![s] = {}]
    /\ since' = [u \in Users |-> IF u \in leaving[s] THEN Len(ledger[u]) ELSE since[u]]
    /\ Overlook(s, DOMAIN txn[s].points)
    /\ overwritten' = (overwritten \ leaving[s]) \cup (leaving[s] \cap overlooked[s])

(* Faulty: the points had been committed before. *)
AbortLosingPoints(s) ==
    /\ leaving[s] # {}
    /\ Apply(txn[s])
    /\ txn' = [txn EXCEPT ![s] = NoWrites]
    /\ leaving' = [leaving EXCEPT ![s] = {}]
    /\ Overlook(s, {})
    /\ UNCHANGED <<since, overwritten>>

AbortWithdrawal(s) ==
    /\ leaving[s] # {}
    /\ txn' = [txn EXCEPT ![s] = NoWrites]
    /\ leaving' = [leaving EXCEPT ![s] = {}]
    /\ Overlook(s, {})
    /\ UNCHANGED <<dbVars, since, overwritten>>

-----------------------------------------------------------------------------
WithdrawalInit ==
    /\ Init
    /\ leaving = [s \in Sessions |-> {}]
    /\ since = [u \in Users |-> Active]
    /\ overlooked = [s \in Sessions |-> {}]
    /\ overwritten = {}

WithdrawalNext ==
    \E s \in Sessions :
        \/ BeginBetting(s) \/ CommitBetting(s) \/ AbortBetting(s)
        \/ \E u \in Users : Withdraw(s, u)
        \/ CommitWithdrawal(s)
        \/ AbortWithdrawal(s)

WithdrawalSpec == WithdrawalInit /\ [][WithdrawalNext]_allVars

-----------------------------------------------------------------------------
(* Properties *)

(* What the rows of a history after the k-th gave and what they took. *)
Given(rows, k) ==
    SumOf({i \in DOMAIN rows : i > k /\ rows[i].change > 0}, [i \in DOMAIN rows |-> rows[i].change])

Taken(rows, k) ==
    SumOf({i \in DOMAIN rows : i > k /\ rows[i].change < 0}, [i \in DOMAIN rows |-> -rows[i].change])

(* A withdrawn account has the points that its bets have returned since,    *)
(* and any other what it was given at signup and the sum of its history:    *)
(* points appear or vanish only when a request writes, or a withdrawal      *)
(* takes as zero, points that another request has written since it read     *)
(* them.  So a withdrawal that overlaps nothing forfeits all points.        *)
PointsAddUpUnlessOverwritten ==
    \A u \in Users \ overwritten :
        IF Withdrawn(u)
        THEN points[u] + Taken(ledger[u], since[u]) = Given(ledger[u], since[u])
        ELSE points[u] + Taken(ledger[u], 0) = InitialPoints + Given(ledger[u], 0)

(* Whatever overlaps, the points are the points_after of the newest history *)
(* row, except those of a withdrawn account without a row since, which may  *)
(* be zero.                                                                 *)
NewestRowOrForfeited ==
    \A u \in Users :
        \/ points[u] = IF ledger[u] = <<>> THEN InitialPoints ELSE ledger[u][Len(ledger[u])].after
        \/ since[u] = Len(ledger[u]) /\ points[u] = 0

=============================================================================
