------------------------------ MODULE Betting ------------------------------
(***************************************************************************)
(* Bets, event status and settlement: the requests that create a bet,       *)
(* change an event's status and settle an event, and the scheduler's        *)
(* status updates, all running as database transactions.                    *)
(*                                                                         *)
(* Every request owns one AsyncSession.  get_current_user runs the first    *)
(* SELECT, which begins the transaction and, at InnoDB's default isolation   *)
(* level REPEATABLE READ, fixes the snapshot that every later SELECT of     *)
(* the request reads; the service then sends its writes, and                *)
(* get_db_session commits after the handler has returned.  A write is       *)
(* applied to the current row, not to the snapshot, under a row lock that   *)
(* is held to the end.  So a request is two steps here:                     *)
(*   - the handler (CreateBet, SettleEvent, ...) evaluates the guards on    *)
(*     the database as it is now, and computes the request's write set;     *)
(*   - Commit applies the write set to the database as it is then, or       *)
(*     Abort drops it (deadlock, constraint violation, exception, crash).   *)
(* Row locks are held to the end of the transaction, so the writes of two   *)
(* transactions to one row take effect in the order of their commits, and   *)
(* applying them together at the commit loses no behaviour.  A request the  *)
(* guards reject changes nothing and has no action.                         *)
(***************************************************************************)
EXTENDS Integers, Sequences, FiniteSets, PointSums, EventTransitions

CONSTANTS
    Users,          \* rows of users
    Events,         \* rows of events
    Options,        \* rows of event_options
    EventOf,        \* event_options.event_id
    BetIds,         \* bets.bet_id
    Amounts,        \* bet amounts a client may send
    InitialPoints,  \* points of a user after signup (10000 in the code)
    RatioError,     \* where amount * (total / winning) in floats misses the exact floor
    Sessions        \* database sessions: requests that may be in flight

ASSUME OptionsAssumption ==
    /\ IsFiniteSet(Options)
    /\ EventOf \in [Options -> Events]

ASSUME AmountsAssumption ==
    /\ Amounts \subseteq Nat \ {0}      \* bet_amount: int = Field(gt=0)
    /\ InitialPoints \in Nat

(* The quotient of the pools is a float, at most a rounding error away from *)
(* the exact ratio.  The ratio of equal pools is 1.0 and has no error.       *)
(* Otherwise the product may fall just short of the whole number it should   *)
(* be, and lose a point, or (pools of 2^26 points and more) reach a whole    *)
(* number it should stay just below, and gain one.                           *)
ASSUME RatioErrorAssumption ==
    \A p \in DOMAIN RatioError :
        /\ p \in Nat \X Nat \X Nat
        /\ 0 < p[3] /\ p[3] < p[2]
        /\ \/ RatioError[p] = 1
           \/ RatioError[p] = -1 /\ p[1] > 0 /\ (p[1] * p[2]) % p[3] = 0

VARIABLES
    status,         \* events.status
    eligible,       \* events.is_eligible
    optionTotal,    \* event_options.option_total_amount
    participants,   \* event_options.participant_count
    winner,         \* event_options.is_winner
    points,         \* users.points
    bets,           \* the rows of bets
    ledger,         \* the rows of point_history of each user, oldest first
    txn             \* the write set of the transaction open in each session

dbVars == <<status, eligible, optionTotal, participants, winner, points, bets, ledger>>
vars == <<dbVars, txn>>

-----------------------------------------------------------------------------
(* Types *)

BetStatus == {"PENDING", "WIN", "LOSE", "REFUNDED"}
PointReason == {"BET", "WIN", "REFUND"}
IsWinner == {"NULL", "TRUE", "FALSE"}

Bet == [id : BetIds, user : Users, event : Events, option : Options,
        amount : Amounts, status : BetStatus]

PointHistory == [bet : BetIds, change : Int, reason : PointReason, after : Nat]

(* UPDATE events SET status = to WHERE ... AND status IN from *)
StatusUpdate == [to : EventStatus, from : SUBSET EventStatus]

(* What a transaction writes.  points, ledger, betStatus, winner and status *)
(* are functions on the rows written; points and betStatus hold the new     *)
(* value of the column, staked the amount added to option_total_amount.     *)
NoRows == [x \in {} |-> {}]

NoWrites == [points |-> NoRows, ledger |-> NoRows, placed |-> {},
             betStatus |-> NoRows, staked |-> NoRows, winner |-> NoRows,
             status |-> NoRows, eligible |-> {}]

RowsOf(f, S, T) == DOMAIN f \subseteq S /\ \A x \in DOMAIN f : f[x] \in T

WriteSetOK(w) ==
    /\ DOMAIN w = DOMAIN NoWrites
    /\ RowsOf(w.points, Users, Nat)
    /\ RowsOf(w.ledger, Users, PointHistory)
    /\ w.placed \subseteq Bet
    /\ RowsOf(w.betStatus, BetIds, BetStatus)
    /\ RowsOf(w.staked, Options, Amounts)
    /\ RowsOf(w.winner, Options, IsWinner)
    /\ RowsOf(w.status, Events, StatusUpdate)
    /\ w.eligible \subseteq Events

(* Every column holds a value of its type, in the tables and in every write *)
(* set in flight.  points is a natural number: the CHECK points >= 0 of     *)
(* users is no guard of Commit, so this also says that it never has to fire. *)
TypeOK ==
    /\ status \in [Events -> EventStatus]
    /\ eligible \in [Events -> BOOLEAN]
    /\ optionTotal \in [Options -> Nat]
    /\ participants \in [Options -> Nat]
    /\ winner \in [Options -> IsWinner]
    /\ points \in [Users -> Nat]
    /\ bets \subseteq Bet
    /\ ledger \in [Users -> Seq(PointHistory)]
    /\ DOMAIN txn = Sessions
    /\ \A s \in Sessions : WriteSetOK(txn[s])

-----------------------------------------------------------------------------
(* The database *)

Overwrite(f, rows) == [x \in DOMAIN f |-> IF x \in DOMAIN rows THEN rows[x] ELSE f[x]]

InFlight(s) == txn[s] # NoWrites

OptionsOf(e) == {o \in Options : EventOf[o] = e}
BetsOn(e) == {b \in bets : b.event = e}

UsedBetIds == {b.id : b \in bets} \cup UNION {{b.id : b \in txn[s].placed} : s \in Sessions}

(* str(uuid.uuid4()): an id no other row has or will get. *)
FreshBetId == CHOOSE id \in BetIds : id \notin UsedBetIds

(* The handler of a request in session s has run and left the write set w. *)
Begin(s, w) ==
    /\ ~InFlight(s)
    /\ txn' = [txn EXCEPT ![s] = w]
    /\ UNCHANGED dbVars

-----------------------------------------------------------------------------
(* POST /events/{event_id}/bets *)

(* BetServices.create_bet: the points are read from the snapshot and        *)
(* written back as an absolute value, the option's statistics are           *)
(* incremented in the database.                                             *)
CreateBetWrites(id, u, e, o, a) ==
    LET newPoints == points[u] - a IN
    [NoWrites EXCEPT
            !.placed = {[id |-> id, user |-> u, event |-> e, option |-> o,
                         amount |-> a, status |-> "PENDING"]},
            !.points = [x \in {u} |-> newPoints],
            !.ledger = [x \in {u} |-> [bet |-> id, change |-> -a,
                                       reason |-> "BET", after |-> newPoints]],
            !.staked = [x \in {o} |-> a]]

(* Faulty: the balance is not compared with the amount. *)
CreateBetOnCredit(s, u, e, o, a) ==
    /\ status[e] = "OPEN"
    /\ EventOf[o] = e
    /\ ~ \E b \in BetsOn(e) : b.user = u
    /\ BetIds # UsedBetIds
    /\ Begin(s, CreateBetWrites(FreshBetId, u, e, o, a))

(* Faulty: the event's status is not looked at. *)
CreateBetAnyStatus(s, u, e, o, a) ==
    /\ EventOf[o] = e
    /\ ~ \E b \in BetsOn(e) : b.user = u
    /\ points[u] >= a
    /\ BetIds # UsedBetIds
    /\ Begin(s, CreateBetWrites(FreshBetId, u, e, o, a))

CreateBet(s, u, e, o, a) ==
    /\ status[e] = "OPEN"
    /\ EventOf[o] = e
    /\ ~ \E b \in BetsOn(e) : b.user = u
    /\ points[u] >= a
    /\ BetIds # UsedBetIds
    /\ Begin(s, CreateBetWrites(FreshBetId, u, e, o, a))

-----------------------------------------------------------------------------
(* SettlementEngine *)

(* Faulty: points_after is taken before the points are added. *)
CreditOldBalance(B, sum, reason) ==
    LET bet == [u \in {b.user : b \in B} |-> CHOOSE b \in B : b.user = u]
    IN  [NoWrites EXCEPT
            !.points = [u \in DOMAIN bet |-> points[u] + sum[bet[u]]],
            !.ledger = [u \in DOMAIN bet |-> [bet |-> bet[u].id, change |-> sum[bet[u]],
                                              reason |-> reason, after |-> points[u]]]]

(* user.points += sum[bet] and a PointHistory row, for the user of each bet *)
(* of B.  A user has one bet on an event (uq_user_event_bet).               *)
Credit(B, sum, reason) ==
    LET owners == {b.user : b \in B}
        bet == [u \in owners |-> CHOOSE b \in B : b.user = u]
        after == [u \in owners |-> points[u] + sum[bet[u]]]
    IN  [NoWrites EXCEPT
            !.points = after,
            !.ledger = [u \in owners |-> [bet |-> bet[u].id, change |-> sum[bet[u]],
                                          reason |-> reason, after |-> after[u]]]]

(* bet.status = new[bet]: the ORM sends an UPDATE only where the attribute *)
(* differs from the value it loaded.                                       *)
Marked(B, new) ==
    LET dirty == {b \in B : b.status # new[b]}
    IN  [id \in {b.id : b \in dirty} |-> new[CHOOSE b \in dirty : b.id = id]]

(* Faulty: the refund leaves no PointHistory row. *)
ProcessRefundNoHistory(B) ==
    [Credit(B, [b \in B |-> b.amount], "REFUND") EXCEPT
        !.ledger = NoRows,
        !.betStatus = Marked(B, [b \in B |-> "REFUNDED"])]

ProcessRefund(B) ==
    [Credit(B, [b \in B |-> b.amount], "REFUND") EXCEPT
        !.betStatus = Marked(B, [b \in B |-> "REFUNDED"])]

(* Faulty: the pools are exchanged; the payout is rounded up. *)
PayoutOfSwappedPools(amount, totalPool, winningPool) == (amount * winningPool) \div totalPool
PayoutRoundedUp(amount, totalPool, winningPool) == -((-amount * totalPool) \div winningPool)

(* int(bet_amount * (total_pool / winning_pool)) *)
CalculatePayout(amount, totalPool, winningPool) ==
    LET error == IF <<amount, totalPool, winningPool>> \in DOMAIN RatioError
                 THEN RatioError[<<amount, totalPool, winningPool>>] ELSE 0
    IN  (amount * totalPool) \div winningPool + error

ProcessPayout(B, winners, totalPool, winningPool) ==
    LET hits == {b \in B : b.option \in winners}
    IN  [Credit(hits,
                [b \in hits |-> CalculatePayout(b.amount, totalPool, winningPool)],
                "WIN") EXCEPT
            !.betStatus = Marked(B, [b \in B |-> IF b \in hits THEN "WIN" ELSE "LOSE"])]

Verdict(o, winners) == IF o \in winners THEN "TRUE" ELSE "FALSE"

(* Faulty: with nobody to pay, the options get no verdict. *)
RunSettleNoVerdicts(e, winners) ==
    LET totalPool == SumOf(OptionsOf(e), optionTotal)
        winningPool == SumOf(OptionsOf(e) \cap winners, optionTotal)
        settled == [x \in {e} |-> [to |-> "SETTLED", from |-> EventStatus]]
    IN  IF winningPool = 0
        THEN [ProcessRefund(BetsOn(e)) EXCEPT !.status = settled]
        ELSE [ProcessPayout(BetsOn(e), winners, totalPool, winningPool) EXCEPT
                !.winner = [o \in OptionsOf(e) |-> Verdict(o, winners)],
                !.status = settled]

RunSettle(e, winners) ==
    LET totalPool == SumOf(OptionsOf(e), optionTotal)
        winningPool == SumOf(OptionsOf(e) \cap winners, optionTotal)
        paid == IF winningPool = 0
                THEN ProcessRefund(BetsOn(e))
                ELSE ProcessPayout(BetsOn(e), winners, totalPool, winningPool)
        dirty == {o \in OptionsOf(e) : winner[o] # Verdict(o, winners)}
    IN  [paid EXCEPT
            !.winner = [o \in dirty |-> Verdict(o, winners)],
            !.status = [x \in {e} |-> [to |-> "SETTLED", from |-> EventStatus]]]

(* Faulty: an event is settled while bets are still taken. *)
SettleOpenEvent(s, e, winners) ==
    /\ status[e] \in {"OPEN", "CLOSED"}
    /\ winners \subseteq OptionsOf(e)
    /\ Begin(s, RunSettle(e, winners))

(* POST /events/{event_id}/settle *)
SettleEvent(s, e, winners) ==
    /\ status[e] = "CLOSED"
    /\ winners \subseteq OptionsOf(e)
    /\ Begin(s, RunSettle(e, winners))

-----------------------------------------------------------------------------
(* PATCH /events/{event_id}/status *)

(* Faulty: cancelling an event writes its status only. *)
StatusOnlyWrites(e, new) ==
    [NoWrites EXCEPT !.status = [x \in {e} |-> [to |-> new, from |-> EventStatus]]]

UpdateEventStatusWrites(e, new) ==
    [(IF new = "CANCELLED" THEN ProcessRefund(BetsOn(e)) ELSE NoWrites) EXCEPT
        !.status = [x \in {e} |-> [to |-> new, from |-> EventStatus]]]

UpdateEventStatus(s, e, new) ==
    /\ new \in AllowedTransition(status[e])
    /\ Begin(s, UpdateEventStatusWrites(e, new))

-----------------------------------------------------------------------------
(* The scheduler *)

(* Faulty: UPDATE without the expected status. *)
AutoUnconditional(s, e, target, expected) ==
    LET to == IF target = "OPEN" /\ expected = "READY" /\ ~eligible[e]
              THEN "CANCELLED" ELSE target
    IN  Begin(s, [NoWrites EXCEPT
                    !.status = [x \in {e} |-> [to |-> to, from |-> EventStatus]]])

(* update_event_status_auto: UPDATE ... WHERE status = expected.  An event  *)
(* that is due to open but was not selected is cancelled instead.           *)
UpdateEventStatusAuto(s, e, target, expected) ==
    LET to == IF target = "OPEN" /\ expected = "READY" /\ ~eligible[e]
              THEN "CANCELLED" ELSE target
    IN  Begin(s, [NoWrites EXCEPT
                    !.status = [x \in {e} |-> [to |-> to, from |-> {expected}]]])

AutoOpen(s, e) == UpdateEventStatusAuto(s, e, "OPEN", "READY")
AutoClose(s, e) == UpdateEventStatusAuto(s, e, "CLOSED", "OPEN")

(* process_event_selection: the likes are not modelled, so any of the READY *)
(* events not yet eligible may be selected.                                 *)
ProcessEventSelection(s, selected) ==
    /\ selected # {}
    /\ \A e \in selected : status[e] = "READY" /\ ~eligible[e]
    /\ Begin(s, [NoWrites EXCEPT !.eligible = selected])

-----------------------------------------------------------------------------
(* The end of a transaction *)

(* Faulty: the table has no unique key. *)
NoUniqueKey(placed) == placed \subseteq placed

(* uq_user_event_bet *)
UniqueBets(placed) ==
    \A b \in placed, c \in bets : ~ (b.user = c.user /\ b.event = c.event)

NewBetStatus(b, w) == IF b.id \in DOMAIN w.betStatus THEN w.betStatus[b.id] ELSE b.status

Apply(w) ==
    /\ points' = Overwrite(points, w.points)
    /\ ledger' = [u \in Users |-> IF u \in DOMAIN w.ledger
                                  THEN Append(ledger[u], w.ledger[u]) ELSE ledger[u]]
    /\ bets' = {[b EXCEPT !.status = NewBetStatus(b, w)] : b \in bets} \cup w.placed
    /\ optionTotal' = [o \in Options |-> IF o \in DOMAIN w.staked
                                         THEN optionTotal[o] + w.staked[o] ELSE optionTotal[o]]
    /\ participants' = [o \in Options |-> IF o \in DOMAIN w.staked
                                          THEN participants[o] + 1 ELSE participants[o]]
    /\ winner' = Overwrite(winner, w.winner)
    /\ status' = [e \in Events |-> IF e \in DOMAIN w.status /\ status[e] \in w.status[e].from
                                   THEN w.status[e].to ELSE status[e]]
    /\ eligible' = [e \in Events |-> eligible[e] \/ e \in w.eligible]

Commit(s) ==
    /\ InFlight(s)
    /\ UniqueBets(txn[s].placed)
    /\ Apply(txn[s])
    /\ txn' = [txn EXCEPT ![s] = NoWrites]

(* Faulty: the statistics were committed apart and stay. *)
AbortKeepsStats(s) ==
    /\ InFlight(s)
    /\ optionTotal' = [o \in Options |-> IF o \in DOMAIN txn[s].staked
                                         THEN optionTotal[o] + txn[s].staked[o] ELSE optionTotal[o]]
    /\ txn' = [txn EXCEPT ![s] = NoWrites]
    /\ UNCHANGED <<status, eligible, participants, winner, points, bets, ledger>>

(* A deadlock, a constraint violation, an exception or a crash. *)
Abort(s) ==
    /\ InFlight(s)
    /\ txn' = [txn EXCEPT ![s] = NoWrites]
    /\ UNCHANGED dbVars

-----------------------------------------------------------------------------
Init ==
    /\ status = [e \in Events |-> "READY"]
    /\ eligible = [e \in Events |-> FALSE]
    /\ optionTotal = [o \in Options |-> 0]
    /\ participants = [o \in Options |-> 0]
    /\ winner = [o \in Options |-> "NULL"]
    /\ points = [u \in Users |-> InitialPoints]
    /\ bets = {}
    /\ ledger = [u \in Users |-> <<>>]
    /\ txn = [s \in Sessions |-> NoWrites]

Next ==
    \E s \in Sessions :
        \/ \E u \in Users, e \in Events, o \in Options, a \in Amounts : CreateBet(s, u, e, o, a)
        \/ \E e \in Events, winners \in SUBSET Options : SettleEvent(s, e, winners)
        \/ \E e \in Events, new \in EventStatus : UpdateEventStatus(s, e, new)
        \/ \E e \in Events : AutoOpen(s, e)
        \/ \E e \in Events : AutoClose(s, e)
        \/ \E selected \in SUBSET Events : ProcessEventSelection(s, selected)
        \/ Commit(s)
        \/ Abort(s)

Spec == Init /\ [][Next]_vars

-----------------------------------------------------------------------------
(* Safety whatever the interleaving of the requests *)

(* No user has two bets on one event: create_bet's check of the snapshot    *)
(* does not ensure it, the unique key does, whichever requests race.        *)
OneBetPerUserAndEvent ==
    \A b, c \in bets : (b.user = c.user /\ b.event = c.event) => b = c

BetsOf(o) == {b \in bets : b.option = o}

(* The statistics columns are the sum and the number of the option's bets.  *)
(* update_option_stats increments them in the database, so that, unlike the *)
(* points, they survive concurrent bets, aborts and late commits.           *)
OptionStatsTally ==
    \A o \in Options :
        /\ optionTotal[o] = SumOf(BetsOf(o), [b \in BetsOf(o) |-> b.amount])
        /\ participants[o] = Cardinality(BetsOf(o))

(* An event that never opened has no bet, and none is on its way: the       *)
(* scheduler's cancellation of an event that was not selected, which        *)
(* refunds nobody, has nobody to refund.                                    *)
UnopenedEventsHaveNoBets ==
    \A e \in Events : status[e] = "READY" =>
        /\ BetsOn(e) = {}
        /\ \A s \in Sessions : \A b \in txn[s].placed : b.event # e

(* A settled event has a verdict on each of its options: the verdicts and   *)
(* the status are written by one transaction and no other clears them.      *)
SettledEventsAreDecided ==
    \A e \in Events : status[e] = "SETTLED" =>
        \A o \in OptionsOf(e) : winner[o] # "NULL"

Rows(b, reason) ==
    {i \in DOMAIN ledger[b.user] :
        ledger[b.user][i].bet = b.id /\ ledger[b.user][i].reason = reason}

(* The history explains every bet: one BET row takes its amount, and a bet  *)
(* that ended WIN or REFUNDED has a row of that reason.                     *)
HistoryExplainsBets ==
    \A b \in bets :
        /\ \E i \in Rows(b, "BET") : /\ Rows(b, "BET") = {i}
                                      /\ ledger[b.user][i].change = -b.amount
        /\ b.status = "WIN" => Rows(b, "WIN") # {}
        /\ b.status = "REFUNDED" => Rows(b, "REFUND") # {}

(* The balance is the points_after of the newest history row: even a lost   *)
(* update leaves the two in agreement, since one transaction writes both.   *)
BalanceIsNewestRow ==
    \A u \in Users :
        points[u] = IF ledger[u] = <<>> THEN InitialPoints
                    ELSE ledger[u][Len(ledger[u])].after

(* A hit never pays less than its stake, from whatever snapshot the pools   *)
(* were read, and a refund pays exactly the stake.                          *)
CreditsCoverStakes ==
    \A b \in bets :
        /\ \A i \in Rows(b, "WIN") : ledger[b.user][i].change >= b.amount
        /\ \A i \in Rows(b, "REFUND") : ledger[b.user][i].change = b.amount

-----------------------------------------------------------------------------
(* Safety of requests that do not overlap (one session).  None of these     *)
(* holds with two: of LedgerChain, which the repository's documents state,  *)
(* the run lost_update shows it.                                            *)

Final == {"SETTLED", "CANCELLED"}

(* Each history row continues from the one before it: points_after is the   *)
(* previous points_after plus change_amount, so no update was lost.         *)
LedgerChain ==
    \A u \in Users : \A i \in DOMAIN ledger[u] :
        ledger[u][i].after = ledger[u][i].change
            + (IF i = 1 THEN InitialPoints ELSE ledger[u][i - 1].after)

(* A bet is PENDING exactly while its event is not final: cancelling and    *)
(* settling reach every bet, and no bet arrives after them.                 *)
PendingUntilFinal ==
    \A b \in bets : b.status = "PENDING" <=> status[b.event] \notin Final

(* The outcome of each bet is what the end of its event says.               *)
BetsFollowVerdict ==
    \A b \in bets :
        /\ status[b.event] = "CANCELLED" => b.status = "REFUNDED"
        /\ status[b.event] = "SETTLED" =>
              LET hits == {c \in BetsOn(b.event) : winner[c.option] = "TRUE"}
              IN  b.status = IF hits = {} THEN "REFUNDED"
                             ELSE IF b \in hits THEN "WIN" ELSE "LOSE"

Pending == {b \in bets : b.status = "PENDING"}
Hits == {b \in bets : b.status = "WIN"}

(* Points are neither created nor destroyed, except that rounding a payout  *)
(* down loses at most one point (a whole one only where the float ratio     *)
(* falls short).                                                            *)
PointsAreConserved ==
    LET issued == Cardinality(Users) * InitialPoints
        held == SumOf(Users, points) + SumOf(Pending, [b \in Pending |-> b.amount])
    IN  /\ held <= issued
        /\ issued - held <= Cardinality(Hits)

(* "최종 상태": a settled or cancelled event stays so. *)
FinalStatusIsFinal ==
    [][\A e \in Events : status[e] \in Final => status'[e] = status[e]]_vars

=============================================================================
