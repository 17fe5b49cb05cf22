------------------------- MODULE BettingInvariant -------------------------
(***************************************************************************)
(* The inductive invariant behind the safety properties of Betting.  Each   *)
(* property speaks of the committed rows; to be kept by every commit, it    *)
(* needs to know what the write sets in flight contain, which were computed *)
(* from a database that has changed since.                                  *)
(***************************************************************************)
EXTENDS Betting

(* Bet ids are unique over the table, and a bet in flight has an id that no *)
(* row and no other session has.                                            *)
UniqueIds ==
    /\ \A b, c \in bets : b.id = c.id => b = c
    /\ \A s \in Sessions : \A b \in txn[s].placed :
          /\ \A c \in bets : b.id # c.id
          /\ \A t \in Sessions : \A c \in txn[t].placed : b.id = c.id => s = t

(* What a history row r of user u says of the bet b it belongs to. *)
RowMatches(r, u, b) ==
    /\ r.bet = b.id
    /\ u = b.user
    /\ r.reason = "BET" => r.change = -b.amount
    /\ r.reason = "WIN" => r.change >= b.amount
    /\ r.reason = "REFUND" => r.change = b.amount

(* Every history row belongs to a bet of its user. *)
RowsBelongToBets ==
    \A u \in Users : \A i \in DOMAIN ledger[u] : \E b \in bets : RowMatches(ledger[u][i], u, b)

HasRow(w, b, reason) ==
    /\ b.user \in DOMAIN w.ledger
    /\ w.ledger[b.user].bet = b.id
    /\ w.ledger[b.user].reason = reason

(* What create_bet leaves in flight: one bet on an event that has opened,   *)
(* its BET row and its stake.                                               *)
PlacesBet(w) ==
    /\ \A b, c \in w.placed : b = c
    /\ \A b \in w.placed :
          /\ b.status = "PENDING"
          /\ status[b.event] # "READY"
          /\ HasRow(w, b, "BET")
          /\ b.option \in DOMAIN w.staked
          /\ w.staked[b.option] = b.amount
    /\ \A o \in DOMAIN w.staked : \E b \in w.placed : b.option = o

(* The rows in flight belong to bets: a BET row to the bet in flight, the   *)
(* others to a committed one.  The balance written is the row's.            *)
WritesHistory(w) ==
    /\ DOMAIN w.points = DOMAIN w.ledger
    /\ \A u \in DOMAIN w.ledger :
          /\ w.points[u] = w.ledger[u].after
          /\ IF w.ledger[u].reason = "BET"
             THEN \E b \in w.placed : RowMatches(w.ledger[u], u, b)
             ELSE \E b \in bets : RowMatches(w.ledger[u], u, b)

(* A committed bet that is about to become WIN or REFUNDED has its row in   *)
(* the same write set; no bet in flight is marked.                          *)
MarksBets(w) ==
    /\ \A id \in DOMAIN w.betStatus : \E b \in bets : b.id = id
    /\ \A b \in bets : b.id \in DOMAIN w.betStatus =>
          /\ w.betStatus[b.id] = "WIN" => HasRow(w, b, "WIN")
          /\ w.betStatus[b.id] = "REFUNDED" => HasRow(w, b, "REFUND")

EndsEvent(w) ==
    /\ \A e \in DOMAIN w.status :
          /\ w.status[e].to # "READY"
          /\ w.status[e].to = "SETTLED" =>
                \A o \in OptionsOf(e) : o \in DOMAIN w.winner \/ winner[o] # "NULL"
    /\ \A o \in DOMAIN w.winner : w.winner[o] # "NULL"

InFlightOK ==
    \A s \in Sessions :
        PlacesBet(txn[s]) /\ WritesHistory(txn[s]) /\ MarksBets(txn[s]) /\ EndsEvent(txn[s])

IInv ==
    /\ TypeOK
    /\ UniqueIds
    /\ RowsBelongToBets
    /\ InFlightOK
    /\ OneBetPerUserAndEvent
    /\ UnopenedEventsHaveNoBets
    /\ SettledEventsAreDecided
    /\ HistoryExplainsBets
    /\ BalanceIsNewestRow

-----------------------------------------------------------------------------
(* Requests that do not overlap *)

(* At most one request has run its handler and not yet ended. *)
Serial == \A s, t \in Sessions : InFlight(s) /\ InFlight(t) => s = t

(* The write sets that a handler would compute on the database as it is. *)
PlacesNow(w) ==
    \E id \in BetIds, u \in Users, e \in Events, o \in Options, a \in Amounts :
        /\ status[e] = "OPEN" /\ EventOf[o] = e
        /\ \A b \in BetsOn(e) : b.user # u
        /\ \A b \in bets : b.id # id
        /\ points[u] >= a
        /\ w = CreateBetWrites(id, u, e, o, a)

SettlesNow(w) ==
    \E e \in Events, winners \in SUBSET Options :
        /\ status[e] = "CLOSED"
        /\ winners \subseteq OptionsOf(e)
        /\ w = RunSettle(e, winners)

UpdatesNow(w) ==
    \E e \in Events, new \in EventStatus :
        /\ new \in AllowedTransition(status[e])
        /\ w = UpdateEventStatusWrites(e, new)

(* The scheduler's writes carry their own condition, and need no other. *)
Scheduled(w) ==
    \/ \E e \in Events,
          move \in {<<"READY", "OPEN">>, <<"READY", "CANCELLED">>, <<"OPEN", "CLOSED">>} :
          w = [NoWrites EXCEPT
                  !.status = [x \in {e} |-> [to |-> move[2], from |-> {move[1]}]]]
    \/ \E selected \in SUBSET Events : w = [NoWrites EXCEPT !.eligible = selected]

UpToDate(w) ==
    w = NoWrites \/ PlacesNow(w) \/ SettlesNow(w) \/ UpdatesNow(w) \/ Scheduled(w)

OptionsFitEvents == \A b \in bets : EventOf[b.option] = b.event

(* option_total_amount of the option and of its bets, for finitely many bets. *)
Tally == IsFiniteSet(bets) /\ OptionStatsTally

(* The float ratio falls short of the exact one, if it misses it (pools     *)
(* under 2^26 points).                                                      *)
NoGain == \A p \in DOMAIN RatioError : RatioError[p] = -1

(* What every request finds and leaves when requests do not overlap. *)
SerialInv ==
    /\ IInv
    /\ Tally
    /\ OptionsFitEvents
    /\ LedgerChain
    /\ PendingUntilFinal
    /\ BetsFollowVerdict
    /\ \A s \in Sessions : UpToDate(txn[s])
=============================================================================
