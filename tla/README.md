# SNU Toto: specification

TLA+ modules, TLC configurations and TLAPS proofs for the server in `src/` (FastAPI,
SQLAlchemy on MySQL/InnoDB, Redis, APScheduler), a prediction game: users bet points on the
options of an event, administrators settle it, and a scheduler opens and closes it.

Paths below are relative to `src/snu_toto/app/`.

## 1. The system

One uvicorn process (`Dockerfile`, `docker-compose.yaml`, `restart: always`) serves all requests
and runs the three schedulers that `main.py` starts. Every `await` may let another request run.

| Component | State it keeps | Operations | What must be right |
|---|---|---|---|
| Betting (`bets/services.py`, `bets/repositories.py`) | rows of `bets`, `event_options` statistics | `create_bet` | one bet per user and event, no bet after closing, statistics that count every bet once |
| Settlement engine (`bets/settlement/`) | bet outcomes, `is_winner` | `run_settle`, `run_cancel`, `calculate_payout` | outcomes follow the verdict, the pool is paid out, nobody is paid twice |
| Point ledger (`users/models.py`) | `users.points`, `point_history` | every bet, payout, refund | the balance is explained by the history, no point is lost or made |
| Event lifecycle (`events/services.py`) | `events.status`, `is_eligible`, `start_at`, `end_at` | create, update, settle, select | READY to OPEN to CLOSED to SETTLED, or CANCELLED; final states are final |
| Event scheduler (`events/schedular.py`) | sorted sets `event:sched:open`, `event:sched:close`, keys `event:batch:done:*` | a tick each second | every event opens and closes when due, even if a tick fails |
| Likes (`likes/`) | `event_likes`, `events.like_count` | like, unlike | the count is off the number of likes by overlaps only; enough likes lead to selection |
| Odds broadcast (`events/websocket.py`, `events/router.py`) | `ConnectionManager.active_connections` | connect, disconnect, broadcast | subscribers see the odds of the committed bets; sockets leave the set when their clients do |
| Event listing (`events/services.py`, `events/repositories.py`) | none, the cursor is with the client | pages by status and time | which events a walk may skip or repeat, and when |
| Accounts (`users/`) | rows of `users`, `user_withdrawal` | signup, withdraw, pages of bets and points, sweep of unverified accounts | one account per address, the 30-day cooldown, only idle unverified accounts are swept |
| Authentication (`auth/`, `core/security.py`) | tokens; Redis `verify:code:*`, `mail_limit:*`, `blacklist:*` | login, refresh, verify, logout | tokens and codes last as long as stated |
| Administration (`admin/`) | `suspended_until`, `role` | suspend, change roles, list users and bets | a suspension holds until it ends, somebody can still administer |
| Ranking cache (`users/scheduler.py`) | Redis `ranking:*`, `user_ranking:*` | rewrite at start-up and every hour, two readers | the two answers agree, are as recent as stated, and come back |
| Comments (`comments/`) | rows of `comments` | write, edit, delete, pages by time | no comment skipped or shown twice |
| Images, configuration, test data | S3 objects, settings | I/O | nothing that interacts |

How they interact:

- **Through the database.** A request has one session (`core/database.py`). Its first SELECT, in
  `get_current_user`, begins a transaction; at InnoDB's default REPEATABLE READ all its plain
  SELECTs read the snapshot of that moment. Writes are applied to the current rows under row locks
  held to the commit, which `get_db_session` performs after the handler has returned. Bets,
  settlement and withdrawal all write `users`; bets, settlement and scheduler all write `events`
  or its options.
- **Through Redis.** Commands take effect at once and are not undone when the session rolls back.
- **Through the scheduler.** It runs in the same event loop, with a session of its own per tick.
- **Through the web socket manager.** `create_bet`'s handler broadcasts inside its transaction.

What is hard: stale snapshots (check then write), absolute values written back
(`points = new_points`), Redis effects that outlive a rollback, ticks that fail half way or are cut
by a restart, jobs that select and then delete, wall-clock times of one zone read as another, and
payouts computed in floating point. `PROJECT.json` lists each at its line under `hazards`.

## 2. Modules

| Module | Models | Used by |
|---|---|---|
| `EventTransitions` | `EventStatus`, the `allowed_map` of `update_event_status` | Betting, EventScheduler, AtomicBetting |
| `PointSums` | sums of points, each the number of a set's units of points | Betting, AtomicBetting |
| `Betting` | bets, settlement, status changes as overlapping transactions | |
| `AtomicBetting` | what betting promises: each operation in one step on the current state | |
| `BettingRefinement` | the mapping from Betting to AtomicBetting (forgets ids, history, sessions) | MCBetting |
| `BettingInvariant` | the inductive invariants `IInv` and `SerialInv` | BettingProofs |
| `BettingWithdrawal` | Betting's requests together with withdrawals, which set points to zero | MCBettingWithdrawal |
| `EventScheduler` | the scheduler's tick step by step, creation, likes, status requests, time | |
| `EventLikes` | rows of likes and the count, under overlapping requests | |
| `Listings` | the six listings with cursor or offset, while their rows change | |
| `Accounts` | signup, verification, login, refresh, withdrawal, the sweep, time | |
| `AuthSessions` | tokens, logout and its blacklist, suspension, roles, withdrawal | |
| `RankingCache` | the ranking batch, its two jobs, the keys' lives, the two readers | |
| `OddsBroadcast` | the connection manager, the sockets' handlers, the broadcast within a bet | |
| `BettingProofs` | theorems about sums, Betting, requests that do not overlap, AtomicBetting, BettingWithdrawal | |
| `EventSchedulerProofs`, `EventLikesProofs`, `AccountsProofs`, `AuthSessionsProofs`, `RankingCacheProofs`, `ListingsProofs`, `OddsBroadcastProofs` | theorems about the others | |
| `MCBetting`, `MCBettingWithdrawal`, `MCEventScheduler`, `MCEventLikes`, `MCListings`, `MCAccounts`, `MCAuthSessions`, `MCRankingCache`, `MCOddsBroadcast` | instances for TLC | |

The components meet in columns and keys, and each module that writes one says so: `status` in
Betting, EventScheduler and Listings, `like_count` in EventLikes and EventScheduler,
`suspended_until` in AuthSessions and Listings, withdrawal in Accounts, AuthSessions,
Listings and BettingWithdrawal, the one that has it write `points`.

### Betting

`status`, `eligible`, `optionTotal`, `participants`, `winner`, `points`, `bets`, `ledger` are the
columns and tables; `ledger[u]` is the user's `point_history` in order of commit. `txn[s]` is the
write set of the transaction open in session `s`.

A request is two steps. The handler's action (`CreateBet`, `SettleEvent`, `UpdateEventStatus`,
`AutoOpen`, `AutoClose`, `ProcessEventSelection`) evaluates the guards on the database as it is and
computes the write set; `Commit` applies it to the database as it is then, or `Abort` drops it.
Nothing is lost by taking the handler as one step, since all its plain reads see one snapshot, and
nothing by applying the writes together, since row locks make the writes of two transactions to one
row take effect in the order of the commits. Locks that InnoDB takes for foreign keys only add
deadlocks, which `Abort` covers. Which writes are relative and which absolute is kept:
`option_total_amount + amount` is added at the commit, `points` is overwritten with the value
computed from the snapshot. The scheduler's updates carry the statuses they are conditional on,
an administrator's are unconditional. A rejected request changes nothing and has no action.

`CalculatePayout` is `int(amount * (total / winning))`. The ratio is a float: where the product
misses the exact floor is the constant `RatioError`. Up to total 14 there is no error; the smallest
is `int(11 * (15 / 11)) = 14`. Errors upwards need pools of about 2^26. `RatioErrorAssumption`
states the two kinds, no error for equal pools.

### BettingWithdrawal

`leaving[s]` is the account that the withdrawal in session `s` is about; `since[u]` stands for
`is_deleted` and remembers how long the history was at the withdrawal. `Withdraw` leaves the write set
`points = 0` (nothing, if the handler read zero), `CommitWithdrawal` applies it without a history row.
Betting's requests are its own actions (`BeginBetting`, `CommitBetting`, `AbortBetting`); the
scheduler's, which write no points, are left out. `overlooked` and `overwritten` are history
variables: whose points have been committed behind the back of a request, and whose have been written
by such a request.

### EventScheduler

Every `await` of `auto_update_event_status` is an action, in the order of the code: the batch key,
the selection, `zrangebyscore` and for each event the update and the ZREM, for opening and closing,
the commit. Redis changes at once; database updates wait in `wrote` and `chosen` for `CommitTick`,
except a close update that finds the session outside a transaction, which commits by itself
(`update_event_status_auto` asks `in_transaction`). `FailTick` may happen at any step: an
exception or a restart. `creating` is the request that adds the schedule entries before its row is
committed, `admin` the status change an administrator has asked for.
The likes here do not overlap: EventLikes has what overlaps do to the count.

Time is in minutes. The scheduler wakes every second and a creation must be 59 minutes before the
start (`events/schemas.py:46-51`), so the clock waits for a tick in this minute and for requests
that are half done.

### Accounts

`users` has, of each row, the address, `is_snu_verified`, `created_at` and `last_login_at`;
`withdrawals` is `user_withdrawal`; `code` and `limit` hold the expiry of the Redis keys; `issued`
the time of the latest token. A request reads at its first action and writes at its last
(`BeginSignup`/`CommitSignup`, `BeginWithdraw`/`CommitWithdraw`); the Redis commands of the mail
and of the confirmation are actions of their own (`CheckLimit`, `SetLimit`, `SetCode`; `ReadCode`,
`SpendCode`, `Verify`). The sweep is `SelectGhosts` and `DeleteGhosts`, which deletes what was
selected whatever happened meanwhile, unless a foreign key of `user_withdrawal` forbids it.
`Lifespan + Skew` is how long a token is accepted: `get_kst_now()` has no zone, and the JWT
library encodes it as UTC, nine hours later.

Left out: nicknames and passwords, wrong codes (they change nothing), the record of a second
withdrawal (of a made-up address nobody looks up). Suspension and logout's blacklist are in
AuthSessions; without them this model accepts a few more requests than the code does.

### EventLikes

`likes` is the table, `likeCount` the column, `txn[s]` what a request has prepared: the row it
inserts or deletes by its id, and the count it computed from its snapshot. `Commit` writes both to
what is there then. An INSERT may fail on the unique key (`UniqueLike`); a DELETE of a row that is
gone succeeds, and the count is written all the same. `commits` and `overlooked` are for the
property: how many commits each snapshot had not seen.

### AuthSessions

`role`, `deleted` and `suspendedUntil` are columns of `users`; `issued` the pairs of tokens still
accepted somewhere; `blacklist` the keys of Redis with their ends. As in Betting a request reads
and checks at its beginning and writes at its `Commit`; the two blacklist entries of a logout or a
withdrawal come after, one at a time (`RevokeAccess`, `RevokeRefresh`), and `Abort` may come between.
`clears` is the automatic recovery in `_check_user_suspension`, which writes NULL because the
snapshot had an expired suspension. Redis forgets an entry at its end; `RemainingSeconds` is
`get_token_remaining_seconds` with its zone. `unaware[u]` are the requests whose snapshot is older
than the present suspension of `u`. Clients may hold any number of tokens, of which
`MaxPairs` are followed at a time.

### RankingCache

`update_all_rankings` is five steps (`Begin` with `updated_at`, `SelectUsers`, `Prepare` with the
TTL, `Execute`, or `FailBatch`), run by two jobs that may overlap. The pipeline is MULTI/EXEC, so
`Execute` is one step. Keys end with the hour in which their TTL was computed (`Lapse`, `Advance`).
The personal key of a user who is ranked no more is not rewritten. `MyRanking` and `TopUsers` are
the two readers with what they answer when there is no key.

### Listings

One module for the six listings, chosen in the initial state together with the filter: events and
comments by cursor, a user's bets, a user's points, an event's bets and the users by offset. `rows`
has for each id the status and the time that the order goes by. A page is one step; between pages
every operation that changes a listed row or adds one may happen, as the action named after it.
`AfterEventCursor` ranks the event of the cursor by its present status but by the time in the
cursor, as the code does. Rows of one time come in any order where the code orders by time alone.
`fixed`, `departed`, `arrived` and `cursorMoved` record what happened, for the properties; they
determine no step.

### OddsBroadcast

One event. `connections` is `active_connections[event_id]`, `handler` where each socket's
`websocket_endpoint` is, `request` the betting requests with their iteration of the set. A message
is the set of bets its odds count: the sender's snapshot and, in a broadcast, its own bet (the
session sees its own update on top of its snapshot). `send_json` may suspend the request when a
client is slow, so every send is a step; a Python set whose size has changed since makes its
iterator raise (`Raise`), which rolls back the bet; a set that changed but has its size again goes
on with its new members or not, and once somebody has joined it (`grown`) its table may have been
rebuilt, so that a member may be passed over or come twice. A deleted key orphans the set that is being iterated. Two bets on
one option wait for each other (`Locked`). `met` records which requests overlapped, for the
property. Each socket connects once; sockets and bets end, so the run may stop and does not check
deadlock.

## 3. Runs

| Run | Question | Instance |
|---|---|---|
| `betting_concurrent` | what holds however requests overlap | 2 users, 1 event, 2 options, 2 sessions, amounts 1 and 2 of 2 points |
| `betting_serial` | what holds when they do not overlap; payouts; refinement | 3 users, 1 event of 3 options, 1 session, amounts 1, 4, 11, 12 of 11 points, so that the float error occurs |
| `lost_update` (violation) | are points taken under a lock? | 1 user, 2 events, 2 sessions |
| `betting_withdrawal` | what becomes of the points of a withdrawn account? | 1 user, 2 events of 1 option, 2 sessions, 3 history rows |
| `scheduler_ticks` | do events stay scheduled, change only when due, and does everything due happen? | 1 event, 1 failed tick, selection every 2nd minute, clock to 4 |
| `likes_overlaps` | how far may the count drift? | 3 users, 1 event, 3 sessions, 5 commits |
| `listings_walks` | which rows may a walk miss or repeat? | 3 rows, 3 times, 2 changes, pages of one row, every listing and filter |
| `accounts_lifecycle` | addresses, withdrawals, cooldown, sweep | 2 ids, 1 address, 2 sessions, 1 failed sweep, clock to 4 |
| `sessions_suspension` | do suspensions hold, does an administrator remain? | 2 users of any roles, 2 sessions, terms 1 and 2, clock to 2 |
| `sessions_blacklist` (violation) | does a logout last as long as its tokens? | 1 user, 1 session, 1 tick of skew |
| `ranking_hours` | do the rankings agree, are they recent, do they return? | 2 users, list of 1, hours of 2 ticks, clock to 4, 1 fault |
| `odds_subscribers` | what odds may a subscriber lack, which sockets are kept? | 2 bets, 2 options, 2 sockets |

What the properties say:

- *However requests overlap* (`betting_concurrent`, and proved): one bet per user and event
  (`OneBetPerUserAndEvent`), statistics equal to the bets (`OptionStatsTally`), no bet on an event
  that has not opened, so that the scheduler's cancellation without refund owes nobody
  (`UnopenedEventsHaveNoBets`), a verdict on each option of a settled event
  (`SettledEventsAreDecided`), a history row for everything that happened to a bet
  (`HistoryExplainsBets`), a balance equal to the newest `points_after` (`BalanceIsNewestRow`), and
  payouts that cover the stake (`CreditsCoverStakes`).
- *One request at a time* (`betting_serial`): the history is a chain
  (`LedgerChain`), a bet is PENDING exactly until its event is final (`PendingUntilFinal`),
  final states are final (`FinalStatusIsFinal`), outcomes follow the verdict (`BetsFollowVerdict`),
  points are conserved up to the rounding of each payout (`PointsAreConserved`), and every commit is
  an operation of `AtomicBetting` (`AtomicSpec`). With two sessions `LedgerChain` fails
  (`lost_update`), and so do the next three: section 5.
- *Withdrawal among bets* (`betting_withdrawal`): points are the sum of the history, since the
  withdrawal if there was one, for every user whose points no request has overwritten
  (`PointsAddUpUnlessOverwritten`). So a withdrawal that overlaps nothing forfeits everything, later
  payouts of open bets count from zero, and a lost update is the only way points return or vanish.
  Even then the balance is the newest row's, or zero and forfeited (`NewestRowOrForfeited`).
- *Scheduler*: an event that waits to open or close has its entry, until a tick fails
  (`WaitingEventsAreScheduled`); the scheduler changes an event only at its time, in spite of old
  entries of events an administrator changed, and of failures (`ScheduledChangesAreDue`); a due event
  leaves READY and an ended one OPEN unless a tick failed (`DueEventsLeaveReadyUnlessFailed`,
  `EndedEventsCloseUnlessFailed`); due entries disappear, also those of creations rolled back
  (`DueEntriesAreRemoved`); enough likes are selected, even in the minute of the start
  (`LikedEventsAreSelected`).
- *Likes*: the count never has to be caught by its CHECK (`TypeOK`), and is off the number of rows by
  no more than the commits that requests overlooked (`CountDriftsByOverlapsOnly`). So it is exact when
  nothing overlaps, and a double unlike, a count left at zero or an abort adds no error of its own.
- *Listings*: a walk by cursor misses an event that kept its place only if the event of a cursor had
  moved down meanwhile, and repeats one only if it had moved up (`EventsOnceUnlessCursorMoved`);
  comments are shown once each, ties of `created_at` included (`CommentsOnce`); pages by offset miss and
  repeat only by rows that leave and enter ahead of them, or by ties, which the code leaves in no
  order (`PagesErrOnlyByTraffic`).
- *Accounts*: `OneAccountPerEmail` and `WithdrawalsAreRecorded` under overlapping requests and
  failures; `CooldownHolds` for every withdrawal the signup's snapshot could see;
  `SweptAccountsWereIdle`: the margin of one minute over the 15 minutes of a token is enough, except
  for a login between SELECT and DELETE; `GhostsAreRemoved`: six hours end every unverified account.
- *Sessions*: a request that commits for a suspended user, or that shortens a suspension (the
  automatic recovery of an older one among them), read its snapshot before the suspension was committed
  (`SuspensionsHoldUnlessOverlapped`); the last administrator who can act goes only by withdrawing, or
  by a colleague who could no longer act when his request committed (`SomeAdminRemains`).
- *Rankings*: who is on the list is told the rank, points and total of the list, and a stale personal
  key is of one who left since (`RanksAgree`); what changed before `updated_at` is in the list
  (`RankingsAreAsRecentAsStated`); the keys, which all end at the full hour, come back
  (`RankingsReturn`).
- *Odds*: a subscriber lacks a committed bet only if that bet overlapped the request that sent what
  it sees, or a socket joined the set during the bet's broadcast (`OddsLackOnlyOverlaps`), so otherwise
  a bet is committed only after all subscribers have its odds. A socket in the set without a handler is
  one whose `close` raised; the first broadcast that begins after its client has gone and gets to its
  end removes it, unless somebody joined meanwhile, whatever else leaves the set
  (`LeftoversLastUntilBroadcast`). Every client that goes away leaves the set by its handler or by a
  broadcast, or leaves such a socket, and that needs one more bet that is not rolled back
  (`GoneClientsAreForgotten`).

Every property of a passing run has a mutant in `PROJECT.json`: a plausible bug in a definition
that makes TLC find the property violated.

### Bounds

- *Betting.* Two sessions are enough for every race of two requests, two users and two options for
  every relation between bets of one pool; a third user and option are there where the payout of one
  bet depends on two others. `BetIds` has one id for each possible bet and each other session. Points
  of 2 with amounts 1 and 2 (11 with 1, 4, 11) reach an empty balance, and 12 of 11 is refused. Bets of one user on two events
  share his points only: `betting_withdrawal` and `lost_update` have them, and the proofs have any number.
- *Withdrawal.* One user suffices, since users share no row but the statistics of options, which no
  payout of a single bet depends on. Two events let a withdrawn account bet what an earlier bet
  returned. `MaxRows` (3) stops new betting requests of the instance once the user has a bet, its
  return and another bet; those in flight may still add rows.
- *Time.* The periods of the code are a few ticks in the same order (selection period < clock; limit
  on mails <= code <= token < token + 1 <= six hours <= token as accepted; access token < refresh
  token, suspensions as short as the one and as long as the other), and the clock runs past the
  longest that matters. `MaxFailures` and `MaxFaults` are 1: after a failure the job starts afresh, so a second adds no new kind of state.
- *Scheduler.* One event is enough for what a tick does to an event, since an event's row and
  entries are touched by steps on that event only; what events share (`targets`, `wrote`, one commit
  or failure for all of them) is covered for the two safety properties by the proofs, for any number
  of events. Competition for the places of a selection does not occur with one event:
  `LikedEventsAreSelected` excepts it.
- *Likes.* Three sessions let two requests overlook a third and each other; five commits are more than
  a like and an unlike of everyone who can be in flight.
- *Listings.* Pages of one row make every row the last of a page; three rows are a cursor, a row
  before it and one after; three times allow ties and a strict order of all; two changes let one undo
  the other. All exceptions in the three properties occur in this instance (a row missed, one
  repeated, by each cause).
- *Sessions.* Two users are an administrator and the one he acts on, or two administrators who act
  on each other; two sessions are the two requests of a race; `MaxPairs` pairs of tokens are accepted
  at a time.
- *Rankings.* Two users and a list of one give a user on the list and one off it; two hours are
  the hour of the start-up and the one that replaces its keys.
- *Odds.* Two sockets suffice for one to take the place of another during a broadcast, and two bets
  for one to overtake or be overtaken. `NamedInOrder` keeps, of behaviours that differ only in the names of
  sockets, bets and options, the one that uses the names in order. It restrains only `Connect` and `BeginBet`,
  which have no fairness, and no property tells the names apart, so nothing is lost for the liveness
  property either, where symmetry would not be sound.

`MaxRows`, `MaxLikes`, `MaxCommits`, `MaxChanges`, `MaxTime`, `MaxPairs`, `MaxFailures` and `MaxFaults` bound
counters and are in guards. Symmetry is used where the properties are safety only. Deadlock is
checked in the runs of Betting, BettingWithdrawal, EventScheduler and Accounts; in the others a run may stop at a bound
(commits, changes, time) or because all bets and sockets have ended.

### Fairness

Betting, BettingWithdrawal, EventLikes, AuthSessions and Listings state safety only and have none. Elsewhere:

- requests in flight end, if only by an abort: connections and statements have timeouts. This is weak
  fairness of each request (`FinishRequest(s)`, `FinishCreate(e)`, `FinishChange`), and of each handler
  and each bet in OddsBroadcast, which are tasks of one event loop;
- jobs run: APScheduler calls the tick every second, the sweep every minute, the ranking every hour.
  Weak fairness of `TickStep`, `Sweep`, `BatchStep(j)`. `FailTick`, `FailSweep`, `FailBatch`, `MissRun`
  and `Restart` are not part of what is fair and are bounded;
- time passes: weak fairness of `Advance`, strong in EventScheduler, where the clock waits for
  requests and they could otherwise hold it up by coming again and again: a real clock waits for none.

Requests of clients are never fair. In Accounts the sweep may run again in the last minute of the
clock, which stands for the minutes after it.

## 4. Proofs

All theorems hold for every value of the constants that the named assumptions allow.

**Betting, however requests overlap** (`BettingProofs`, part 1: `TypeCorrect` to `Statistics`) assumes
`OptionsAssumption` (finitely many options, each of one event), `AmountsAssumption` (amounts are
positive, `Field(gt=0)`) and `RatioErrorAssumption`. The properties are about committed rows, but a
commit writes what was computed from an older database. So `IInv` adds what the write sets in flight
contain: ids that no row has (`UniqueIds`), one bet on an opened event with its BET row and stake
(`PlacesBet`), history rows of existing bets (`WritesHistory`, `RowsBelongToBets`), marks together
with their rows (`MarksBets`), verdicts together with SETTLED (`EndsEvent`). Statuses never go back to
READY, bets are never deleted and verdicts never cleared, which is why these facts survive the commits
of others. The proof that `Next` keeps `IInv` has one lemma per handler (through `BeginKeepsIInv`: a
handler changes only its own write set) and, for `Commit`, one per conjunct. `PayoutIsNat` and
`PayoutCoversStake` are the arithmetic of the payout with the float's error.

`Statistics` and the points conserved need sums, and a sum is the cardinality of a set of units: the
lemmas `SumOf...` count units by unions and bijections. Where a sum has to be taken bet by bet
(`SumOfSums`), the induction is on subsets and stated for one set of sets at a time (`EverySubset`: a
collection of subsets of a finite set that has the empty set and is closed under adding an element has
them all), which needs no operator as a parameter.

**Betting, one request at a time** (part 2) has `Serial` as a hypothesis of the behaviour: no two
sessions have a write set at once. `Spec /\ []Serial` is the behaviour of requests that happen not to
overlap, in any number of sessions; one session is such a case (`OneSession`). Then the database at a commit
is the one the handler read, which `SerialInv` states by recomputing the write set on the present
database (`UpToDate`: `PlacesNow`, `SettlesNow`, `UpdatesNow`; the scheduler's need nothing, as they are
conditional). An up-to-date write set places a bet, moves an event that has no bet to close, or ends
an event (`CommitStep`), and from these three follow `Chain`, `PendingEnds`, `Verdicts` and
`FinalStays`. With `Serial` dropped all four are false: `lost_update` and section 5.

`Refinement` maps each such commit to an operation of `AtomicBetting` and everything else to a stutter,
and `Conservation` bounds the points that rounding loses by the number of hits. Both assume `NoGain`:
the float ratio never exceeds the exact one, which holds for pools below 2^26 points; above it a
payout may be one point too many. `AtomicBetting` pays the exact share or one point less.
`Conservation` counts points over all users and so assumes finitely many; they are rows of a table.

**Withdrawal** (part 3: `WithdrawalTypeCorrect`, `Forfeited`, `Accounted`) has the assumptions of
Betting. `IInv` does not hold here, since a withdrawal writes points without a row; the invariant says
which write sets do so (`WritesOK`): those of withdrawals, whose points are zero, and no others. The
type lemmas of part 1 are used as they are. That points add up needs to know what a request in flight
may still rely on (`Unseen`): of users it has not overlooked, the points it would write are the present
ones plus its own row, and a withdrawal that read zero still finds zero. So a commit either continues
the sum of the history (`RowKeepsSum`), or starts a new one at the withdrawal (`NothingSince`), or
counts as overwriting.

**Scheduler** (`EventSchedulerProofs`: `TypeCorrect`, `Scheduled`, `ChangesAreDue`) assumes
`SchedulerAssumption`. The invariant has a part that holds whatever fails (`Base`) and one until a tick
fails (`Kept`, `OnTime`). `Base`: an event is in both schedules when its row is committed, and its
times have not come (`Created`); the scores are the times in the rows for as long as these can matter
(`Scores`: an administrator who moves `start_at` has made the event OPEN, one who moves `end_at` has
closed it); a tick works on what is due and nothing becomes due behind its back (`Targets`); it has
written only rows it had reason to (`Writes`). From this follows `ChangesAreDue`. `Kept` says that a
READY event is scheduled or written, and closes later; also that a request to open an event, though
the event may be cancelled by then, finds it in the closing schedule. That last needs `OnTime`: no
minute ends before what is due in it is done, so an event still READY in this minute has its end
ahead. The proof takes each part of the invariant through all actions.

**Likes** (`EventLikesProofs`: `TypeCorrect`, `CountDrift`). A request in flight carries a count that is
off by no more than what was overlooked so far and what it has come to overlook itself. A DELETE of a
row that is gone writes a count that is one too low, but the commit that removed the row is one of
those it overlooked.

**Accounts** (`AccountsProofs`: `TypeCorrect`, `OneAccount`, `Recorded`, `Cooldowns`, `Swept`) assumes
`AccountsAssumption`. A commit writes what was read when the request began, so the invariant says what
may have become of it. The id of a signup is its own (`Signups`). An account that a signup has seen is
still there or its id is spent, does not have the signup's address, and has not lost it within the
cooldown (`Seen`). The address a withdrawal has read is still the account's, or another request has
withdrawn the account and recorded it in this same minute (`Withdrawals`); here too the clock waits for
requests. What the sweep has selected is still there and may be deleted (`Ghosts`). Only three steps
create, delete or rename a row (`QuietSteps`), and each part of the invariant is taken through these
three.

**Sessions** (`AuthSessionsProofs`: `TypeCorrect`, `Suspensions`, `Administrators`) assumes
`AuthAssumption`. The invariant: a request about to commit concerns nobody whose suspension is in
force, unless it is among those unaware of it (`Aware`), and nobody suspends himself or changes his
own role (`OthersOnly`). It is kept because the clock waits for requests, so a suspension comes into
force by a commit only, and that commit makes all other requests unaware.

**Rankings** (`RankingCacheProofs`: `Agreement`, `Recent`) assumes `RankingAssumption`: finitely many
users, a list and an hour of some length, and `NoKey` not a key's value. A key's value is a function of a
list that was once selected, so the invariant names that list (`KeysOf`): it is a ranking of the rows
(`IsRanking`) and right about each user whose row has not changed since `updated_at` (`KnowsUntil`), as is
the list of every batch that is about to write. The key of a user it ranks is there with the same numbers and the same end as the
list, because one MULTI/EXEC writes them with one TTL; a key that is left over from another batch is of
a user this list does not rank. That the list is of this hour needs the arithmetic of
`seconds_until_next_hour` (`HourBegan`): the TTL is computed at most one tick after `updated_at`, and a
key that has not lapsed is in the hour its TTL led to.

**Listings** (`ListingsProofs`: `Events`, `Comments`, `Pages`) assumes `ListingsAssumption`. Of every row that
keeps its place the invariant says on which side of the client's position it is and how often it has been
shown. For events the position is the cursor with its event's rank as it was when the page was shown
(`Beyond`), which the next query replaces by the rank of now: only that step may let an event be
missed or repeated, and then `cursorMoved` tells which way the event of the cursor went. For comments the
position never changes (`CommentsInv`). For pages by offset it is a number: a row without ties has as many rows
before it as are newer (`Newer`), and is shown when this number comes within the page; it can fall or
rise past the offset only by rows as new that leave or come. The pages themselves are sequences that
list a finite set in order; `SeqsAreOnto` shows that such a sequence has every row, and `PlaceOfRow`'s
bijection between the places before a row and the rows newer than it replaces an induction over the
sequence.

**Odds** (`OddsBroadcastProofs`: `TypeCorrect`, `Leftovers`, `Overlaps`). The invariant follows a bet on its
way to each subscriber. Requests in flight together know of each other (`Meetings`), and what a request
or a greeting has not read is in flight with it (`Snapshots`, `Greetings`); so a message lacks only bets
it has met. A broadcast that is over, or past a subscriber, has told it of its bet unless its set has grown
(`HasTold`, `Told`), and a subscriber that comes later is greeted with it. A client that has not gone has a
running handler and is in the set (`Linked`), which is what lets a broadcast drop sockets without dropping a
live one. `Leftovers` rests on `Gone`: a member whose client had gone when the broadcast began cannot be
reached by any visit, so it is among the failed sends when the loop ends, and it never joins again.

Every safety property of a passing run is proved. The type invariants and the inductive invariants are
proved, and most are in no run: TLC checked each on the instances of section 3 before its
proof was written. Only model-checked is what must eventually happen (`DueEventsLeaveReadyUnlessFailed`,
`EndedEventsCloseUnlessFailed`, `DueEntriesAreRemoved`, `LikedEventsAreSelected`, `GhostsAreRemoved`,
`RankingsReturn`, `GoneClientsAreForgotten`): liveness under fairness and `ENABLED` are out of this prover's
reach. So are recursive operators and what a recursive definition computes for every
input: none is declared, and the only fold is the one MCBetting compares `SumOf` with.

## 5. Where code and documents disagree

- `lost_update`: points are written back as absolute values without the pessimistic lock that
  `bets/repositories.py:103` describes and nobody calls. Two overlapping bets of one user cost him
  one.
- `sessions_blacklist`: `auth/services.py:196` says that the entry of a logged-out token lasts as long
  as the token has left. `create_jwt_token` has the library read a Korean time as UTC, which makes
  tokens live nine hours longer, and `get_token_remaining_seconds` leaves these nine hours out
  (`core/security.py:71`); the entry ends first, and the token is accepted again.

Seen while modelling, without a run:

- A bet that saw OPEN (`bets/services.py:34`) may commit after the event was CLOSED; after a
  settlement it stays PENDING.
- A settlement and a cancellation that overlap both commit, and the status written last stays
  (`events/repositories.py:131`), although `events/services.py:325-326` calls SETTLED and CANCELLED
  final. The same way an administrator's OPEN may come after the scheduler's CANCELLED.
- ZREM (`events/schedular.py:49`) is not undone with the tick; after a failure a due event may stay
  READY for ever, although `src/README.md:218` says that it opens at its start.
- `src/README.md:80` says that the odds are updated at once with each bet. Two overlapping bets on
  different options each send odds without the other's, and the last message stays until the next
  bet; a greeting read before a bet's commit may arrive after the bet's broadcast; and a bet that is
  rolled back after its broadcast is not taken back.
- `websocket_endpoint` (`events/router.py:144`, `151`) awaits `close` before it disconnects, without a
  finally clause. When the client has gone `close` may raise, and the socket stays in
  `active_connections` until a later broadcast fails on it; for an event that does not exist there is
  none, and it stays until the process ends. OddsBroadcast has it (`Reject`).
- A socket that joins the set of connections while another leaves it, during one broadcast
  (`events/websocket.py:25`), keeps its size but may have its table rebuilt: a subscriber may be passed
  over, and lacks the bet until the next message. A change of its size rolls the bet back.
- `src/README.md` says that selection is daily at 20:00 and that an event starts two days after its
  creation at the earliest; the code selects every ten minutes and accepts 59 minutes.
- `/refresh` never asks the blacklist, nor does `get_optional_current_user`.
- An account verified between the SELECT and the DELETE of the sweep is deleted.
- The list of users (`users/repositories.py:353`) is filtered by `datetime.now()`, which in the
  container is UTC, and shows the status by Korean time: for nine hours the two disagree.
- A withdrawal sets the points to zero while a bet or a settlement of the user may be in flight, whose
  commit writes them anew (`users/repositories.py:327`). And nothing asks `is_deleted`: while the
  access token lasts, the account may bet what its open bets return. BettingWithdrawal has both.

## 6. Plan

Done: betting with its abstract specification and with withdrawal, the scheduler, likes, listings and
comments, accounts, tokens and suspensions, rankings, odds; theorems for every safety property of these
that a run checks, and for the refinement.

To come, most important first:

1. Of the theorems under `Serial`, those that hold for weaker reasons: outcomes of an event need only
   that no two requests about that event overlap, and a user's history only that none about the user do.
2. The step of each liveness argument that is safety: that what is due stays due until it is done.

Not modelled: nickname and password changes and the statistics of a profile (one write or read each,
which nothing else depends on); the exchange with Google and cryptography (external); images (I/O);
configuration, start-up and test data; the pool of database connections that open sockets hold (the
library's); a Redis that loses its data (`docker-compose.yaml` gives it a volume; what it saves there, and when, are
the defaults of its image).
