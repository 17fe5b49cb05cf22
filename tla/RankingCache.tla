---------------------------- MODULE RankingCache ----------------------------
(***************************************************************************)
(* The rankings in Redis: the batch that computes them every hour and once  *)
(* when the server starts, and what readers find.                           *)
(*                                                                         *)
(* Time is in ticks, Hour of them to an hour.  Each await of a batch is a   *)
(* step; a batch may run into the next tick, but not further.  The two jobs *)
(* are separate, so that a batch begun at start-up may overlap the hourly   *)
(* one.  The pipeline is a MULTI/EXEC: its keys change in one step.  Keys   *)
(* end when the hour does in which their TTL was computed; written after    *)
(* that they still last for their seconds.                                  *)
(***************************************************************************)
EXTENDS Integers, Sequences, FiniteSets, SequencesExt

CONSTANTS
    Users,
    Points,
    Hour,           \* ticks
    TopSize,        \* length of ranking:top_list (1000 in the code)
    MaxTime,        \* bound: the last tick
    MaxFaults,      \* bound: restarts, failed and missed batches
    NoKey

ASSUME RankingAssumption ==
    /\ IsFiniteSet(Users)
    /\ Points \subseteq Nat
    /\ {Hour, TopSize} \subseteq Nat \ {0}
    /\ {MaxTime, MaxFaults} \subseteq Nat
    /\ NoKey \notin [rank : Nat, total : Nat, points : Nat, expires : Nat]

VARIABLES
    now,
    ranked,         \* users who are verified, not deleted and not ADMIN
    points,         \* users.points
    changedAt,      \* when a user's row last changed
    due,            \* jobs to be started now
    batch,          \* the batch that each job runs
    global,         \* ranking:total_count, ranking:top_list, ranking:updated_at
    personal,       \* the keys user_ranking:<user_id>
    faults

rows == <<ranked, points, changedAt>>
redis == <<global, personal>>
vars == <<now, rows, due, batch, redis, faults>>

-----------------------------------------------------------------------------
Jobs == {"update_rankings", "initial_ranking_update"}

Idle == [step |-> "idle", updatedAt |-> 0, users |-> <<>>, until |-> 0]

Running(j) == batch[j] # Idle

(* The users' rows *)

ChangePoints(u, p) ==
    /\ points[u] # p
    /\ points' = [points EXCEPT ![u] = p]
    /\ changedAt' = [changedAt EXCEPT ![u] = now]
    /\ UNCHANGED <<now, ranked, due, batch, redis, faults>>

(* A verification, a withdrawal, or a change of role. *)
JoinOrLeave(u) ==
    /\ ranked' = IF u \in ranked THEN ranked \ {u} ELSE ranked \cup {u}
    /\ changedAt' = [changedAt EXCEPT ![u] = now]
    /\ UNCHANGED <<now, points, due, batch, redis, faults>>

-----------------------------------------------------------------------------
(* update_all_rankings *)

(* updated_at is taken before the rows are read. *)
Begin(j) ==
    /\ j \in due /\ ~Running(j)
    /\ due' = due \ {j}
    /\ batch' = [batch EXCEPT ![j] = [Idle EXCEPT !.step = "select", !.updatedAt = now]]
    /\ UNCHANGED <<now, rows, redis, faults>>

(* ORDER BY points DESC: users of equal points come in any order. *)
Rankings ==
    {list \in SetToSeqs({[user |-> u, points |-> points[u]] : u \in ranked}) :
        \A i, k \in DOMAIN list : i < k => list[i].points >= list[k].points}

(* Nobody to rank: the batch ends, and the keys there are stay. *)
SelectUsers(j) ==
    /\ batch[j].step = "select"
    /\ \E list \in Rankings :
         batch' = [batch EXCEPT ![j] = IF list = <<>> THEN Idle
                                       ELSE [@ EXCEPT !.step = "connect", !.users = list]]
    /\ UNCHANGED <<now, rows, due, redis, faults>>

(* Faulty: nothing is left of an hour that has just begun. *)
UntilThisHour == (Hour - (now % Hour)) % Hour

SecondsUntilNextHour == Hour - (now % Hour)

(* Faulty: updated_at is the time of writing. *)
PrepareAndStamp(j) ==
    /\ batch[j].step = "connect"
    /\ batch' = [batch EXCEPT ![j].step = "execute", ![j].until = now + SecondsUntilNextHour,
                              ![j].updatedAt = now]
    /\ UNCHANGED <<now, rows, due, redis, faults>>

Prepare(j) ==
    /\ batch[j].step = "connect"
    /\ batch' = [batch EXCEPT ![j].step = "execute", ![j].until = now + SecondsUntilNextHour]
    /\ UNCHANGED <<now, rows, due, redis, faults>>

TopRankings(users) == SubSeq(users, 1, IF Len(users) < TopSize THEN Len(users) ELSE TopSize)

UserRanking(rank, b) ==
    [rank |-> rank, total |-> Len(b.users), points |-> b.users[rank].points, expires |-> b.until]

(* Faulty: a user who has a key keeps it. *)
RewrittenOnce(u, b) ==
    IF personal[u] = NoKey /\ \E i \in DOMAIN b.users : b.users[i].user = u
    THEN UserRanking(CHOOSE i \in DOMAIN b.users : b.users[i].user = u, b)
    ELSE personal[u]

(* The key of a user who is ranked no more stays. *)
Rewritten(u, b) ==
    IF \E i \in DOMAIN b.users : b.users[i].user = u
    THEN UserRanking(CHOOSE i \in DOMAIN b.users : b.users[i].user = u, b)
    ELSE personal[u]

(* SETEX of all keys. *)
Execute(j) ==
    LET b == batch[j] IN
    /\ b.step = "execute"
    /\ global' = [total |-> Len(b.users), top |-> TopRankings(b.users),
                  updatedAt |-> b.updatedAt, expires |-> b.until]
    /\ personal' = [u \in Users |-> Rewritten(u, b)]
    /\ batch' = [batch EXCEPT ![j] = Idle]
    /\ UNCHANGED <<now, rows, due, faults>>

-----------------------------------------------------------------------------
(* Faults *)

(* The database or Redis fails; the error is printed. *)
FailBatch(j) ==
    /\ Running(j)
    /\ faults < MaxFaults
    /\ faults' = faults + 1
    /\ batch' = [batch EXCEPT ![j] = Idle]
    /\ UNCHANGED <<now, rows, due, redis>>

(* APScheduler skips a run that is more than a second late. *)
MissRun(j) ==
    /\ j \in due
    /\ faults < MaxFaults
    /\ faults' = faults + 1
    /\ due' = due \ {j}
    /\ UNCHANGED <<now, rows, batch, redis>>

Restart ==
    /\ faults < MaxFaults
    /\ faults' = faults + 1
    /\ batch' = [j \in Jobs |-> Idle]
    /\ due' = {"initial_ranking_update"}
    /\ UNCHANGED <<now, rows, redis>>

-----------------------------------------------------------------------------
Remaining(key, time) == IF key # NoKey /\ key.expires <= time THEN NoKey ELSE key

(* The end of keys that were written in the tick after their hour. *)
Lapse ==
    /\ global' = Remaining(global, now)
    /\ personal' = [u \in Users |-> Remaining(personal[u], now)]
    /\ UNCHANGED <<now, rows, due, batch, faults>>

Advance ==
    /\ now < MaxTime
    /\ due = {}
    /\ \A j \in Jobs : Running(j) => batch[j].updatedAt = now
    /\ now' = now + 1
    /\ due' = IF (now + 1) % Hour = 0 THEN {"update_rankings"} ELSE {}
    /\ global' = Remaining(global, now + 1)
    /\ personal' = [u \in Users |-> Remaining(personal[u], now + 1)]
    /\ UNCHANGED <<rows, batch, faults>>

(* The server starts at any time of an hour. *)
Init ==
    /\ now \in 0 .. Hour - 1
    /\ ranked \in SUBSET Users
    /\ points \in [Users -> Points]
    /\ changedAt = [u \in Users |-> 0]
    /\ due = {"initial_ranking_update"}
    /\ batch = [j \in Jobs |-> Idle]
    /\ global = NoKey
    /\ personal = [u \in Users |-> NoKey]
    /\ faults = 0

BatchStep(j) == Begin(j) \/ SelectUsers(j) \/ Prepare(j) \/ Execute(j)

Next ==
    \/ \E u \in Users : (\E p \in Points : ChangePoints(u, p)) \/ JoinOrLeave(u)
    \/ \E j \in Jobs : BatchStep(j) \/ FailBatch(j) \/ MissRun(j)
    \/ Restart
    \/ Lapse
    \/ Advance

Fairness == (\A j \in Jobs : WF_vars(BatchStep(j))) /\ WF_vars(Advance)

Spec == Init /\ [][Next]_vars /\ Fairness
-----------------------------------------------------------------------------
(* GET /users/me/ranking and GET /users/ranking *)

MyRanking(u) ==
    IF personal[u] # NoKey
    THEN [rank |-> personal[u].rank, total |-> personal[u].total, points |-> personal[u].points]
    ELSE [rank |-> 0, total |-> 0, points |-> points[u]]

TopUsers ==
    IF global # NoKey
    THEN [total |-> global.total, rankings |-> global.top, updatedAt |-> global.updatedAt]
    ELSE [total |-> 0, rankings |-> <<>>, updatedAt |-> now]

Listed(u) == \E i \in DOMAIN TopUsers.rankings : TopUsers.rankings[i].user = u

(* The two answers agree: who is on the list is told the same rank, points  *)
(* and total, and who is told a rank of the list without being on it has    *)
(* left the ranking (or left and come back) since the list was computed.    *)
RanksAgree ==
    \A u \in Users :
        /\ \A i \in DOMAIN TopUsers.rankings : TopUsers.rankings[i].user = u =>
              MyRanking(u) = [rank |-> i, total |-> TopUsers.total,
                              points |-> TopUsers.rankings[i].points]
        /\ ~Listed(u) /\ MyRanking(u).rank \in DOMAIN TopUsers.rankings =>
              u \notin ranked \/ changedAt[u] >= TopUsers.updatedAt

(* The list is no older than updated_at says: what changed before then is   *)
(* in it; and it is of this hour, but for a batch begun just before.        *)
RankingsAreAsRecentAsStated ==
    global # NoKey =>
        /\ TopUsers.updatedAt >= now - (now % Hour) - 1
        /\ \A u \in Users : changedAt[u] < TopUsers.updatedAt =>
              IF Listed(u)
              THEN u \in ranked /\ [user |-> u, points |-> points[u]] \in ToSet(TopUsers.rankings)
              ELSE u \in ranked => /\ Len(TopUsers.rankings) = TopSize
                                  /\ \A r \in ToSet(TopUsers.rankings) : r.points >= points[u]

(* The rankings are back after each full hour, and for its rest, if no      *)
(* batch fails, unless there is nobody to rank, or a batch of the start-up  *)
(* is still at work: it may overwrite the hour's keys with some that ended  *)
(* with the last hour.                                                      *)
RankingsReturn ==
    "update_rankings" \in due ~>
        \/ global # NoKey /\ global.expires > now
        \/ ranked = {}
        \/ Running("initial_ranking_update")
        \/ faults > 0
=============================================================================
