------------------------------ MODULE Accounts ------------------------------
(***************************************************************************)
(* Accounts: signup, verification by mail, login, withdrawal, and the sweep *)
(* that deletes accounts nobody verified.                                   *)
(*                                                                         *)
(* A request reads the users table when it begins and writes it when it     *)
(* commits, as in Betting; the verification codes and the limit on mails    *)
(* are keys in Redis, which every await reads or writes at once.  Logins    *)
(* write a single row in one UPDATE and are one step.                       *)
(*                                                                         *)
(* Time is counted in minutes, and moves on when the sweep has run in this  *)
(* minute and no request is half done (requests take seconds).  Rejected    *)
(* requests change nothing and have no action.                              *)
(***************************************************************************)
EXTENDS Integers, FiniteSets

CONSTANTS
    UserIds,        \* users.user_id
    Emails,         \* the addresses people sign up with
    Sessions,       \* requests that may be in flight
    Lifespan,       \* SHORT_SESSION_LIFESPAN: minutes a token should last (15)
    Skew,           \* minutes it lasts longer (540: KST is encoded as if it were UTC)
    RefreshLife,    \* minutes a refresh token lasts (1440 and the skew)
    HardLimit,      \* age at which an unverified account is deleted (6 hours)
    Cooldown,       \* minutes after a withdrawal without a new signup (30 days)
    CodeExpire,     \* minutes a verification code is kept (5)
    LimitExpire,    \* minutes between two mails (1)
    MaxTime,        \* bound: the last minute of the clock
    MaxFailures,    \* bound: sweeps that fail
    NoUser, NoEmail

ASSUME AccountsAssumption ==
    /\ {Lifespan, RefreshLife, HardLimit, Cooldown, CodeExpire, LimitExpire} \subseteq Nat \ {0}
    /\ {Skew, MaxTime, MaxFailures} \subseteq Nat
    /\ NoUser \notin UserIds /\ NoEmail \notin Emails

VARIABLES
    now,
    users,          \* the rows of users, or NoRow
    gone,           \* ids of deleted rows; a uuid is not used twice
    withdrawals,    \* the rows of user_withdrawal
    issued,         \* when each account's latest token was issued, or Never
    code,           \* when the key verify:code:<user> expires, 0 if there is none
    limit,          \* when the key mail_limit:<user> expires, 0 if there is none
    request,        \* the request in each session
    sweep,          \* the cleanup job
    swept,          \* the job has ended in this minute
    failures        \* sweeps that failed so far

tables == <<users, gone, withdrawals>>
redis == <<code, limit>>
job == <<sweep, swept, failures>>
vars == <<now, tables, issued, redis, request, job>>

-----------------------------------------------------------------------------
(* Types *)

Times == 0 .. MaxTime
Never == -1
NoRow == [email |-> NoEmail, verified |-> FALSE, created |-> Never, login |-> Never]

(* A withdrawn account has a made-up address, which is NoEmail here. *)
User == [email : Emails \cup {NoEmail}, verified : BOOLEAN, created : Times, login : Times]

UserWithdrawal == [user : UserIds, email : Emails, at : Times]

Idle == [op |-> "idle", user |-> NoUser, email |-> NoEmail, saw |-> {}]

(* op is the next step of the request, user the account it is about, email  *)
(* the address a signup or withdrawal has read, saw the accounts in the     *)
(* snapshot of a signup.                                                    *)
Request == [op : {"signup", "signupSocial", "setLimit", "setCode", "spend", "verify", "withdraw"},
            user : UserIds, email : Emails \cup {NoEmail}, saw : SUBSET UserIds]

Asleep == [pc |-> "sleep", targets |-> {}]

TypeOK ==
    /\ now \in Times
    /\ users \in [UserIds -> User \cup {NoRow}]
    /\ gone \subseteq UserIds
    /\ withdrawals \subseteq UserWithdrawal
    /\ issued \in [UserIds -> Times \cup {Never}]
    /\ code \in [UserIds -> 0 .. MaxTime + CodeExpire]
    /\ limit \in [UserIds -> 0 .. MaxTime + LimitExpire]
    /\ request \in [Sessions -> Request \cup {Idle}]
    /\ sweep \in [pc : {"sleep", "delete"}, targets : SUBSET UserIds]
    /\ swept \in BOOLEAN
    /\ failures \in 0 .. MaxFailures

Exists(u) == users[u] # NoRow
Accounts == {u \in UserIds : Exists(u)}
Withdrawn(u) == Exists(u) /\ users[u].email = NoEmail

(* Redis forgets a key when it expires. *)
Alive(key) == now < key

-----------------------------------------------------------------------------
(* Requests *)

Begin(s, r) ==
    /\ request[s] = Idle
    /\ request' = [request EXCEPT ![s] = r]

Step(op, u) == [Idle EXCEPT !.op = op, !.user = u]

Goto(s, op) == request' = [request EXCEPT ![s].op = op]
Finish(s) == request' = [request EXCEPT ![s] = Idle]

Reserved == {request[s].user : s \in Sessions}
FreshId == CHOOSE u \in UserIds : ~Exists(u) /\ u \notin gone \cup Reserved

(* Faulty: the last minute does not count. *)
InCooldownShort(email) == \E w \in withdrawals : w.email = email /\ now - w.at < Cooldown - 1

InCooldown(email) == \E w \in withdrawals : w.email = email /\ now - w.at < Cooldown

(* POST /users: the checks on the snapshot, then the insert.  The password  *)
(* or social id, the nickname and its uniqueness are left out.              *)
BeginSignup(s, email, op) ==
    /\ op \in {"signup", "signupSocial"}
    /\ \E u \in UserIds : ~Exists(u) /\ u \notin gone \cup Reserved
    /\ ~InCooldown(email)
    /\ \A u \in Accounts : users[u].email # email
    /\ Begin(s, [Step(op, FreshId) EXCEPT !.email = email, !.saw = Accounts])
    /\ UNCHANGED <<now, tables, issued, redis, job>>

(* Faulty: no unique key. *)
NoUniqueKey(email) == TRUE

(* UNIQUE (email) *)
EmailIsFree(email) == \A u \in Accounts : users[u].email # email

CommitSignup(s) ==
    LET r == request[s]
        social == r.op = "signupSocial"
        row == [email |-> r.email, verified |-> social, created |-> now, login |-> now] IN
    /\ r.op \in {"signup", "signupSocial"}
    /\ EmailIsFree(r.email)
    /\ users' = [users EXCEPT ![r.user] = row]
    /\ issued' = [issued EXCEPT ![r.user] = IF social THEN Never ELSE now]
    /\ Finish(s)
    /\ UNCHANGED <<now, gone, withdrawals, redis, job>>

(* authenticate_user and the Google login.  An unverified account gets a    *)
(* verification token, a verified one an access token.                      *)
Login(u) ==
    /\ Exists(u) /\ ~Withdrawn(u)
    /\ users' = [users EXCEPT ![u].login = now]
    /\ issued' = [issued EXCEPT ![u] = now]
    /\ UNCHANGED <<now, gone, withdrawals, redis, request, job>>

HasToken(u) == Exists(u) /\ issued[u] # Never /\ now <= issued[u] + Lifespan + Skew

(* POST /auth/refresh *)
Refresh(u) ==
    /\ Exists(u) /\ users[u].verified
    /\ issued[u] # Never /\ now <= issued[u] + RefreshLife
    /\ issued' = [issued EXCEPT ![u] = now]
    /\ UNCHANGED <<now, tables, redis, request, job>>

(* POST /auth/verify-email/send: EXISTS and SETEX on the limit, SETEX on    *)
(* the code, and the mail.                                                  *)
CheckLimit(s, u) ==
    /\ HasToken(u) /\ ~users[u].verified
    /\ ~Alive(limit[u])
    /\ Begin(s, Step("setLimit", u))
    /\ UNCHANGED <<now, tables, issued, redis, job>>

SetLimit(s) ==
    /\ request[s].op = "setLimit"
    /\ limit' = [limit EXCEPT ![request[s].user] = now + LimitExpire]
    /\ Goto(s, "setCode")
    /\ UNCHANGED <<now, tables, issued, code, job>>

SetCode(s) ==
    /\ request[s].op = "setCode"
    /\ code' = [code EXCEPT ![request[s].user] = now + CodeExpire]
    /\ Finish(s)
    /\ UNCHANGED <<now, tables, issued, limit, job>>

(* POST /auth/verify-email/confirm with the code that was mailed: GET and   *)
(* DELETE of the key, and the commit of is_snu_verified.  Confirming again  *)
(* with the old token of an account that is verified changes no row, and a  *)
(* wrong code changes nothing.                                              *)
ReadCode(s, u) ==
    /\ HasToken(u) /\ ~users[u].verified
    /\ Alive(code[u])
    /\ Begin(s, Step("spend", u))
    /\ UNCHANGED <<now, tables, issued, redis, job>>

SpendCode(s) ==
    /\ request[s].op = "spend"
    /\ code' = [code EXCEPT ![request[s].user] = 0]
    /\ Goto(s, "verify")
    /\ UNCHANGED <<now, tables, issued, limit, job>>

(* The row must still be there, or the request fails. *)
Verify(s) ==
    LET u == request[s].user IN
    /\ request[s].op = "verify"
    /\ Exists(u)
    /\ users' = [users EXCEPT ![u].verified = TRUE]
    /\ issued' = [issued EXCEPT ![u] = IF users[u].verified THEN @ ELSE Never]
    /\ Finish(s)
    /\ UNCHANGED <<now, gone, withdrawals, redis, job>>

(* POST /auth/withdraw.  get_current_user does not ask whether the account  *)
(* has been withdrawn before; the record of a second withdrawal is that of  *)
(* a made-up address, which nobody will look up, and is left out.           *)
BeginWithdraw(s, u) ==
    /\ HasToken(u) /\ users[u].verified
    /\ Begin(s, [Step("withdraw", u) EXCEPT !.email = users[u].email])
    /\ UNCHANGED <<now, tables, issued, redis, job>>

(* Faulty: the record is lost. *)
WithdrawUnrecorded(s) ==
    LET r == request[s] IN
    /\ r.op = "withdraw"
    /\ Exists(r.user)
    /\ users' = [users EXCEPT ![r.user].email = NoEmail]
    /\ Finish(s)
    /\ UNCHANGED <<now, gone, withdrawals, issued, redis, job>>

CommitWithdraw(s) ==
    LET r == request[s] IN
    /\ r.op = "withdraw"
    /\ Exists(r.user)
    /\ users' = [users EXCEPT ![r.user].email = NoEmail]
    /\ withdrawals' = IF r.email = NoEmail THEN withdrawals
                      ELSE withdrawals \cup {[user |-> r.user, email |-> r.email, at |-> now]}
    /\ Finish(s)
    /\ UNCHANGED <<now, gone, issued, redis, job>>

(* A constraint, the database or Redis fails, or the client goes away. *)
Abort(s) ==
    /\ request[s] # Idle
    /\ Finish(s)
    /\ UNCHANGED <<now, tables, issued, redis, job>>

-----------------------------------------------------------------------------
(* The cleanup job *)

(* Faulty: a minute less than a token lasts, not a minute more. *)
IsGhostEarly(u) ==
    /\ Exists(u) /\ ~users[u].verified
    /\ \/ users[u].created < now - (Lifespan - 1) /\ users[u].login < now - (Lifespan - 1)
       \/ users[u].created < now - HardLimit

(* Faulty: no limit for those who keep logging in. *)
IsIdle(u) ==
    /\ Exists(u) /\ ~users[u].verified
    /\ users[u].created < now - (Lifespan + 1) /\ users[u].login < now - (Lifespan + 1)

(* created_at and last_login_at are compared with limits of a whole number  *)
(* of minutes: Lifespan + 1 and HardLimit.                                  *)
IsGhost(u) ==
    /\ Exists(u) /\ ~users[u].verified
    /\ \/ users[u].created < now - (Lifespan + 1) /\ users[u].login < now - (Lifespan + 1)
       \/ users[u].created < now - HardLimit

SelectGhosts ==
    LET ghosts == {u \in UserIds : IsGhost(u)} IN
    /\ sweep.pc = "sleep"
    /\ IF ghosts = {}
       THEN UNCHANGED sweep /\ swept' = TRUE
       ELSE sweep' = [pc |-> "delete", targets |-> ghosts] /\ UNCHANGED swept
    /\ UNCHANGED <<now, tables, issued, redis, request, failures>>

(* DELETE of their rows in point_history and users, and the commit. *)
DeleteGhosts ==
    /\ sweep.pc = "delete"
    /\ \A w \in withdrawals : w.user \notin sweep.targets
    /\ users' = [u \in UserIds |-> IF u \in sweep.targets THEN NoRow ELSE users[u]]
    /\ gone' = gone \cup sweep.targets
    /\ issued' = [u \in UserIds |-> IF u \in sweep.targets THEN Never ELSE issued[u]]
    /\ sweep' = Asleep
    /\ swept' = TRUE
    /\ UNCHANGED <<now, withdrawals, redis, request, failures>>

EndSweep ==
    /\ sweep.pc = "delete"
    /\ sweep' = Asleep
    /\ swept' = TRUE
    /\ UNCHANGED <<now, tables, issued, redis, request>>

(* A foreign key of user_withdrawal forbids the deletion. *)
ForbidDelete ==
    /\ \E w \in withdrawals : w.user \in sweep.targets
    /\ EndSweep
    /\ UNCHANGED failures

FailSweep ==
    /\ failures < MaxFailures
    /\ failures' = failures + 1
    /\ EndSweep

-----------------------------------------------------------------------------
Forget(key) == [u \in UserIds |-> IF key[u] > now' THEN key[u] ELSE 0]

Advance ==
    /\ now < MaxTime
    /\ swept /\ sweep = Asleep
    /\ \A s \in Sessions : request[s] = Idle
    /\ now' = now + 1
    /\ swept' = FALSE
    /\ code' = Forget(code)
    /\ limit' = Forget(limit)
    /\ UNCHANGED <<tables, issued, request, sweep, failures>>

Init ==
    /\ now = 0
    /\ users = [u \in UserIds |-> NoRow]
    /\ gone = {}
    /\ withdrawals = {}
    /\ issued = [u \in UserIds |-> Never]
    /\ code = [u \in UserIds |-> 0] /\ limit = [u \in UserIds |-> 0]
    /\ request = [s \in Sessions |-> Idle]
    /\ sweep = Asleep
    /\ swept = FALSE
    /\ failures = 0

FinishRequest(s) ==
    \/ CommitSignup(s)
    \/ SetLimit(s) \/ SetCode(s)
    \/ SpendCode(s) \/ Verify(s)
    \/ CommitWithdraw(s)
    \/ Abort(s)

Sweep == SelectGhosts \/ DeleteGhosts \/ ForbidDelete

Next ==
    \/ \E s \in Sessions, email \in Emails, op \in {"signup", "signupSocial"} : BeginSignup(s, email, op)
    \/ \E s \in Sessions, u \in UserIds :
          \/ CheckLimit(s, u) \/ ReadCode(s, u)
          \/ BeginWithdraw(s, u)
    \/ \E s \in Sessions : FinishRequest(s)
    \/ \E u \in UserIds : Login(u) \/ Refresh(u)
    \/ Sweep
    \/ FailSweep
    \/ Advance

(* Requests end, the job runs every minute, and time passes. *)
Fairness ==
    /\ \A s \in Sessions : WF_vars(FinishRequest(s))
    /\ WF_vars(Sweep)
    /\ WF_vars(Advance)

Spec == Init /\ [][Next]_vars /\ Fairness
-----------------------------------------------------------------------------
(* Properties *)

(* Overlapping signups do not give two accounts one address. *)
OneAccountPerEmail ==
    \A u, v \in Accounts : users[u].email = users[v].email /\ users[u].email # NoEmail => u = v

(* The accounts without an address are those whose withdrawal is on record: *)
(* the row and the record are written together, whatever overlaps or fails, *)
(* and the sweep deletes neither.                                           *)
WithdrawalsAreRecorded ==
    {u \in UserIds : Withdrawn(u)} = {w.user : w \in withdrawals}

(* Nobody signs up again with the address of an account withdrawn less than *)
(* 30 days ago.  (An account that did not exist yet when the signup began   *)
(* is invisible to its snapshot, even if it has been withdrawn since.)      *)
CooldownHolds ==
    [][\A s \in Sessions :
          LET r == request[s] IN
          request'[s] = Idle /\ r.op \in {"signup", "signupSocial"} /\ users'[r.user] # NoRow =>
              \A w \in withdrawals :
                  w.email = r.email /\ now - w.at < Cooldown => w.user \notin r.saw]_vars

(* The sweep spares an account of less than six hours whose last login is   *)
(* recent enough for its verification token to be good for the 15 minutes   *)
(* it should last.  Only a login between the job's SELECT and its DELETE,   *)
(* in the same minute, comes too late.                                      *)
SweptAccountsWereIdle ==
    [][\A u \in UserIds : Exists(u) /\ users'[u] = NoRow =>
          \/ users[u].login + Lifespan < now
          \/ users[u].created + HardLimit < now
          \/ users[u].login = now]_vars

(* An account is verified or deleted soon after its first six hours, even   *)
(* if its owner keeps logging in, and even if some sweeps fail.             *)
GhostsAreRemoved ==
    \A u \in UserIds :
        (Exists(u) /\ ~users[u].verified /\ users[u].created + HardLimit < now)
            ~> (~Exists(u) \/ users[u].verified)

=============================================================================
