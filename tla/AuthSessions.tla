---------------------------- MODULE AuthSessions ----------------------------
(***************************************************************************)
(* Who may make requests: login and refresh, the tokens they issue, logout  *)
(* and its blacklist in Redis, suspension with its automatic end, roles,    *)
(* and withdrawal.                                                          *)
(*                                                                         *)
(* A request reads its snapshot and checks the caller in one step and       *)
(* writes at its commit, as in Betting: an UPDATE names the columns it      *)
(* writes, so what it takes to be outdated is overwritten all the same.     *)
(* Redis changes at once.  An access and a refresh token issued together    *)
(* are one pair, of which the time identifies the tokens as it does in the  *)
(* JWT.  Time moves on when no request is half done.  Accounts has signup,  *)
(* verification and the sweep; a request that is rejected or writes none of *)
(* the state here has no action.                                            *)
(***************************************************************************)
EXTENDS Integers, FiniteSets, Functions

CONSTANTS
    Users,
    Sessions,       \* requests that may be in flight
    Lifespan,       \* SHORT_SESSION_LIFESPAN, of access tokens
    RefreshLife,    \* LONG_SESSION_LIFESPAN, of refresh tokens
    Skew,           \* time they are accepted beyond: KST encoded as UTC
    Terms,          \* lengths of suspensions
    MaxTime,        \* bound: the last time of the clock
    MaxPairs,       \* bound: pairs of tokens accepted at a time
    NoRequest

ASSUME AuthAssumption ==
    /\ {Lifespan, RefreshLife} \cup Terms \subseteq Nat \ {0}
    /\ {Skew, MaxTime, MaxPairs} \subseteq Nat

VARIABLES
    now,
    role,           \* users.role
    deleted,        \* users.is_deleted
    suspendedUntil, \* users.suspended_until, NULL being 0
    issued,         \* pairs of tokens that are still accepted somewhere
    blacklist,      \* the keys blacklist:<token>, with their ends
    txn,            \* the request in each session
    unaware         \* of whose suspension a request's snapshot does not know

rows == <<role, deleted, suspendedUntil>>
vars == <<now, rows, issued, blacklist, txn, unaware>>

-----------------------------------------------------------------------------
UserRole == {"USER", "ADMIN"}
Times == 0 .. MaxTime

Pair == [user : Users, at : Times]

(* at: the pair of tokens a logout or withdrawal revokes; clears: the       *)
(* caller's suspension is over and is set to NULL; target, until and role   *)
(* are those of an administrator's request.                                 *)
Request == [op : {"other", "issue", "suspend", "role", "withdraw", "revokeAccess", "revokeRefresh"},
            user : Users, at : Times, clears : BOOLEAN, target : Users, until : Nat, role : UserRole]

(* A request that p makes, to be completed by what it asks for. *)
Draft(op, p) == [op |-> op, user |-> p.user, clears |-> FALSE,
                 at |-> IF op \in {"withdraw", "revokeAccess"} THEN p.at ELSE 0,
                 target |-> p.user, until |-> 0, role |-> "USER"]

TypeOK ==
    /\ now \in Times
    /\ role \in [Users -> UserRole]
    /\ deleted \subseteq Users
    /\ suspendedUntil \in [Users -> Nat]
    /\ issued \subseteq Pair
    /\ DOMAIN blacklist \subseteq Pair \X {"access", "refresh"}
    /\ txn \in [Sessions -> Request \cup {NoRequest}]
    /\ unaware \in [Users -> SUBSET Sessions]

InFlight(s) == txn[s] # NoRequest

(* decode_jwt_token: exp is the end of the token's life, nine hours late. *)
LifeOf(kind) == IF kind = "access" THEN Lifespan ELSE RefreshLife

Decodes(p, kind) == now < p.at + LifeOf(kind) + Skew

IsTokenBlacklisted(p, kind) ==
    <<p, kind>> \in DOMAIN blacklist /\ now < blacklist[<<p, kind>>]

InForce(u) == now < suspendedUntil[u]

(* Faulty: nobody looks at the time. *)
AnyUser(u) == TRUE

(* _check_user_suspension *)
PassesSuspensionCheck(u) == ~InForce(u)

-----------------------------------------------------------------------------
(* Requests begin *)

Begin(s, draft) ==
    /\ ~InFlight(s)
    /\ PassesSuspensionCheck(draft.user)
    /\ txn' = [txn EXCEPT ![s] = [draft EXCEPT !.clears = suspendedUntil[draft.user] # 0]]
    /\ UNCHANGED <<now, rows, issued, blacklist, unaware>>

(* get_current_user *)
CurrentUser(p) ==
    /\ p \in issued
    /\ ~IsTokenBlacklisted(p, "access")
    /\ Decodes(p, "access")

(* POST /auth/login and the Google callback: the address of a deleted user  *)
(* is gone.                                                                 *)
Login(s, u) ==
    /\ u \notin deleted
    /\ Cardinality(issued) < MaxPairs
    /\ Begin(s, Draft("issue", [user |-> u, at |-> now]))

(* POST /auth/refresh: the user is looked up by id, deleted or not. *)
RefreshTokens(s, p) ==
    /\ p \in issued /\ Decodes(p, "refresh")
    /\ Cardinality(issued) < MaxPairs
    /\ Begin(s, Draft("issue", p))

(* Any other request of a user: all it writes here is the end of a          *)
(* suspension.  get_optional_current_user asks no blacklist.                *)
OtherRequest(s, p) ==
    /\ p \in issued /\ Decodes(p, "access")
    /\ suspendedUntil[p.user] # 0
    /\ Begin(s, Draft("other", p))

(* get_current_admin_user *)
CurrentAdmin(p) == CurrentUser(p) /\ role[p.user] = "ADMIN"

SuspendUser(s, p, target, term) ==
    /\ CurrentAdmin(p)
    /\ p.user # target
    /\ ~InForce(target)
    /\ Begin(s, [Draft("suspend", p) EXCEPT !.target = target, !.until = now + term])

(* Faulty: administrators may change their own role. *)
UpdateAnyRole(s, p, target, to) ==
    /\ CurrentAdmin(p)
    /\ Begin(s, [Draft("role", p) EXCEPT !.target = target, !.role = to])

UpdateUserRole(s, p, target, to) ==
    /\ CurrentAdmin(p)
    /\ p.user # target
    /\ Begin(s, [Draft("role", p) EXCEPT !.target = target, !.role = to])

Withdraw(s, p) ==
    /\ CurrentUser(p)
    /\ Begin(s, Draft("withdraw", p))

(* POST /auth/logout checks nothing but that there are two tokens. *)
Logout(s, p) ==
    /\ p \in issued
    /\ ~InFlight(s)
    /\ txn' = [txn EXCEPT ![s] = Draft("revokeAccess", p)]
    /\ UNCHANGED <<now, rows, issued, blacklist, unaware>>

-----------------------------------------------------------------------------
(* Requests end *)

Writing(s) == InFlight(s) /\ txn[s].op \notin {"revokeAccess", "revokeRefresh"}

(* A withdrawal goes on to revoke its tokens. *)
Commit(s) ==
    LET t == txn[s]
        until == IF t.clears THEN [suspendedUntil EXCEPT ![t.user] = 0] ELSE suspendedUntil IN
    /\ Writing(s)
    /\ role' = IF t.op = "role" THEN [role EXCEPT ![t.target] = t.role] ELSE role
    /\ deleted' = IF t.op = "withdraw" THEN deleted \cup {t.user} ELSE deleted
    /\ suspendedUntil' = IF t.op = "suspend" THEN [until EXCEPT ![t.target] = t.until] ELSE until
    /\ issued' = IF t.op = "issue" THEN issued \cup {[user |-> t.user, at |-> now]} ELSE issued
    /\ unaware' = [u \in Users |->
         IF t.op = "suspend" /\ u = t.target THEN {r \in Sessions : Writing(r)} \ {s}
         ELSE unaware[u] \ {s}]
    /\ txn' = [txn EXCEPT ![s] = IF t.op = "withdraw" THEN [t EXCEPT !.op = "revokeAccess"]
                                 ELSE NoRequest]
    /\ UNCHANGED <<now, blacklist>>

(* A failure, or no refresh token in the cookies. *)
Abort(s) ==
    /\ InFlight(s)
    /\ txn' = [txn EXCEPT ![s] = NoRequest]
    /\ unaware' = [u \in Users |-> unaware[u] \ {s}]
    /\ UNCHANGED <<now, rows, issued, blacklist>>

(* get_token_remaining_seconds: the difference of two Korean times, so that *)
(* the skew is not in it; zero for a token that does not decode.            *)
RemainingSeconds(p, kind) ==
    IF Decodes(p, kind) /\ now < p.at + LifeOf(kind) THEN p.at + LifeOf(kind) - now ELSE 0

Blacklisted(p, kind) ==
    IF RemainingSeconds(p, kind) = 0 THEN blacklist
    ELSE [k \in DOMAIN blacklist \cup {<<p, kind>>} |->
            IF k = <<p, kind>> THEN now + RemainingSeconds(p, kind) ELSE blacklist[k]]

RevokeAccess(s) ==
    LET t == txn[s] IN
    /\ InFlight(s) /\ t.op = "revokeAccess"
    /\ blacklist' = Blacklisted([user |-> t.user, at |-> t.at], "access")
    /\ txn' = [txn EXCEPT ![s].op = "revokeRefresh"]
    /\ UNCHANGED <<now, rows, issued, unaware>>

RevokeRefresh(s) ==
    LET t == txn[s] IN
    /\ InFlight(s) /\ t.op = "revokeRefresh"
    /\ blacklist' = Blacklisted([user |-> t.user, at |-> t.at], "refresh")
    /\ txn' = [txn EXCEPT ![s] = NoRequest]
    /\ UNCHANGED <<now, rows, issued, unaware>>

-----------------------------------------------------------------------------
(* Tokens that nobody accepts any more are forgotten, with their entries. *)
Advance ==
    /\ now < MaxTime
    /\ \A s \in Sessions : ~InFlight(s)
    /\ now' = now + 1
    /\ issued' = {p \in issued : Decodes(p, "access")' \/ Decodes(p, "refresh")'}
    /\ blacklist' = Restrict(blacklist, {k \in DOMAIN blacklist : Decodes(k[1], k[2])'})
    /\ UNCHANGED <<rows, txn, unaware>>

(* The first administrator is set in the database. *)
Init ==
    /\ now = 0
    /\ role \in {r \in [Users -> UserRole] : \E u \in Users : r[u] = "ADMIN"}
    /\ deleted = {}
    /\ suspendedUntil = [u \in Users |-> 0]
    /\ issued = {}
    /\ blacklist = [k \in {} |-> 0]
    /\ txn = [s \in Sessions |-> NoRequest]
    /\ unaware = [u \in Users |-> {}]

Next ==
    \/ \E s \in Sessions, u \in Users : Login(s, u)
    \/ \E s \in Sessions, p \in issued :
         \/ RefreshTokens(s, p) \/ OtherRequest(s, p) \/ Withdraw(s, p) \/ Logout(s, p)
         \/ \E target \in Users, term \in Terms : SuspendUser(s, p, target, term)
         \/ \E target \in Users, to \in UserRole : UpdateUserRole(s, p, target, to)
    \/ \E s \in Sessions : Commit(s) \/ Abort(s) \/ RevokeAccess(s) \/ RevokeRefresh(s)
    \/ Advance

Spec == Init /\ [][Next]_vars

-----------------------------------------------------------------------------
Commits(s) == Writing(s) /\ txn'[s] # txn[s] /\ <<rows, issued>>' # <<rows, issued>>

(* A suspension holds until its end: the user gets no request through, and  *)
(* nothing shortens it, but for requests that read their snapshot before it *)
(* was committed (the caller's automatic recovery among them).              *)
SuspensionsHoldUnlessOverlapped ==
    [][\A s \in Sessions, u \in Users :
         Commits(s) /\ InForce(u) /\ (txn[s].user = u \/ suspendedUntil'[u] < suspendedUntil[u])
            => s \in unaware[u]]_vars

ActiveAdmins == {u \in Users \ deleted : role[u] = "ADMIN" /\ ~InForce(u)}

(* The last administrator who can act is lost only by withdrawing, or to a  *)
(* colleague who could not act any more himself when his request committed. *)
SomeAdminRemains ==
    [][ActiveAdmins # {} /\ ActiveAdmins' = {} =>
         \E s \in Sessions : /\ Commits(s)
                             /\ txn[s].op = "withdraw" \/ txn[s].user \notin ActiveAdmins]_vars

(* "TTL은 토큰의 남은 수명만큼": the entry of a token lasts as long as it would. *)
EntriesLastAsLongAsTokens ==
    \A k \in DOMAIN blacklist : Decodes(k[1], k[2]) => IsTokenBlacklisted(k[1], k[2])
=============================================================================
