---------------------------- MODULE AccountsProofs ----------------------------
(***************************************************************************)
(* What Accounts guarantees for any users, addresses, requests and periods. *)
(* Requests commit what they have read before; the proofs rest on what may  *)
(* have become of it: an address changes only by a withdrawal, a withdrawal *)
(* leaves a record of the same minute, and an id is not used twice.         *)
(***************************************************************************)
EXTENDS Accounts, TLAPS

SigningUp(s) == request[s].op \in {"signup", "signupSocial"}
Withdrawing(s) == request[s].op = "withdraw"

(* WithdrawalsAreRecorded, account by account. *)
Records == \A u \in UserIds : Withdrawn(u) <=> \E w \in withdrawals : w.user = u

(* The id of a signup is its own. *)
Signups == \A s \in Sessions : SigningUp(s) =>
    /\ ~Exists(request[s].user) /\ request[s].user \notin gone
    /\ request[s].email \in Emails
    /\ \A t \in Sessions \ {s} : SigningUp(t) => request[t].user # request[s].user

(* No account that a signup has seen has, or had of late, its address. *)
Seen == \A s \in Sessions : SigningUp(s) =>
    \A u \in request[s].saw :
      /\ Exists(u) \/ u \in gone
      /\ Exists(u) => users[u].email # request[s].email
      /\ \A w \in withdrawals : w.user = u /\ w.email = request[s].email => now - w.at >= Cooldown

(* The address a withdrawal has read is that of the account, or another     *)
(* request has withdrawn it in this minute.                                 *)
AddressRead(s) ==
    \/ users[request[s].user].email = request[s].email
    \/ /\ request[s].email # NoEmail
       /\ [user |-> request[s].user, email |-> request[s].email, at |-> now] \in withdrawals

Withdrawals == \A s \in Sessions : Withdrawing(s) =>
    /\ Exists(request[s].user) \/ request[s].user \in gone
    /\ Exists(request[s].user) => AddressRead(s)

(* A reason for which the sweep may delete an account. *)
MayBeSwept(u) ==
    \/ users[u].login + Lifespan < now
    \/ users[u].created + HardLimit < now
    \/ users[u].login = now

Ghosts == sweep.pc = "delete" => \A u \in sweep.targets : Exists(u) /\ MayBeSwept(u)

IInv == TypeOK /\ OneAccountPerEmail /\ Records /\ Signups /\ Seen /\ Withdrawals /\ Ghosts

-----------------------------------------------------------------------------
LEMMA NoRowIsNoUser == NoRow \notin User
  BY DEF NoRow, User, Times, Never

LEMMA IdleIsNoRequest == Idle \notin Request /\ Idle.op = "idle"
  BY DEF Idle, Request

LEMMA InitInvariant == Init => IInv
<1> SUFFICES ASSUME Init PROVE IInv
  OBVIOUS
<1>1. \A u \in UserIds : ~Exists(u)
  BY DEF Init, Exists
<1>2. TypeOK
  <2>1. 0 \in Times /\ 0 \in 0 .. MaxTime + CodeExpire /\ 0 \in 0 .. MaxTime + LimitExpire /\ 0 \in 0 .. MaxFailures
    BY AccountsAssumption DEF Times
  <2> QED  BY <2>1 DEF Init, TypeOK, Asleep
<1>3. \A s \in Sessions : ~SigningUp(s) /\ ~Withdrawing(s)
  BY IdleIsNoRequest DEF Init, SigningUp, Withdrawing
<1> QED
  BY <1>1, <1>2, <1>3
     DEF IInv, Init, OneAccountPerEmail, Accounts, Records, Withdrawn, Signups, Seen, Withdrawals, Ghosts, Asleep

(* Types, action by action. *)
LEMMA BeginTypes ==
    ASSUME TypeOK, NEW s \in Sessions,
           \/ \E email \in Emails, op \in {"signup", "signupSocial"} : BeginSignup(s, email, op)
           \/ \E u \in UserIds : CheckLimit(s, u) \/ ReadCode(s, u) \/ BeginWithdraw(s, u)
    PROVE  TypeOK'
<1> USE DEF TypeOK, tables, redis, job, Begin, Step
<1>1. ASSUME NEW email \in Emails, NEW op \in {"signup", "signupSocial"}, BeginSignup(s, email, op)
      PROVE  TypeOK'
  <2>1. FreshId \in UserIds
    BY <1>1 DEF BeginSignup, FreshId
  <2>2. [Step(op, FreshId) EXCEPT !.email = email, !.saw = Accounts] \in Request
    BY <2>1 DEF Request, Idle, Accounts
  <2> QED  BY <1>1, <2>2 DEF BeginSignup
<1>2. ASSUME NEW u \in UserIds, CheckLimit(s, u) PROVE TypeOK'
  <2>1. Step("setLimit", u) \in Request
    BY DEF Request, Idle
  <2> QED  BY <1>2, <2>1 DEF CheckLimit
<1>3. ASSUME NEW u \in UserIds, ReadCode(s, u) PROVE TypeOK'
  <2>1. Step("spend", u) \in Request
    BY DEF Request, Idle
  <2> QED  BY <1>3, <2>1 DEF ReadCode
<1>4. ASSUME NEW u \in UserIds, BeginWithdraw(s, u) PROVE TypeOK'
  <2>1. users[u].email \in Emails \cup {NoEmail}
    BY DEF User, NoRow
  <2>2. [Step("withdraw", u) EXCEPT !.email = users[u].email] \in Request
    BY <2>1 DEF Request, Idle
  <2> QED  BY <1>4, <2>2 DEF BeginWithdraw
<1> QED  BY <1>1, <1>2, <1>3, <1>4

LEMMA FinishTypes == ASSUME TypeOK, NEW s \in Sessions, FinishRequest(s) PROVE TypeOK'
<1> USE DEF TypeOK, tables, redis, job, Finish, Goto
<1>0. request[s] # Idle => request[s] \in Request
  OBVIOUS
<1>1. CASE CommitSignup(s)
  <2>1. request[s] \in Request
    BY <1>0, <1>1, IdleIsNoRequest DEF CommitSignup
  <2>2. [email |-> request[s].email, verified |-> request[s].op = "signupSocial", created |-> now, login |-> now] \in User
    BY <2>1 DEF Request, User
  <2> QED  BY <1>1, <2>1, <2>2 DEF CommitSignup, Request
<1>2. CASE SetLimit(s)
  <2>1. [request[s] EXCEPT !.op = "setCode"] \in Request /\ now + LimitExpire \in 0 .. MaxTime + LimitExpire
    BY <1>0, <1>2, IdleIsNoRequest, AccountsAssumption DEF SetLimit, Request, Times
  <2> QED  BY <1>2, <2>1 DEF SetLimit
<1>3. CASE SetCode(s)
  <2>1. now + CodeExpire \in 0 .. MaxTime + CodeExpire
    BY AccountsAssumption DEF Times
  <2> QED  BY <1>3, <2>1 DEF SetCode
<1>4. CASE SpendCode(s)
  <2>1. [request[s] EXCEPT !.op = "verify"] \in Request /\ 0 \in 0 .. MaxTime + CodeExpire
    BY <1>0, <1>4, IdleIsNoRequest, AccountsAssumption DEF SpendCode, Request
  <2> QED  BY <1>4, <2>1 DEF SpendCode
<1>5. CASE Verify(s)
  <2> DEFINE u == request[s].user
  <2>1. u \in UserIds /\ users[u] \in User
    BY <1>0, <1>5, IdleIsNoRequest DEF Verify, Request, Exists
  <2>2. [users[u] EXCEPT !.verified = TRUE] \in User
    BY <2>1 DEF User
  <2> QED  BY <1>5, <2>1, <2>2 DEF Verify
<1>6. CASE CommitWithdraw(s)
  <2> DEFINE u == request[s].user
  <2>1. request[s] \in Request /\ u \in UserIds /\ users[u] \in User
    BY <1>0, <1>6, IdleIsNoRequest DEF CommitWithdraw, Request, Exists
  <2>2. [users[u] EXCEPT !.email = NoEmail] \in User
    BY <2>1 DEF User
  <2>3. withdrawals' \subseteq UserWithdrawal
    BY <1>6, <2>1 DEF CommitWithdraw, Request, UserWithdrawal
  <2> QED  BY <1>6, <2>1, <2>2, <2>3 DEF CommitWithdraw
<1>7. CASE Abort(s)
  BY <1>7 DEF Abort
<1> QED  BY <1>1, <1>2, <1>3, <1>4, <1>5, <1>6, <1>7 DEF FinishRequest

LEMMA OtherTypes ==
    ASSUME TypeOK, (\E u \in UserIds : Login(u) \/ Refresh(u)) \/ Sweep \/ FailSweep \/ Advance
    PROVE  TypeOK'
<1> USE AccountsAssumption DEF TypeOK, tables, redis, job, EndSweep, Asleep
<1>1. ASSUME NEW u \in UserIds, Login(u) PROVE TypeOK'
  <2>1. [users[u] EXCEPT !.login = now] \in User
    BY <1>1 DEF Login, Exists, User
  <2> QED  BY <1>1, <2>1 DEF Login
<1>2. ASSUME NEW u \in UserIds, Refresh(u) PROVE TypeOK'
  BY <1>2 DEF Refresh
<1>3. CASE SelectGhosts
  <2> DEFINE ghosts == {u \in UserIds : IsGhost(u)}
  <2>1. [pc |-> "delete", targets |-> ghosts] \in [pc : {"sleep", "delete"}, targets : SUBSET UserIds]
    OBVIOUS
  <2>2. sweep' \in [pc : {"sleep", "delete"}, targets : SUBSET UserIds] /\ swept' \in BOOLEAN
    BY <1>3, <2>1 DEF SelectGhosts
  <2> QED  BY <1>3, <2>2 DEF SelectGhosts
<1>4. CASE DeleteGhosts
  <2>1. users' \in [UserIds -> User \cup {NoRow}]
    BY <1>4 DEF DeleteGhosts
  <2>2. issued' \in [UserIds -> Times \cup {Never}]
    BY <1>4 DEF DeleteGhosts
  <2> QED  BY <1>4, <2>1, <2>2 DEF DeleteGhosts
<1>5. CASE ForbidDelete
  BY <1>5 DEF ForbidDelete
<1>6. CASE FailSweep
  BY <1>6 DEF FailSweep
<1>7. CASE Advance
  <2>1. now' \in Times
    BY <1>7 DEF Advance, Times
  <2>2. code' \in [UserIds -> 0 .. MaxTime + CodeExpire] /\ limit' \in [UserIds -> 0 .. MaxTime + LimitExpire]
    BY <1>7 DEF Advance, Forget
  <2> QED  BY <1>7, <2>1, <2>2 DEF Advance
<1> QED  BY <1>1, <1>2, <1>3, <1>4, <1>5, <1>6, <1>7 DEF Sweep

LEMMA TypesNext == ASSUME TypeOK, Next PROVE TypeOK'
  BY BeginTypes, FinishTypes, OtherTypes DEF Next
-----------------------------------------------------------------------------
(* Only three steps create, delete or rename a row; these are their effects. *)
Quiet ==
    /\ \A u \in UserIds : (Exists(u)' <=> Exists(u)) /\ users'[u].email = users[u].email
    /\ gone' = gone /\ withdrawals' = withdrawals

LEMMA QuietSteps ==
    ASSUME TypeOK, Next
    PROVE  \/ Quiet \/ DeleteGhosts
           \/ \E s \in Sessions : CommitSignup(s) \/ CommitWithdraw(s)
<1> USE DEF TypeOK, tables, redis, job
<1>0. UNCHANGED tables => Quiet
  BY DEF Quiet, Exists
<1>1. ASSUME NEW s \in Sessions, NEW email \in Emails, NEW op \in {"signup", "signupSocial"}, BeginSignup(s, email, op)
      PROVE  Quiet
  BY <1>0, <1>1 DEF BeginSignup
<1>2. ASSUME NEW s \in Sessions, NEW u \in UserIds, CheckLimit(s, u) \/ ReadCode(s, u) \/ BeginWithdraw(s, u)
      PROVE  Quiet
  BY <1>0, <1>2 DEF CheckLimit, ReadCode, BeginWithdraw
<1>3. ASSUME NEW s \in Sessions, SetLimit(s) \/ SetCode(s) \/ SpendCode(s) \/ Abort(s) PROVE Quiet
  BY <1>0, <1>3 DEF SetLimit, SetCode, SpendCode, Abort
<1>4. ASSUME NEW s \in Sessions, Verify(s) PROVE Quiet
  <2> DEFINE u == request[s].user
  <2>1. u \in UserIds /\ users[u] \in User
    BY <1>4, IdleIsNoRequest DEF Verify, Request, Exists
  <2>2. users' = [users EXCEPT ![u] = [@ EXCEPT !.verified = TRUE]]
    BY <1>4 DEF Verify
  <2>3. users'[u] \in User /\ users'[u].email = users[u].email
    BY <2>1, <2>2 DEF User
  <2>4. \A v \in UserIds \ {u} : users'[v] = users[v]
    BY <2>2
  <2> QED  BY <1>4, <2>1, <2>3, <2>4, NoRowIsNoUser DEF Quiet, Exists, Verify
<1>5. ASSUME NEW u \in UserIds, Login(u) PROVE Quiet
  <2>1. users[u] \in User
    BY <1>5 DEF Login, Exists
  <2>2. users' = [users EXCEPT ![u] = [@ EXCEPT !.login = now]]
    BY <1>5 DEF Login
  <2>3. users'[u] \in User /\ users'[u].email = users[u].email
    BY <2>1, <2>2 DEF User
  <2>4. \A v \in UserIds \ {u} : users'[v] = users[v]
    BY <2>2
  <2> QED  BY <1>5, <2>1, <2>3, <2>4, NoRowIsNoUser DEF Quiet, Exists, Login
<1>6. ASSUME NEW u \in UserIds, Refresh(u) PROVE Quiet
  BY <1>0, <1>6 DEF Refresh
<1>7. ASSUME SelectGhosts \/ ForbidDelete \/ FailSweep \/ Advance PROVE Quiet
  BY <1>0, <1>7 DEF SelectGhosts, ForbidDelete, FailSweep, EndSweep, Advance
<1> QED  BY <1>1, <1>2, <1>3, <1>4, <1>5, <1>6, <1>7 DEF Next, FinishRequest, Sweep

LEMMA SignupEffect ==
    ASSUME TypeOK, Signups, NEW s \in Sessions, CommitSignup(s)
    PROVE  LET u == request[s].user IN
           /\ u \in UserIds /\ ~Exists(u) /\ u \notin gone /\ SigningUp(s)
           /\ request[s].email \in Emails /\ EmailIsFree(request[s].email)
           /\ users'[u] # NoRow /\ users'[u].email = request[s].email
           /\ \A v \in UserIds \ {u} : users'[v] = users[v]
           /\ request'[s] = Idle /\ \A t \in Sessions \ {s} : request'[t] = request[t]
           /\ UNCHANGED <<now, gone, withdrawals, sweep>>
<1> DEFINE r == request[s]
           row == [email |-> r.email, verified |-> r.op = "signupSocial", created |-> now, login |-> now]
<1>1. SigningUp(s) /\ r \in Request
  BY IdleIsNoRequest DEF CommitSignup, SigningUp, TypeOK
<1>2. users' = [users EXCEPT ![r.user] = row]
  BY DEF CommitSignup
<1>3. r.user \in UserIds /\ r.email \in Emails \cup {NoEmail} /\ now \in Times
  BY <1>1 DEF Request, TypeOK
<1>4. row \in User
  BY <1>3 DEF User
<1>5. users'[r.user] = row /\ \A v \in UserIds \ {r.user} : users'[v] = users[v]
  BY <1>2, <1>3 DEF TypeOK
<1>6. request' = [request EXCEPT ![s] = Idle]
  BY DEF CommitSignup, Finish
<1>7. request'[s] = Idle /\ \A t \in Sessions \ {s} : request'[t] = request[t]
  BY <1>6 DEF TypeOK
<1>8. EmailIsFree(r.email) /\ UNCHANGED <<now, gone, withdrawals, sweep>>
  BY DEF CommitSignup, job
<1>9. ~Exists(r.user) /\ r.user \notin gone /\ r.email \in Emails
  BY <1>1 DEF Signups
<1>10. users'[r.user] # NoRow /\ users'[r.user].email = r.email
  BY <1>4, <1>5, NoRowIsNoUser
<1> QED
  BY <1>1, <1>3, <1>5, <1>7, <1>8, <1>9, <1>10

LEMMA WithdrawEffect ==
    ASSUME TypeOK, NEW s \in Sessions, CommitWithdraw(s)
    PROVE  LET r == request[s] IN
           /\ r.user \in UserIds /\ Exists(r.user) /\ Withdrawing(s)
           /\ users'[r.user] # NoRow /\ users'[r.user].email = NoEmail
           /\ \A v \in UserIds \ {r.user} : users'[v] = users[v]
           /\ users'[r.user].login = users[r.user].login /\ users'[r.user].created = users[r.user].created
           /\ withdrawals' = IF r.email = NoEmail THEN withdrawals
                             ELSE withdrawals \cup {[user |-> r.user, email |-> r.email, at |-> now]}
           /\ request'[s] = Idle /\ \A t \in Sessions \ {s} : request'[t] = request[t]
           /\ UNCHANGED <<now, gone, sweep>>
<1> DEFINE r == request[s]
<1>1. Withdrawing(s) /\ r \in Request /\ Exists(r.user)
  BY IdleIsNoRequest DEF CommitWithdraw, Withdrawing, TypeOK
<1>2. r.user \in UserIds /\ users[r.user] \in User
  BY <1>1 DEF Request, TypeOK, Exists
<1>3. users' = [users EXCEPT ![r.user] = [@ EXCEPT !.email = NoEmail]]
  BY DEF CommitWithdraw
<1>4. users'[r.user] = [users[r.user] EXCEPT !.email = NoEmail] /\ \A v \in UserIds \ {r.user} : users'[v] = users[v]
  BY <1>2, <1>3 DEF TypeOK
<1>5. /\ users'[r.user] \in User /\ users'[r.user].email = NoEmail
      /\ users'[r.user].login = users[r.user].login /\ users'[r.user].created = users[r.user].created
  BY <1>2, <1>4 DEF User
<1>6. request' = [request EXCEPT ![s] = Idle]
  BY DEF CommitWithdraw, Finish
<1>7. request'[s] = Idle /\ \A t \in Sessions \ {s} : request'[t] = request[t]
  BY <1>6 DEF TypeOK
<1>8. /\ withdrawals' = IF r.email = NoEmail THEN withdrawals
                        ELSE withdrawals \cup {[user |-> r.user, email |-> r.email, at |-> now]}
      /\ UNCHANGED <<now, gone, sweep>>
  BY DEF CommitWithdraw, job
<1>9. users'[r.user] # NoRow
  BY <1>5, NoRowIsNoUser
<1> QED
  BY <1>1, <1>2, <1>4, <1>5, <1>7, <1>8, <1>9

LEMMA DeleteEffect ==
    ASSUME TypeOK, DeleteGhosts
    PROVE  /\ sweep.targets \subseteq UserIds /\ sweep.pc = "delete" /\ sweep'.pc = "sleep"
           /\ \A w \in withdrawals : w.user \notin sweep.targets
           /\ \A u \in UserIds : Exists(u)' <=> Exists(u) /\ u \notin sweep.targets
           /\ \A u \in UserIds : u \notin sweep.targets => users'[u] = users[u]
           /\ gone' = gone \cup sweep.targets
           /\ UNCHANGED <<now, withdrawals, request>>
  BY DEF TypeOK, DeleteGhosts, Asleep, Exists

(* A signup or a withdrawal in flight has just begun, or is as it was.      *)
LEMMA RequestSteps ==
    ASSUME TypeOK, Next, NEW s \in Sessions
    PROVE  /\ SigningUp(s)' => \/ UNCHANGED <<now, request[s]>>
                               \/ \E email \in Emails, op \in {"signup", "signupSocial"} : BeginSignup(s, email, op)
           /\ Withdrawing(s)' => \/ UNCHANGED <<now, request[s]>>
                                 \/ \E u \in UserIds : BeginWithdraw(s, u)
<1> DEFINE Same == UNCHANGED <<now, request[s]>>
           None == ~SigningUp(s)' /\ ~Withdrawing(s)'
<1> USE IdleIsNoRequest DEF TypeOK, job, SigningUp, Withdrawing
<1>1. ASSUME NEW t \in Sessions, NEW email \in Emails, NEW op \in {"signup", "signupSocial"}, BeginSignup(t, email, op)
      PROVE  Same \/ t = s
  BY <1>1 DEF BeginSignup, Begin
<1>2. ASSUME NEW t \in Sessions, NEW u \in UserIds, CheckLimit(t, u) \/ ReadCode(t, u)
      PROVE  Same \/ None
  BY <1>2 DEF CheckLimit, ReadCode, Begin, Step, Idle
<1>3. ASSUME NEW t \in Sessions, NEW u \in UserIds, BeginWithdraw(t, u) PROVE Same \/ t = s
  BY <1>3 DEF BeginWithdraw, Begin
<1>5. ASSUME NEW t \in Sessions, FinishRequest(t) PROVE Same \/ None
  <2>1. CASE CommitSignup(t) \/ CommitWithdraw(t) \/ Abort(t) \/ SetCode(t) \/ Verify(t)
    BY <2>1 DEF CommitSignup, CommitWithdraw, Abort, SetCode, Verify, Finish
  <2>2. CASE SetLimit(t) \/ SpendCode(t)
    <3>1. request[t] \in Request
      BY <2>2 DEF SetLimit, SpendCode
    <3> QED  BY <2>2, <3>1 DEF SetLimit, SpendCode, Goto, Request
  <2> QED  BY <1>5, <2>1, <2>2 DEF FinishRequest
<1>6. ASSUME NEW u \in UserIds, Login(u) \/ Refresh(u) PROVE Same
  BY <1>6 DEF Login, Refresh
<1>7. ASSUME Sweep \/ FailSweep PROVE Same
  BY <1>7 DEF Sweep, FailSweep, EndSweep, SelectGhosts, DeleteGhosts, ForbidDelete
<1>8. ASSUME Advance PROVE None
  BY <1>8 DEF Advance
<1>9. ASSUME NEW email \in Emails, NEW op \in {"signup", "signupSocial"}, BeginSignup(s, email, op)
      PROVE  ~Withdrawing(s)'
  BY <1>9 DEF BeginSignup, Begin, Step, Idle
<1>10. ASSUME NEW u \in UserIds, BeginWithdraw(s, u) PROVE ~SigningUp(s)'
  BY <1>10 DEF BeginWithdraw, Begin, Step, Idle
<1> QED  BY <1>1, <1>2, <1>3, <1>5, <1>6, <1>7, <1>8, <1>9, <1>10 DEF Next

-----------------------------------------------------------------------------
(* Each part of the invariant is preserved. *)
LEMMA OneAccountNext == ASSUME IInv, Next PROVE OneAccountPerEmail'
<1> SUFFICES ASSUME NEW u \in UserIds, NEW v \in UserIds, Exists(u)', Exists(v)',
                    users'[u].email = users'[v].email, users'[u].email # NoEmail
             PROVE  u = v
  BY DEF OneAccountPerEmail, Accounts
<1> USE DEF IInv, OneAccountPerEmail, Accounts
<1>1. CASE Quiet
  BY <1>1 DEF Quiet
<1>2. ASSUME NEW s \in Sessions, CommitSignup(s) PROVE u = v
  BY <1>2, SignupEffect DEF EmailIsFree, Exists
<1>3. ASSUME NEW s \in Sessions, CommitWithdraw(s) PROVE u = v
  BY <1>3, WithdrawEffect DEF Exists
<1>4. CASE DeleteGhosts
  BY <1>4, DeleteEffect
<1> QED  BY <1>1, <1>2, <1>3, <1>4, QuietSteps

LEMMA RecordsNext == ASSUME IInv, Next PROVE Records'
<1> SUFFICES ASSUME NEW u \in UserIds PROVE (Withdrawn(u) <=> \E w \in withdrawals : w.user = u)'
  BY DEF Records
<1>0. Withdrawn(u) <=> \E w \in withdrawals : w.user = u
  BY DEF IInv, Records
<1> USE DEF IInv, Withdrawn
<1>1. CASE Quiet
  BY <1>0, <1>1 DEF Quiet
<1>2. ASSUME NEW s \in Sessions, CommitSignup(s)
      PROVE  (Withdrawn(u) <=> \E w \in withdrawals : w.user = u)'
  BY <1>0, <1>2, SignupEffect, AccountsAssumption DEF Exists
<1>3. ASSUME NEW s \in Sessions, CommitWithdraw(s)
      PROVE  (Withdrawn(u) <=> \E w \in withdrawals : w.user = u)'
  <2> DEFINE r == request[s]
  <2>1. CASE u # r.user
    BY <1>0, <1>3, <2>1, WithdrawEffect DEF Exists
  <2>2. CASE u = r.user /\ r.email # NoEmail
    <3>1. [user |-> u, email |-> r.email, at |-> now] \in withdrawals'
      BY <1>3, <2>2, WithdrawEffect
    <3>2. \E w \in withdrawals' : w.user = u
      BY <3>1
    <3> QED  BY <1>3, <2>2, <3>2, WithdrawEffect DEF Exists
  <2>3. CASE u = r.user /\ r.email = NoEmail
    <3>1. users[u].email = NoEmail
      BY <1>3, <2>3, WithdrawEffect DEF Withdrawals, AddressRead
    <3> QED  BY <1>0, <1>3, <2>3, <3>1, WithdrawEffect DEF Exists
  <2> QED  BY <2>1, <2>2, <2>3
<1>4. CASE DeleteGhosts
  BY <1>0, <1>4, DeleteEffect
<1> QED  BY <1>1, <1>2, <1>3, <1>4, QuietSteps

LEMMA SignupsNext == ASSUME IInv, Next PROVE Signups'
<1> DEFINE Free(u) == ~Exists(u) /\ u \notin gone
<1>1. ASSUME NEW s \in Sessions, SigningUp(s)', NEW t \in Sessions \ {s}, SigningUp(t)'
      PROVE  request'[t].user # request'[s].user
  <2>1. ASSUME NEW x \in Sessions, NEW y \in Sessions \ {x}, NEW email \in Emails, NEW op \in {"signup", "signupSocial"}, BeginSignup(x, email, op)
        PROVE  request'[x].user # request'[y].user
    BY <2>1 DEF IInv, TypeOK, BeginSignup, Begin, Step, Idle, FreshId, Reserved
  <2>2. CASE UNCHANGED <<request[s], request[t]>>
    BY <1>1, <2>2 DEF IInv, Signups, SigningUp
  <2> QED  BY <1>1, <2>1, <2>2, RequestSteps DEF IInv
<1>2. ASSUME NEW s \in Sessions, SigningUp(s)', UNCHANGED request[s]
      PROVE  /\ users'[request'[s].user] = NoRow
                                                                         /\ request'[s].user \notin gone'
                                                                         /\ request'[s].email \in Emails
  <2> DEFINE u == request[s].user
  <2>1. SigningUp(s) /\ Free(u) /\ u \in UserIds /\ request[s].email \in Emails
    BY <1>2, IdleIsNoRequest DEF SigningUp, IInv, Signups, TypeOK, Request
  <2>2. CASE Quiet
    BY <1>2, <2>1, <2>2 DEF Quiet, Exists
  <2>3. ASSUME NEW t \in Sessions, CommitSignup(t) PROVE users'[u] = NoRow /\ u \notin gone'
    <3>1. t # s
      BY <1>2, <2>3, SignupEffect, IdleIsNoRequest DEF IInv, SigningUp
    <3>2. request[t].user # u
      BY <2>1, <2>3, <3>1, SignupEffect DEF IInv, Signups
    <3> QED  BY <2>1, <2>3, <3>2, SignupEffect DEF IInv, Exists
  <2>4. ASSUME NEW t \in Sessions, CommitWithdraw(t) PROVE users'[u] = NoRow /\ u \notin gone'
    BY <2>1, <2>4, WithdrawEffect DEF IInv, Exists
  <2>5. CASE DeleteGhosts
    BY <1>2, <2>1, <2>5, DeleteEffect DEF IInv, Ghosts, Exists
  <2> QED  BY <1>2, <2>1, <2>2, <2>3, <2>4, <2>5, QuietSteps DEF IInv
<1>3. ASSUME NEW s \in Sessions, NEW email \in Emails, NEW op \in {"signup", "signupSocial"}, BeginSignup(s, email, op)
      PROVE  /\ users'[request'[s].user] = NoRow
             /\ request'[s].user \notin gone'
             /\ request'[s].email \in Emails
  BY <1>3 DEF IInv, TypeOK, BeginSignup, Begin, Step, Idle, FreshId, Exists, tables
<1> QED  BY <1>1, <1>2, <1>3, RequestSteps DEF IInv, Signups, Exists

LEMMA SeenNext == ASSUME IInv, Next PROVE Seen'
<1> SUFFICES ASSUME NEW s \in Sessions, SigningUp(s)', NEW u \in request'[s].saw
             PROVE  /\ users'[u] # NoRow \/ u \in gone'
                    /\ users'[u] # NoRow => users'[u].email # request'[s].email
                    /\ \A w \in withdrawals' : w.user = u /\ w.email = request'[s].email => now' - w.at >= Cooldown
  BY DEF Seen, Exists
<1> USE DEF IInv
<1>1. ASSUME NEW email \in Emails, NEW op \in {"signup", "signupSocial"}, BeginSignup(s, email, op)
      PROVE  /\ users'[u] # NoRow
             /\ users'[u].email # request'[s].email
             /\ \A w \in withdrawals' : w.email = request'[s].email => now' - w.at >= Cooldown
  <2>1. request'[s].email = email /\ request'[s].saw = Accounts
    BY <1>1 DEF TypeOK, BeginSignup, Begin, Step, Idle
  <2>2. \A w \in withdrawals : w.email = email => now - w.at >= Cooldown
    <3>1. \A w \in withdrawals : w.at \in Int
      BY DEF TypeOK, UserWithdrawal, Times
    <3> QED  BY <1>1, <3>1, AccountsAssumption DEF BeginSignup, InCooldown, TypeOK, Times
  <2> QED  BY <1>1, <2>1, <2>2 DEF BeginSignup, tables, Accounts, Exists
<1>2. ASSUME UNCHANGED <<now, request[s]>>
      PROVE  /\ users'[u] # NoRow \/ u \in gone'
             /\ users'[u] # NoRow => users'[u].email # request'[s].email
             /\ \A w \in withdrawals' : w.user = u /\ w.email = request'[s].email => now' - w.at >= Cooldown
  <2> DEFINE m == request[s].email
  <2>1. SigningUp(s) /\ u \in request[s].saw /\ request[s] \in Request
    BY <1>2, IdleIsNoRequest DEF SigningUp, TypeOK
  <2>2. /\ u \in UserIds /\ m \in Emails
        /\ Exists(u) \/ u \in gone
        /\ Exists(u) => users[u].email # m
        /\ \A w \in withdrawals : w.user = u /\ w.email = m => now - w.at >= Cooldown
    BY <2>1 DEF Request, Seen, Signups
  <2>3. CASE Quiet
    BY <1>2, <2>2, <2>3 DEF Quiet, Exists
  <2>4. ASSUME NEW t \in Sessions, CommitSignup(t)
        PROVE  users'[u] = users[u] /\ UNCHANGED <<gone, withdrawals>>
    BY <2>2, <2>4, SignupEffect
  <2>5. ASSUME NEW t \in Sessions, CommitWithdraw(t)
        PROVE  /\ users'[u] # NoRow \/ u \in gone'
               /\ users'[u] # NoRow => users'[u].email # m
               /\ \A w \in withdrawals' : w.user = u /\ w.email = m => now - w.at >= Cooldown
    <3>1. request[t].user = u => request[t].email # m
      <4> SUFFICES ASSUME request[t].user = u, request[t].email = m PROVE FALSE
        OBVIOUS
      <4>1. Exists(u) /\ Withdrawing(t)
        BY <2>5, WithdrawEffect
      <4>2. AddressRead(t)
        BY <4>1 DEF Withdrawals
      <4>3. [user |-> u, email |-> m, at |-> now] \in withdrawals
        BY <2>2, <4>1, <4>2 DEF AddressRead
      <4>4. now - now >= Cooldown
        BY <2>2, <4>3
      <4> QED  BY <4>4, AccountsAssumption DEF TypeOK, Times
    <3>2. (users'[u] # NoRow \/ u \in gone') /\ (users'[u] # NoRow => users'[u].email # m)
      BY <2>2, <2>5, WithdrawEffect, AccountsAssumption DEF Exists
    <3>3. \A w \in withdrawals' : w \in withdrawals \/ (w.user = request[t].user /\ w.email = request[t].email)
      BY <2>5, WithdrawEffect
    <3> QED  BY <2>2, <3>1, <3>2, <3>3
  <2>6. CASE DeleteGhosts
    BY <1>2, <2>2, <2>6, DeleteEffect DEF Exists
  <2> QED  BY <1>2, <2>2, <2>3, <2>4, <2>5, <2>6, QuietSteps DEF Exists
<1> QED  BY <1>1, <1>2, RequestSteps

LEMMA WithdrawalsNext == ASSUME IInv, Next PROVE Withdrawals'
<1> USE DEF IInv
<1> SUFFICES ASSUME NEW s \in Sessions, Withdrawing(s)'
             PROVE  LET r == request'[s] IN
                    /\ users'[r.user] # NoRow \/ r.user \in gone'
                    /\ users'[r.user] # NoRow => AddressRead(s)'
  BY DEF Withdrawals, Exists
<1>1. ASSUME NEW u \in UserIds, BeginWithdraw(s, u)
      PROVE  users'[request'[s].user] # NoRow /\ AddressRead(s)'
  <2>1. request'[s].user = u /\ request'[s].email = users[u].email
    BY <1>1 DEF TypeOK, BeginWithdraw, Begin, Step, Idle
  <2>2. users' = users /\ Exists(u)
    BY <1>1 DEF BeginWithdraw, HasToken, tables
  <2> QED  BY <2>1, <2>2 DEF AddressRead, Exists
<1>2. ASSUME UNCHANGED <<now, request[s]>>
      PROVE  LET r == request'[s] IN
             /\ users'[r.user] # NoRow \/ r.user \in gone'
             /\ users'[r.user] # NoRow => AddressRead(s)'
  <2> DEFINE u == request[s].user
             m == request[s].email
             record == [user |-> u, email |-> m, at |-> now]
             Goal == /\ users'[u] # NoRow \/ u \in gone'
                     /\ users'[u] # NoRow => users'[u].email = m \/ (m # NoEmail /\ record \in withdrawals')
  <2>1. Withdrawing(s) /\ request[s] \in Request /\ u \in UserIds
    BY <1>2, IdleIsNoRequest DEF Withdrawing, TypeOK, Request
  <2>2. /\ Exists(u) \/ u \in gone
        /\ Exists(u) => users[u].email = m \/ (m # NoEmail /\ record \in withdrawals)
    BY <2>1 DEF Withdrawals, AddressRead
  <2>3. ASSUME Quiet PROVE Goal
    BY <2>1, <2>2, <2>3 DEF Quiet, Exists
  <2>4. ASSUME NEW t \in Sessions, CommitSignup(t) PROVE Goal
    BY <2>1, <2>2, <2>4, SignupEffect DEF Exists
  <2>5. ASSUME NEW t \in Sessions, CommitWithdraw(t) PROVE Goal
    <3>1. CASE request[t].user # u
      BY <2>1, <2>2, <2>5, <3>1, WithdrawEffect DEF Exists
    <3>2. CASE request[t].user = u /\ (m = NoEmail \/ record \in withdrawals)
      BY <2>1, <2>2, <2>5, <3>2, WithdrawEffect DEF Exists
    <3>3. CASE request[t].user = u /\ m # NoEmail /\ record \notin withdrawals
      <4>1. Exists(u) /\ Withdrawing(t) /\ users[u].email = m
        BY <2>2, <2>5, <3>3, WithdrawEffect
      <4>2. ~ \E w \in withdrawals : w.user = u
        BY <2>1, <3>3, <4>1 DEF Records, Withdrawn
      <4>3. request[t].email = m
        BY <3>3, <4>1, <4>2 DEF Withdrawals, AddressRead
      <4> QED  BY <2>5, <3>3, <4>1, <4>3, WithdrawEffect
    <3> QED  BY <3>1, <3>2, <3>3
  <2>6. ASSUME DeleteGhosts PROVE Goal
    BY <2>1, <2>2, <2>6, DeleteEffect DEF Exists
  <2>7. Goal
    BY <2>2, <2>3, <2>4, <2>5, <2>6, QuietSteps
  <2> QED  BY <1>2, <2>7 DEF AddressRead
<1> QED  BY <1>1, <1>2, RequestSteps

LEMMA GhostsNext == ASSUME IInv, Next PROVE Ghosts'
<1> USE DEF IInv, TypeOK
<1> SUFFICES ASSUME sweep'.pc = "delete", NEW u \in sweep'.targets
             PROVE  users'[u] # NoRow /\ MayBeSwept(u)'
  BY DEF Ghosts, Exists
<1>1. CASE SelectGhosts
  <2>1. users' = users /\ now' = now /\ IsGhost(u) /\ u \in UserIds
    BY <1>1 DEF SelectGhosts, tables
  <2>2. users[u] \in User
    BY <2>1 DEF IsGhost, Exists
  <2> QED  BY <2>1, <2>2, AccountsAssumption DEF IsGhost, Exists, MayBeSwept, User, Times
<1>2. ASSUME sweep' = sweep, ~Advance PROVE users'[u] # NoRow /\ MayBeSwept(u)'
  <2>1. Exists(u) /\ MayBeSwept(u) /\ u \in UserIds
    BY <1>2 DEF Ghosts
  <2>2. ASSUME NEW v \in UserIds, Login(v) PROVE users'[u] # NoRow /\ MayBeSwept(u)'
    <3>1. now' = now /\ users' = [users EXCEPT ![v] = [@ EXCEPT !.login = now]] /\ users[u] \in User
      BY <2>1, <2>2 DEF Login, Exists
    <3>2. u = v => users'[u] \in User /\ users'[u].login = now
      BY <3>1 DEF User
    <3>3. u # v => users'[u] = users[u]
      BY <2>1, <3>1
    <3> QED  BY <2>1, <3>1, <3>2, <3>3, NoRowIsNoUser DEF MayBeSwept, Exists
  <2>3. ASSUME NEW s \in Sessions, Verify(s) PROVE users'[u] # NoRow /\ MayBeSwept(u)'
    <3> DEFINE v == request[s].user
    <3>1. now' = now /\ users' = [users EXCEPT ![v] = [@ EXCEPT !.verified = TRUE]] /\ users[u] \in User
      BY <2>1, <2>3 DEF Verify, Exists
    <3>2. u = v => users'[u] \in User /\ users'[u].login = users[u].login /\ users'[u].created = users[u].created
      BY <2>1, <3>1 DEF User
    <3>3. u # v => users'[u] = users[u]
      BY <2>1, <3>1
    <3> QED  BY <2>1, <3>1, <3>2, <3>3, NoRowIsNoUser DEF MayBeSwept, Exists
  <2>4. ASSUME NEW s \in Sessions, CommitSignup(s) PROVE users'[u] # NoRow /\ MayBeSwept(u)'
    BY <2>1, <2>4, SignupEffect DEF MayBeSwept, Exists
  <2>5. ASSUME NEW s \in Sessions, CommitWithdraw(s) PROVE users'[u] # NoRow /\ MayBeSwept(u)'
    <3>1. /\ users'[u] # NoRow
          /\ users'[u].login = users[u].login /\ users'[u].created = users[u].created
          /\ now' = now
      BY <2>1, <2>5, WithdrawEffect DEF Exists
    <3> QED  BY <2>1, <3>1 DEF MayBeSwept
  <2>6. CASE UNCHANGED <<now, users>>
    BY <2>1, <2>6 DEF MayBeSwept, Exists
  <2>7. ASSUME NEW s \in Sessions, NEW v \in UserIds, CheckLimit(s, v) \/ ReadCode(s, v) \/ BeginWithdraw(s, v)
        PROVE  UNCHANGED <<now, users>>
    BY <2>7 DEF CheckLimit, ReadCode, BeginWithdraw, tables
  <2>8. ASSUME NEW s \in Sessions, NEW email \in Emails, NEW op \in {"signup", "signupSocial"}, BeginSignup(s, email, op)
        PROVE  UNCHANGED <<now, users>>
    BY <2>8 DEF BeginSignup, tables
  <2>9. ASSUME NEW s \in Sessions, SetLimit(s) \/ SetCode(s) \/ SpendCode(s) \/ Abort(s)
        PROVE  UNCHANGED <<now, users>>
    BY <2>9 DEF SetLimit, SetCode, SpendCode, Abort, tables
  <2>10. ASSUME NEW v \in UserIds, Refresh(v) PROVE UNCHANGED <<now, users>>
    BY <2>10 DEF Refresh, tables
  <2>11. ASSUME SelectGhosts \/ ForbidDelete \/ FailSweep PROVE UNCHANGED <<now, users>>
    BY <2>11 DEF SelectGhosts, ForbidDelete, FailSweep, EndSweep, tables
  <2>12. ~DeleteGhosts
    BY <1>2, DeleteEffect
  <2> QED
    BY <1>2, <2>2, <2>3, <2>4, <2>5, <2>6, <2>7, <2>8, <2>9, <2>10, <2>11, <2>12 DEF Next, FinishRequest, Sweep
<1>3. sweep' # sweep => SelectGhosts \/ sweep' = Asleep
  <2>1. ASSUME NEW s \in Sessions, FinishRequest(s) PROVE sweep' = sweep
    BY <2>1 DEF FinishRequest, CommitSignup, SetLimit, SetCode, SpendCode, Verify, CommitWithdraw, Abort, job
  <2> QED
    BY <2>1 DEF Next, BeginSignup, CheckLimit, ReadCode, BeginWithdraw, Login, Refresh, Sweep, DeleteGhosts,
                ForbidDelete, FailSweep, EndSweep, Advance, job
<1>4. ~Advance
  BY DEF Advance, Asleep
<1> QED  BY <1>1, <1>2, <1>3, <1>4 DEF Asleep

LEMMA NextInvariant == IInv /\ [Next]_vars => IInv'
<1> SUFFICES ASSUME IInv, [Next]_vars PROVE IInv'
  OBVIOUS
<1>1. CASE Next
  BY <1>1, TypesNext, OneAccountNext, RecordsNext, SignupsNext, SeenNext, WithdrawalsNext, GhostsNext DEF IInv
<1>2. CASE UNCHANGED vars
  BY <1>2
     DEF IInv, TypeOK, OneAccountPerEmail, Accounts, Records, Withdrawn, Signups, SigningUp, Seen, Withdrawals,
         Withdrawing, AddressRead, Ghosts, MayBeSwept, Exists, vars, tables, redis, job
<1> QED  BY <1>1, <1>2

(* What the code keeps true of its tables, keys, requests and sweep. *)
THEOREM Invariance == Spec => []IInv
  BY InitInvariant, NextInvariant, PTL DEF Spec

-----------------------------------------------------------------------------
(* Rows, keys, tokens and requests are always of their types. *)
THEOREM TypeCorrect == Spec => []TypeOK
<1>1. IInv => TypeOK
  BY DEF IInv
<1> QED  BY <1>1, Invariance, PTL

(* However signups overlap, no two accounts have one address. *)
THEOREM OneAccount == Spec => []OneAccountPerEmail
<1>1. IInv => OneAccountPerEmail
  BY DEF IInv
<1> QED  BY <1>1, Invariance, PTL

(* An account has lost its address exactly when its withdrawal is on record. *)
THEOREM Recorded == Spec => []WithdrawalsAreRecorded
<1>1. IInv => WithdrawalsAreRecorded
  <2> SUFFICES ASSUME IInv PROVE WithdrawalsAreRecorded
    OBVIOUS
  <2>1. \A w \in withdrawals : w.user \in UserIds
    BY DEF IInv, TypeOK, UserWithdrawal
  <2> QED  BY <2>1 DEF IInv, Records, WithdrawalsAreRecorded
<1> QED  BY <1>1, Invariance, PTL

(* No signup takes the address of an account it has seen that was withdrawn *)
(* within the cooldown.                                                     *)
CooldownStep ==
    \A s \in Sessions :
      LET r == request[s] IN
      request'[s] = Idle /\ r.op \in {"signup", "signupSocial"} /\ users'[r.user] # NoRow =>
          \A w \in withdrawals : w.email = r.email /\ now - w.at < Cooldown => w.user \notin r.saw

LEMMA CooldownNext == IInv /\ [Next]_vars => [CooldownStep]_vars
<1> SUFFICES ASSUME IInv, NEW s \in Sessions, SigningUp(s),
                    NEW w \in withdrawals, w.email = request[s].email, now - w.at < Cooldown
             PROVE  w.user \notin request[s].saw
  BY DEF CooldownStep, SigningUp
<1>1. now \in Int /\ w.at \in Int /\ Cooldown \in Int
  BY AccountsAssumption DEF IInv, TypeOK, UserWithdrawal, Times
<1> QED  BY <1>1 DEF IInv, Seen

THEOREM Cooldowns == Spec => CooldownHolds
<1>1. CooldownHolds <=> [][CooldownStep]_vars
  BY PTL DEF CooldownHolds, CooldownStep
<1> QED  BY <1>1, Invariance, CooldownNext, PTL DEF Spec

(* The sweep deletes an account only for one of the two reasons, unless its *)
(* owner logs in between the job's SELECT and its DELETE.                   *)
SweepStep ==
    \A u \in UserIds : Exists(u) /\ users'[u] = NoRow =>
      \/ users[u].login + Lifespan < now
      \/ users[u].created + HardLimit < now
      \/ users[u].login = now

LEMMA SweepNext == IInv /\ [Next]_vars => [SweepStep]_vars
<1> SUFFICES ASSUME IInv, Next, NEW u \in UserIds, Exists(u), users'[u] = NoRow PROVE MayBeSwept(u)
  BY DEF SweepStep, MayBeSwept
<1> USE DEF IInv
<1>1. ~Quiet
  BY DEF Quiet, Exists
<1>2. ASSUME NEW s \in Sessions, CommitSignup(s) PROVE FALSE
  BY <1>2, SignupEffect DEF Exists
<1>3. ASSUME NEW s \in Sessions, CommitWithdraw(s) PROVE FALSE
  BY <1>3, WithdrawEffect DEF Exists
<1>4. CASE DeleteGhosts
  BY <1>4, DeleteEffect DEF Ghosts, Exists
<1> QED  BY <1>1, <1>2, <1>3, <1>4, QuietSteps

THEOREM Swept == Spec => SweptAccountsWereIdle
<1>1. SweptAccountsWereIdle <=> [][SweepStep]_vars
  BY PTL DEF SweptAccountsWereIdle, SweepStep
<1> QED  BY <1>1, Invariance, SweepNext, PTL DEF Spec
=============================================================================
