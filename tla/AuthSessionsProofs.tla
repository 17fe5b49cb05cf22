------------------------- MODULE AuthSessionsProofs -------------------------
(***************************************************************************)
(* What AuthSessions guarantees for any users, tokens and terms.  Time does *)
(* not move while a request is half done, so what its caller's suspension   *)
(* was when it began is what it is when it commits, unless a suspension was *)
(* committed in between; and of those `unaware` keeps account.              *)
(***************************************************************************)
EXTENDS AuthSessions, TLAPS

(* Whose suspension the commit of a request depends on. *)
Concerns(s, u) == u = txn[s].user \/ (txn[s].op = "suspend" /\ u = txn[s].target)

(* A request that is about to commit concerns nobody whose suspension is in *)
(* force, but for suspensions it is unaware of.                             *)
Aware ==
    \A s \in Sessions, u \in Users :
        Writing(s) /\ Concerns(s, u) /\ InForce(u) => s \in unaware[u]

(* Administrators do not suspend themselves or change their own role. *)
OthersOnly ==
    \A s \in Sessions :
        InFlight(s) /\ txn[s].op \in {"suspend", "role"} => txn[s].user # txn[s].target

IInv == TypeOK /\ Aware /\ OthersOnly

-----------------------------------------------------------------------------
(* The first request has seen all suspensions there are: none. *)
LEMMA InitInvariant == Init => IInv
  BY AuthAssumption DEF Init, IInv, TypeOK, Aware, OthersOnly, Writing, InFlight, InForce, Times

(* What a request begins with is a request. *)
LEMMA DraftTypes ==
    ASSUME NEW p, p.user \in Users, p.at \in Times, NEW op \in
             {"other", "issue", "suspend", "role", "withdraw", "revokeAccess", "revokeRefresh"}
    PROVE  /\ Draft(op, p) \in Request
           /\ Draft(op, p).user = p.user /\ Draft(op, p).op = op
  BY AuthAssumption DEF Draft, Request, UserRole, Times

(* A request begins with nobody's suspension in force that it concerns. *)
LEMMA BeginInvariant ==
    ASSUME IInv, NEW s \in Sessions, NEW draft \in Request, Begin(s, draft),
           draft.op \in {"suspend", "role"} => draft.user # draft.target,
           draft.op = "suspend" => ~InForce(draft.target)
    PROVE  IInv'
<1> DEFINE begun == [draft EXCEPT !.clears = suspendedUntil[draft.user] # 0]
<1>1. begun \in Request /\ begun.op = draft.op /\ begun.user = draft.user /\ begun.target = draft.target
  BY DEF Request
<1>2. txn' = [txn EXCEPT ![s] = begun] /\ UNCHANGED <<now, rows, issued, blacklist, unaware>>
  BY DEF Begin
<1> HIDE DEF begun
<1>3. TypeOK'
  BY <1>1, <1>2 DEF IInv, TypeOK, rows
<1>4. ASSUME NEW r \in Sessions, NEW u \in Users, Writing(r)', Concerns(r, u)', InForce(u)'
      PROVE  r \in unaware'[u]
  <2>0. InForce(u)
    BY <1>2, <1>4 DEF InForce, rows
  <2>1. CASE r = s
    <3>1. txn'[s] = begun
      BY <1>2 DEF IInv, TypeOK
    <3>2. u = draft.user \/ (draft.op = "suspend" /\ u = draft.target)
      BY <1>1, <1>4, <2>1, <3>1 DEF Concerns
    <3>3. ~InForce(draft.user)
      BY DEF Begin, PassesSuspensionCheck
    <3> QED  BY <2>0, <3>2, <3>3
  <2>2. CASE r # s
    <3>1. txn'[r] = txn[r]
      BY <1>2, <2>2 DEF IInv, TypeOK
    <3>2. Writing(r) /\ Concerns(r, u)
      BY <1>4, <3>1 DEF Writing, InFlight, Concerns
    <3> QED  BY <1>2, <2>0, <3>2 DEF IInv, Aware
  <2> QED  BY <2>1, <2>2
<1>5. OthersOnly'
  <2> SUFFICES ASSUME NEW r \in Sessions, InFlight(r)', txn'[r].op \in {"suspend", "role"}
               PROVE  txn'[r].user # txn'[r].target
    BY DEF OthersOnly
  <2>1. CASE r = s
    <3>1. txn'[r] = begun
      BY <1>2, <2>1 DEF IInv, TypeOK
    <3> QED  BY <1>1, <3>1
  <2>2. CASE r # s
    <3>1. txn'[r] = txn[r]
      BY <1>2, <2>2 DEF IInv, TypeOK
    <3> QED  BY <3>1 DEF IInv, OthersOnly, InFlight
  <2> QED  BY <2>1, <2>2
<1> QED  BY <1>3, <1>4, <1>5 DEF IInv, Aware

(* A request that ends, or goes on to revoke its tokens, leaves the others  *)
(* alone, so that what was true of them is.                                 *)
LEMMA EndInvariant ==
    ASSUME IInv, NEW s \in Sessions, TypeOK',
           \A r \in Sessions \ {s} : txn'[r] = txn[r], ~Writing(s)',
           InFlight(s)' => txn'[s].op \notin {"suspend", "role"},
           \A r \in Sessions \ {s}, u \in Users :
              Writing(r) /\ InForce(u)' => InForce(u) \/ r \in unaware'[u],
           \A r \in Sessions \ {s}, u \in Users : Writing(r) /\ r \in unaware[u] => r \in unaware'[u]
    PROVE  IInv'
<1>1. ASSUME NEW r \in Sessions, NEW u \in Users, Writing(r)', Concerns(r, u)', InForce(u)'
      PROVE  r \in unaware'[u]
  <2>1. r # s /\ txn'[r] = txn[r]
    BY <1>1
  <2>2. Writing(r) /\ Concerns(r, u)
    BY <1>1, <2>1 DEF Writing, InFlight, Concerns
  <2> QED  BY <1>1, <2>1, <2>2 DEF IInv, Aware
<1>2. OthersOnly'
  BY DEF IInv, OthersOnly, InFlight
<1> QED  BY <1>1, <1>2 DEF IInv, Aware

-----------------------------------------------------------------------------
(* Requests begin *)

LEMMA IssuedTypes == ASSUME TypeOK, NEW p \in issued PROVE p.user \in Users /\ p.at \in Times
  BY DEF TypeOK, Pair

LEMMA LoginInvariant ==
    ASSUME IInv, NEW s \in Sessions, NEW u \in Users, Login(s, u) PROVE IInv'
<1> DEFINE p == [user |-> u, at |-> now]
           draft == Draft("issue", p)
<1>1. p.user \in Users /\ p.at \in Times
  BY DEF IInv, TypeOK
<1>2. draft \in Request /\ draft.op = "issue"
  BY <1>1, DraftTypes
<1>3. Begin(s, draft)
  BY DEF Login
<1> QED  BY <1>2, <1>3, BeginInvariant

LEMMA OwnRequestInvariant ==
    ASSUME IInv, NEW s \in Sessions, NEW p \in issued,
           RefreshTokens(s, p) \/ OtherRequest(s, p) \/ Withdraw(s, p)
    PROVE  IInv'
<1>1. p.user \in Users /\ p.at \in Times
  BY IssuedTypes DEF IInv
<1>2. PICK op \in {"issue", "other", "withdraw"} : Begin(s, Draft(op, p))
  BY DEF RefreshTokens, OtherRequest, Withdraw
<1>3. Draft(op, p) \in Request /\ Draft(op, p).op = op
  BY <1>1, DraftTypes
<1> QED  BY <1>2, <1>3, BeginInvariant

LEMMA SuspendInvariant ==
    ASSUME IInv, NEW s \in Sessions, NEW p \in issued, NEW target \in Users, NEW term \in Terms,
           SuspendUser(s, p, target, term)
    PROVE  IInv'
<1> DEFINE base == Draft("suspend", p)
           draft == [base EXCEPT !.target = target, !.until = now + term]
<1>1. base \in Request /\ base.user = p.user /\ base.op = "suspend"
  BY IssuedTypes, DraftTypes DEF IInv
<1>2. now + term \in Nat
  BY AuthAssumption DEF IInv, TypeOK, Times
<1>3. p.user # target /\ ~InForce(target) /\ Begin(s, draft)
  BY DEF SuspendUser
<1> HIDE DEF base
<1>4. draft \in Request /\ draft.op = "suspend" /\ draft.user = p.user /\ draft.target = target
  BY <1>1, <1>2 DEF Request
<1> QED  BY <1>3, <1>4, BeginInvariant

LEMMA RoleInvariant ==
    ASSUME IInv, NEW s \in Sessions, NEW p \in issued, NEW target \in Users, NEW to \in UserRole,
           UpdateUserRole(s, p, target, to)
    PROVE  IInv'
<1> DEFINE base == Draft("role", p)
           draft == [base EXCEPT !.target = target, !.role = to]
<1>1. base \in Request /\ base.user = p.user /\ base.op = "role"
  BY IssuedTypes, DraftTypes DEF IInv
<1>2. p.user # target /\ Begin(s, draft)
  BY DEF UpdateUserRole
<1> HIDE DEF base
<1>3. draft \in Request /\ draft.op = "role" /\ draft.user = p.user /\ draft.target = target
  BY <1>1 DEF Request
<1> QED  BY <1>2, <1>3, BeginInvariant

(* A logout concerns nobody's suspension. *)
LEMMA LogoutInvariant ==
    ASSUME IInv, NEW s \in Sessions, NEW p \in issued, Logout(s, p) PROVE IInv'
<1>1. Draft("revokeAccess", p) \in Request /\ Draft("revokeAccess", p).op = "revokeAccess"
  BY IssuedTypes, DraftTypes DEF IInv
<1>2. txn' = [txn EXCEPT ![s] = Draft("revokeAccess", p)] /\ UNCHANGED <<now, rows, issued, blacklist, unaware>>
  BY DEF Logout
<1>3. TypeOK'
  BY <1>1, <1>2 DEF IInv, TypeOK, rows
<1>4. txn'[s] = Draft("revokeAccess", p) /\ \A r \in Sessions \ {s} : txn'[r] = txn[r]
  BY <1>2 DEF IInv, TypeOK
<1>5. ~Writing(s)' /\ txn'[s].op \notin {"suspend", "role"}
  BY <1>1, <1>4 DEF Writing
<1>6. \A u \in Users : InForce(u)' => InForce(u)
  BY <1>2 DEF InForce, rows
<1> QED  BY <1>2, <1>3, <1>4, <1>5, <1>6, EndInvariant

-----------------------------------------------------------------------------
(* Requests end *)

LEMMA CommitInvariant == ASSUME IInv, NEW s \in Sessions, Commit(s) PROVE IInv'
<1> DEFINE t == txn[s]
           revoking == [t EXCEPT !.op = "revokeAccess"]
<1>1. t \in Request
  BY DEF Commit, Writing, InFlight, IInv, TypeOK
<1>2. revoking \in Request /\ revoking.op = "revokeAccess"
  BY <1>1 DEF Request
<1>3. txn'[s] \in {revoking, NoRequest} /\ \A r \in Sessions \ {s} : txn'[r] = txn[r]
  BY DEF Commit, IInv, TypeOK
<1>4. \A u \in Users : unaware'[u] = IF t.op = "suspend" /\ u = t.target
                                     THEN {r \in Sessions : Writing(r)} \ {s} ELSE unaware[u] \ {s}
  BY DEF Commit
<1>5. TypeOK'
  <2>1. role' \in [Users -> UserRole] /\ deleted' \subseteq Users /\ suspendedUntil' \in [Users -> Nat]
    BY <1>1 DEF Commit, IInv, TypeOK, Request
  <2>2. issued' \subseteq Pair
    BY <1>1 DEF Commit, IInv, TypeOK, Request, Pair
  <2>3. txn' \in [Sessions -> Request \cup {NoRequest}]
    BY <1>2 DEF Commit, IInv, TypeOK
  <2>4. unaware' \in [Users -> SUBSET Sessions]
    BY DEF Commit, IInv, TypeOK
  <2> QED  BY <2>1, <2>2, <2>3, <2>4 DEF Commit, IInv, TypeOK
<1>6. ~Writing(s)' /\ (InFlight(s)' => txn'[s].op \notin {"suspend", "role"})
  BY <1>2, <1>3 DEF Writing, InFlight
<1>7. ASSUME NEW r \in Sessions \ {s}, NEW u \in Users, Writing(r), InForce(u)'
      PROVE  InForce(u) \/ r \in unaware'[u]
  <2>1. CASE t.op = "suspend" /\ u = t.target
    BY <1>4, <1>7, <2>1
  <2>2. CASE ~(t.op = "suspend" /\ u = t.target)
    <3>1. suspendedUntil'[u] \in {suspendedUntil[u], 0}
      BY <1>1, <2>2 DEF Commit, IInv, TypeOK, Request
    <3>2. now' = now /\ now \in Nat
      BY AuthAssumption DEF Commit, IInv, TypeOK, Times
    <3> QED  BY <1>7, <3>1, <3>2 DEF InForce
  <2> QED  BY <2>1, <2>2
<1>8. ASSUME NEW r \in Sessions \ {s}, NEW u \in Users, r \in unaware[u], Writing(r)
      PROVE  r \in unaware'[u]
  BY <1>4, <1>8
<1> QED  BY <1>3, <1>5, <1>6, <1>7, <1>8, EndInvariant

LEMMA AbortInvariant == ASSUME IInv, NEW s \in Sessions, Abort(s) PROVE IInv'
<1>1. TypeOK'
  BY DEF Abort, IInv, TypeOK, rows
<1>2. txn'[s] = NoRequest /\ \A r \in Sessions \ {s} : txn'[r] = txn[r]
  BY DEF Abort, IInv, TypeOK
<1>3. ~Writing(s)' /\ ~InFlight(s)'
  BY <1>2 DEF Writing, InFlight
<1>4. \A u \in Users : InForce(u)' => InForce(u)
  BY DEF Abort, InForce, rows
<1>5. \A r \in Sessions \ {s}, u \in Users : r \in unaware[u] => r \in unaware'[u]
  BY DEF Abort
<1> QED  BY <1>1, <1>2, <1>3, <1>4, <1>5, EndInvariant

(* The keys of the blacklist are tokens. *)
LEMMA BlacklistedTypes ==
    ASSUME TypeOK, NEW u \in Users, NEW at \in Times, NEW kind \in {"access", "refresh"}
    PROVE  DOMAIN Blacklisted([user |-> u, at |-> at], kind) \subseteq Pair \X {"access", "refresh"}
  BY DEF Blacklisted, TypeOK, Pair

LEMMA RevokeInvariant ==
    ASSUME IInv, NEW s \in Sessions, RevokeAccess(s) \/ RevokeRefresh(s) PROVE IInv'
<1> DEFINE t == txn[s]
           going == [t EXCEPT !.op = "revokeRefresh"]
<1>1. t \in Request
  BY DEF RevokeAccess, RevokeRefresh, InFlight, IInv, TypeOK
<1>2. going \in Request /\ going.op = "revokeRefresh"
  BY <1>1 DEF Request
<1>3. txn' \in {[txn EXCEPT ![s] = going], [txn EXCEPT ![s] = NoRequest]}
  BY DEF RevokeAccess, RevokeRefresh
<1>4. PICK kind \in {"access", "refresh"} : blacklist' = Blacklisted([user |-> t.user, at |-> t.at], kind)
  BY DEF RevokeAccess, RevokeRefresh
<1>5. UNCHANGED <<now, rows, issued, unaware>>
  BY DEF RevokeAccess, RevokeRefresh
<1> HIDE DEF going
<1>6. TypeOK'
  <2>1. DOMAIN blacklist' \subseteq Pair \X {"access", "refresh"}
    BY <1>1, <1>4, BlacklistedTypes DEF IInv, Request
  <2> QED  BY <1>2, <1>3, <1>5, <2>1 DEF IInv, TypeOK, rows
<1>7. txn'[s] \in {going, NoRequest} /\ \A r \in Sessions \ {s} : txn'[r] = txn[r]
  BY <1>3 DEF IInv, TypeOK
<1>8. ~Writing(s)' /\ (InFlight(s)' => txn'[s].op \notin {"suspend", "role"})
  BY <1>2, <1>7 DEF Writing, InFlight
<1>9. \A u \in Users : InForce(u)' => InForce(u)
  BY <1>5 DEF InForce, rows
<1> QED  BY <1>5, <1>6, <1>7, <1>8, <1>9, EndInvariant

(* Time moves on when there is no request to be concerned. *)
LEMMA AdvanceInvariant == ASSUME IInv, Advance PROVE IInv'
<1>1. TypeOK'
  BY AuthAssumption DEF Advance, IInv, TypeOK, rows, Times, Restrict
<1>2. Aware' /\ OthersOnly'
  BY DEF Advance, Aware, OthersOnly, Writing, InFlight
<1> QED  BY <1>1, <1>2 DEF IInv

LEMMA NextInvariant == ASSUME IInv, [Next]_vars PROVE IInv'
<1>1. ASSUME NEW s \in Sessions, NEW u \in Users, Login(s, u) PROVE IInv'
  BY <1>1, LoginInvariant
<1>2. ASSUME NEW s \in Sessions, NEW p \in issued,
             RefreshTokens(s, p) \/ OtherRequest(s, p) \/ Withdraw(s, p) PROVE IInv'
  BY <1>2, OwnRequestInvariant
<1>3. ASSUME NEW s \in Sessions, NEW p \in issued, Logout(s, p) PROVE IInv'
  BY <1>3, LogoutInvariant
<1>4. ASSUME NEW s \in Sessions, NEW p \in issued, NEW target \in Users, NEW term \in Terms,
             SuspendUser(s, p, target, term) PROVE IInv'
  BY <1>4, SuspendInvariant
<1>5. ASSUME NEW s \in Sessions, NEW p \in issued, NEW target \in Users, NEW to \in UserRole,
             UpdateUserRole(s, p, target, to) PROVE IInv'
  BY <1>5, RoleInvariant
<1>6. ASSUME NEW s \in Sessions, Commit(s) PROVE IInv'
  BY <1>6, CommitInvariant
<1>7. ASSUME NEW s \in Sessions, Abort(s) PROVE IInv'
  BY <1>7, AbortInvariant
<1>8. ASSUME NEW s \in Sessions, RevokeAccess(s) \/ RevokeRefresh(s) PROVE IInv'
  BY <1>8, RevokeInvariant
<1>9. CASE Advance
  BY <1>9, AdvanceInvariant
<1>10. CASE UNCHANGED vars
  BY <1>10 DEF vars, rows, IInv, TypeOK, Aware, OthersOnly, Writing, InFlight, Concerns, InForce
<1> QED  BY <1>1, <1>2, <1>3, <1>4, <1>5, <1>6, <1>7, <1>8, <1>9, <1>10 DEF Next

(* The invariant the rest follows from. *)
THEOREM Invariance == Spec => []IInv
<1>1. Init => IInv
  BY InitInvariant
<1>2. IInv /\ [Next]_vars => IInv'
  BY NextInvariant
<1> QED  BY <1>1, <1>2, PTL DEF Spec

(* Every row, token, blacklist key and request keeps its type. *)
THEOREM TypeCorrect == Spec => []TypeOK
<1>1. IInv => TypeOK
  BY DEF IInv
<1> QED  BY <1>1, Invariance, PTL

-----------------------------------------------------------------------------
(* The rows change in a commit only. *)
LEMMA RowsChangeByCommit ==
    ASSUME [Next]_vars, UNCHANGED now, rows' # rows
    PROVE  \E s \in Sessions : Commit(s)
<1>1. CASE UNCHANGED vars
  BY <1>1 DEF vars
<1>2. CASE Next
  <2>1. (\E s \in Sessions, u \in Users : Login(s, u)) => rows' = rows
    BY DEF Login, Begin
  <2>2. (\E s \in Sessions, p \in issued :
            RefreshTokens(s, p) \/ OtherRequest(s, p) \/ Withdraw(s, p) \/ Logout(s, p)) => rows' = rows
    BY DEF RefreshTokens, OtherRequest, Withdraw, Logout, Begin
  <2>3. (\E s \in Sessions, p \in issued, target \in Users :
            \/ \E term \in Terms : SuspendUser(s, p, target, term)
            \/ \E to \in UserRole : UpdateUserRole(s, p, target, to)) => rows' = rows
    BY DEF SuspendUser, UpdateUserRole, Begin
  <2>4. (\E s \in Sessions : Abort(s) \/ RevokeAccess(s) \/ RevokeRefresh(s)) => rows' = rows
    BY DEF Abort, RevokeAccess, RevokeRefresh
  <2>5. Advance => rows' = rows
    BY DEF Advance
  <2> QED  BY <1>2, <2>1, <2>2, <2>3, <2>4, <2>5 DEF Next
<1> QED  BY <1>1, <1>2

(* What a commit does to the rows of a user. *)
LEMMA CommitEffect ==
    ASSUME IInv, NEW s \in Sessions, Commit(s), NEW u \in Users
    PROVE  /\ txn[s] \in Request
           /\ Writing(s)
           /\ now' = now
           /\ \A r \in Sessions \ {s} : txn'[r] = txn[r]
           /\ role'[u] = role[u] \/ (txn[s].op = "role" /\ u = txn[s].target)
           /\ (u \in deleted' => (u \in deleted \/ (txn[s].op = "withdraw" /\ u = txn[s].user)))
           /\ \/ suspendedUntil'[u] = suspendedUntil[u]
              \/ (suspendedUntil'[u] = 0 /\ u = txn[s].user)
              \/ (txn[s].op = "suspend" /\ u = txn[s].target)
<1>1. txn[s] \in Request
  BY DEF Commit, Writing, InFlight, IInv, TypeOK
<1>2. txn[s].user \in Users /\ txn[s].target \in Users
  BY <1>1 DEF Request
<1>3. Writing(s) /\ now' = now /\ \A r \in Sessions \ {s} : txn'[r] = txn[r]
  BY DEF Commit, IInv, TypeOK
<1>4. role'[u] = role[u] \/ (txn[s].op = "role" /\ u = txn[s].target)
  BY <1>2 DEF Commit, IInv, TypeOK
<1>5. u \in deleted' => (u \in deleted \/ (txn[s].op = "withdraw" /\ u = txn[s].user))
  BY DEF Commit
<1>6. \/ suspendedUntil'[u] = suspendedUntil[u]
      \/ (suspendedUntil'[u] = 0 /\ u = txn[s].user)
      \/ (txn[s].op = "suspend" /\ u = txn[s].target)
  BY <1>2 DEF Commit, IInv, TypeOK
<1> QED  BY <1>1, <1>3, <1>4, <1>5, <1>6

(* A suspension keeps its user out and is not shortened, whoever asks for   *)
(* what at the same time, except by a request that began before it.         *)
THEOREM Suspensions == Spec => SuspensionsHoldUnlessOverlapped
<1> DEFINE Step == \A s \in Sessions, u \in Users :
        Commits(s) /\ InForce(u) /\ (txn[s].user = u \/ suspendedUntil'[u] < suspendedUntil[u])
            => s \in unaware[u]
<1>1. ASSUME IInv, [Next]_vars PROVE Step
  <2> SUFFICES ASSUME NEW s \in Sessions, NEW u \in Users, Commits(s), InForce(u),
                      txn[s].user = u \/ suspendedUntil'[u] < suspendedUntil[u]
               PROVE  s \in unaware[u]
    OBVIOUS
  <2>1. Concerns(s, u)
    <3>1. CASE txn[s].user = u
      BY <3>1 DEF Concerns
    <3>2. CASE suspendedUntil'[u] < suspendedUntil[u]
      <4>1. suspendedUntil[u] \in Nat
        BY <1>1 DEF IInv, TypeOK
      <4>2. rows' # rows
        BY <3>2, <4>1 DEF rows
      <4>3. UNCHANGED now
        BY <1>1, <4>2 DEF Next, vars, Advance, Login, RefreshTokens, OtherRequest, Withdraw, Logout,
              SuspendUser, UpdateUserRole, Begin, Commit, Abort, RevokeAccess, RevokeRefresh
      <4>4. PICK r \in Sessions : Commit(r)
        BY <1>1, <4>2, <4>3, RowsChangeByCommit
      <4>5. r = s
        BY <1>1, <4>4, CommitEffect DEF Commits
      <4> QED  BY <1>1, <3>2, <4>1, <4>4, <4>5, CommitEffect DEF Concerns
    <3> QED  BY <3>1, <3>2
  <2> QED  BY <1>1, <2>1 DEF IInv, Aware, Commits
<1> QED  BY <1>1, Invariance, PTL DEF Spec, SuspensionsHoldUnlessOverlapped

(* While the clock stands still, whoever acts stays able to act, and no     *)
(* other change of the rows can take the last administrator away.           *)
THEOREM Administrators == Spec => SomeAdminRemains
<1> DEFINE Step == (ActiveAdmins # {} /\ ActiveAdmins' = {}) =>
         \E s \in Sessions : /\ Commits(s)
                             /\ (txn[s].op = "withdraw" \/ txn[s].user \notin ActiveAdmins)
<1>1. ASSUME IInv, [Next]_vars PROVE Step
  <2> SUFFICES ASSUME ActiveAdmins # {}, ActiveAdmins' = {}
               PROVE  \E s \in Sessions : /\ Commits(s)
                                          /\ (txn[s].op = "withdraw" \/ txn[s].user \notin ActiveAdmins)
    OBVIOUS
  <2>1. ~Advance
    <3> SUFFICES ASSUME Advance PROVE FALSE
      OBVIOUS
    <3>1. PICK u \in Users : u \in ActiveAdmins
      BY DEF ActiveAdmins
    <3>2. now \in Nat /\ suspendedUntil[u] \in Nat
      BY <1>1, AuthAssumption DEF IInv, TypeOK, Times
    <3>3. u \in ActiveAdmins'
      BY <3>1, <3>2 DEF ActiveAdmins, Advance, rows, InForce
    <3> QED  BY <3>3
  <2>2. UNCHANGED now
    BY <1>1, <2>1 DEF Next, vars, Login, RefreshTokens, OtherRequest, Withdraw, Logout,
          SuspendUser, UpdateUserRole, Begin, Commit, Abort, RevokeAccess, RevokeRefresh
  <2>3. rows' # rows
    BY <2>2 DEF rows, ActiveAdmins, InForce
  <2>4. PICK s \in Sessions : Commit(s)
    BY <1>1, <2>2, <2>3, RowsChangeByCommit
  <2>5. txn[s] \in Request /\ Writing(s)
    BY <1>1, <2>4 DEF Commit, Writing, InFlight, IInv, TypeOK
  <2>6. txn'[s] # txn[s]
    BY <1>1, <2>4, <2>5 DEF Commit, Writing, InFlight, IInv, TypeOK, Request
  <2>7. Commits(s)
    BY <2>3, <2>5, <2>6 DEF Commits, rows
  <2>8. ASSUME txn[s].op # "withdraw", txn[s].user \in ActiveAdmins PROVE FALSE
    <3>0. PICK u \in Users : u = txn[s].user
      BY <2>5 DEF Request
    <3>1. u \notin deleted /\ role[u] = "ADMIN" /\ ~InForce(u)
      BY <2>8, <3>0 DEF ActiveAdmins
    <3>2. txn[s].op \in {"suspend", "role"} => u # txn[s].target
      BY <1>1, <2>5, <3>0 DEF IInv, OthersOnly, Writing
    <3>3. role'[u] = role[u] /\ u \notin deleted'
      BY <1>1, <2>4, <2>8, <3>0, <3>1, <3>2, CommitEffect
    <3>4. suspendedUntil'[u] \in {suspendedUntil[u], 0}
      BY <1>1, <2>4, <3>0, <3>2, CommitEffect
    <3>5. ~InForce(u)'
      BY <1>1, <2>2, <3>1, <3>4, AuthAssumption DEF InForce, IInv, TypeOK, Times
    <3> QED  BY <3>1, <3>3, <3>5 DEF ActiveAdmins, InForce
  <2> QED  BY <2>7, <2>8
<1> QED  BY <1>1, Invariance, PTL DEF Spec, SomeAdminRemains
=============================================================================
