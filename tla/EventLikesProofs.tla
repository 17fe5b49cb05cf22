-------------------------- MODULE EventLikesProofs --------------------------
(* What EventLikes guarantees for any users, events, ids and sessions. *)
EXTENDS EventLikes, FiniteSetTheorems, TLAPS

(***************************************************************************)
(* The strengthening.  At its commit a request writes a count computed from *)
(* an older state, so the invariant says how far off that will be: known as *)
(* Size(e) is the number of likes now, each request in flight is off by no  *)
(* more than what was overlooked before and what it overlooks itself.       *)
(***************************************************************************)
Size(e) == Cardinality(LikesOf(e))

Slack(t) == overlooked[t.like.event] + commits[t.like.event] - t.since

AddIsNear(t) ==
    t.sets /\ t.count >= 0 /\ Within(t.count - 1, Size(t.like.event), Slack(t))

(* When the row is gone already, somebody's removal has been overlooked. *)
RemoveIsNear(t) ==
    /\ t.count >= 0
    /\ Within(t.count + 1, Size(t.like.event), Slack(t))
    /\ t.like \notin likes => Size(t.like.event) - t.count <= Slack(t)

(* A request that leaves the count alone has seen it at zero. *)
NoCountIsNear(t) ==
    commits[t.like.event] = t.since => likeCount[t.like.event] = 0 /\ t.like \in likes

IsNear(t) ==
    /\ t.since <= commits[t.like.event]
    /\ t.kind = "add" => AddIsNear(t)
    /\ t.kind = "remove" /\ t.sets => RemoveIsNear(t)
    /\ t.kind = "remove" /\ ~t.sets => NoCountIsNear(t)

IInv ==
    /\ TypeOK
    /\ IsFiniteSet(likes)
    /\ CountDriftsByOverlapsOnly
    /\ \A s \in Sessions : InFlight(s) => IsNear(txn[s])

-----------------------------------------------------------------------------
LEMMA SizeIsNat ==
    ASSUME IsFiniteSet(likes), NEW e
    PROVE  IsFiniteSet(LikesOf(e)) /\ Size(e) \in Nat
<1>1. LikesOf(e) \subseteq likes
  BY DEF LikesOf
<1> QED
  BY <1>1, FS_Subset, FS_CardinalityType DEF Size

LEMMA InitIInv == Init => IInv
<1> SUFFICES ASSUME Init PROVE IInv
  OBVIOUS
<1>1. \A e : LikesOf(e) = {}
  BY DEF Init, LikesOf
<1>2. \A e : Size(e) = 0
  BY <1>1, FS_EmptySet DEF Size
<1>3. TypeOK
  BY DEF Init, TypeOK
<1>4. CountDriftsByOverlapsOnly
  BY <1>2 DEF Init, CountDriftsByOverlapsOnly, Within, Size
<1>5. IsFiniteSet(likes)
  BY FS_EmptySet DEF Init
<1> QED
  BY <1>3, <1>4, <1>5 DEF Init, IInv, InFlight

(* A handler changes its own request only. *)
LEMMA BeginKeepsIInv ==
    ASSUME IInv, NEW s \in Sessions, NEW kind, NEW like, NEW sets, NEW count,
           Begin(s, kind, like, sets, count),
           [kind |-> kind, like |-> like, sets |-> sets, count |-> count,
            since |-> commits[like.event]] \in Request,
           IsNear([kind |-> kind, like |-> like, sets |-> sets, count |-> count,
                   since |-> commits[like.event]])
    PROVE  IInv'
<1> DEFINE t == [kind |-> kind, like |-> like, sets |-> sets, count |-> count,
                 since |-> commits[like.event]]
<1>1. /\ likes' = likes /\ likeCount' = likeCount /\ commits' = commits
      /\ overlooked' = overlooked /\ txn' = [txn EXCEPT ![s] = t]
  BY DEF Begin
<1>2. txn \in [Sessions -> Request \cup {NoRequest}]
  BY DEF IInv, TypeOK
<1>3. TypeOK'
  BY <1>1, <1>2 DEF IInv, TypeOK
<1>4. IsFiniteSet(likes)' /\ CountDriftsByOverlapsOnly'
  BY <1>1 DEF IInv, CountDriftsByOverlapsOnly, LikesOf
<1>5. ASSUME NEW r \in Sessions, InFlight(r)' PROVE IsNear(txn[r])'
  <2>1. CASE r = s
    <3>1. txn'[r] = t
      BY <1>1, <1>2, <2>1
    <3> QED
      BY <3>1, <1>1 DEF IsNear, AddIsNear, RemoveIsNear, NoCountIsNear, Slack, Size, LikesOf
  <2>2. CASE r # s
    <3>1. txn'[r] = txn[r] /\ InFlight(r)
      BY <1>1, <1>2, <1>5, <2>2 DEF InFlight
    <3> QED
      BY <3>1, <1>1 DEF IInv, IsNear, AddIsNear, RemoveIsNear, NoCountIsNear, Slack, Size, LikesOf
  <2> QED
    BY <2>1, <2>2
<1> QED
  BY <1>3, <1>4, <1>5 DEF IInv

LEMMA AddLikeKeepsIInv ==
    ASSUME IInv, NEW s \in Sessions, NEW u \in Users, NEW e \in Events, AddLike(s, u, e)
    PROVE  IInv'
<1> DEFINE like == [id |-> FreshLikeId, event |-> e, user |-> u]
           t == [kind |-> "add", like |-> like, sets |-> TRUE, count |-> likeCount[e] + 1,
                 since |-> commits[like.event]]
<1>1. UsedLikeIds \subseteq LikeIds
  BY DEF UsedLikeIds, IInv, TypeOK, EventLike, Request, InFlight
<1>2. FreshLikeId \in LikeIds /\ FreshLikeId \notin UsedLikeIds
  BY <1>1 DEF AddLike, FreshLikeId
<1>3. likeCount[e] \in Nat /\ commits[e] \in Nat /\ overlooked[e] \in Nat
  BY DEF IInv, TypeOK
<1>4. like \in EventLike /\ like.event = e /\ like.id = FreshLikeId
  BY <1>2 DEF EventLike
<1>5. t \in Request
  BY <1>3, <1>4 DEF Request
<1>6. IsNear(t)
  <2>1. Within(likeCount[e], Size(e), overlooked[e]) /\ Size(e) \in Nat
    BY SizeIsNat DEF IInv, CountDriftsByOverlapsOnly, Size
  <2>2. Within(likeCount[e] + 1 - 1, Size(e), overlooked[e] + commits[e] - commits[e])
    BY <1>3, <2>1 DEF Within
  <2>3. t.kind = "add" /\ t.sets /\ t.like.event = e /\ t.count = likeCount[e] + 1 /\ t.since = commits[e]
    BY <1>4
  <2> HIDE DEF t
  <2> QED
    BY <1>3, <2>2, <2>3 DEF IsNear, AddIsNear, Slack
<1>7. Begin(s, "add", like, TRUE, likeCount[e] + 1)
  BY DEF AddLike
<1> HIDE DEF like
<1> QED
  BY <1>5, <1>6, <1>7, BeginKeepsIInv

LEMMA RemoveLikeKeepsIInv ==
    ASSUME IInv, NEW s \in Sessions, NEW u \in Users, NEW e \in Events, RemoveLike(s, u, e)
    PROVE  IInv'
<1>1. PICK like \in LikesOf(e) : Begin(s, "remove", like, likeCount[e] > 0, likeCount[e] - 1)
  BY DEF RemoveLike
<1> DEFINE t == [kind |-> "remove", like |-> like, sets |-> likeCount[e] > 0,
                 count |-> likeCount[e] - 1, since |-> commits[like.event]]
<1>2. like \in likes /\ like.event = e /\ like \in EventLike
  BY DEF LikesOf, IInv, TypeOK
<1>3. likeCount[e] \in Nat /\ commits[e] \in Nat /\ overlooked[e] \in Nat
  BY DEF IInv, TypeOK
<1>4. t \in Request
  BY <1>2, <1>3 DEF Request
<1>5. IsNear(t)
  <2>1. Within(likeCount[e], Size(e), overlooked[e]) /\ Size(e) \in Nat
    BY SizeIsNat DEF IInv, CountDriftsByOverlapsOnly, Size
  <2>2. Within(likeCount[e] - 1 + 1, Size(e), overlooked[e] + commits[e] - commits[e])
    BY <1>3, <2>1 DEF Within
  <2>3. t.kind = "remove" /\ (t.sets <=> likeCount[e] > 0) /\ t.like = like
          /\ t.count = likeCount[e] - 1 /\ t.since = commits[e]
    BY <1>2
  <2> HIDE DEF t
  <2>4. t.sets => RemoveIsNear(t)
    BY <1>2, <1>3, <2>2, <2>3 DEF RemoveIsNear, Slack
  <2>5. ~t.sets => NoCountIsNear(t)
    BY <1>2, <1>3, <2>3 DEF NoCountIsNear
  <2> QED
    BY <1>2, <1>3, <2>3, <2>4, <2>5 DEF IsNear
<1> QED
  BY <1>1, <1>4, <1>5, BeginKeepsIInv

-----------------------------------------------------------------------------
(* How a commit changes the number of likes of each event. *)
LEMMA CommitSizes ==
    ASSUME IInv, NEW s \in Sessions, Commit(s), NEW e \in Events
    PROVE  LET t == txn[s] IN
           /\ IsFiniteSet(likes)'
           /\ Size(e) \in Nat /\ Size(e)' \in Nat
           /\ e # t.like.event => Size(e)' = Size(e)
           /\ e = t.like.event /\ t.kind = "add" => Size(e)' = Size(e) + 1
           /\ e = t.like.event /\ t.kind = "remove" /\ t.like \in likes => Size(e)' = Size(e) - 1
           /\ e = t.like.event /\ t.kind = "remove" /\ t.like \notin likes => Size(e)' = Size(e)
<1> DEFINE t == txn[s]
<1>1. t \in Request /\ IsFiniteSet(likes)
  BY DEF Commit, InFlight, IInv, TypeOK
<1>2. likes' = IF t.kind = "add" THEN likes \cup {t.like} ELSE likes \ {t.like}
  BY DEF Commit
<1>3. t.kind = "add" => t.like \notin likes
  BY DEF Commit, UniqueLike, LikesOf
<1>4. IsFiniteSet(likes')
  BY <1>1, <1>2, FS_AddElement, FS_RemoveElement
<1>5. IsFiniteSet(LikesOf(e)) /\ Size(e) \in Nat
  BY <1>1, SizeIsNat
<1>6. t.kind \in {"add", "remove"}
  BY <1>1 DEF Request
<1> HIDE DEF t
<1>7. CASE e # t.like.event
  <2>1. LikesOf(e)' = LikesOf(e)
    BY <1>2, <1>7 DEF LikesOf
  <2> QED
    BY <1>4, <1>5, <1>7, <2>1 DEF Size, t
<1>8. CASE e = t.like.event /\ t.kind = "add"
  <2>1. LikesOf(e)' = LikesOf(e) \cup {t.like}
    BY <1>2, <1>8 DEF LikesOf
  <2>2. t.like \notin LikesOf(e)
    BY <1>3, <1>8 DEF LikesOf
  <2>3. Size(e)' = Size(e) + 1
    BY <1>5, <2>1, <2>2, FS_AddElement DEF Size
  <2> QED
    BY <1>4, <1>5, <1>8, <2>3 DEF t
<1>9. CASE e = t.like.event /\ t.kind = "remove" /\ t.like \in likes
  <2>1. LikesOf(e)' = LikesOf(e) \ {t.like}
    BY <1>2, <1>9 DEF LikesOf
  <2>2. t.like \in LikesOf(e)
    BY <1>9 DEF LikesOf
  <2>3. IsFiniteSet(LikesOf(e)') /\ Size(e)' = Size(e) - 1
    BY <1>5, <2>1, <2>2, FS_RemoveElement DEF Size
  <2>4. Size(e)' \in Nat
    BY <2>3, FS_CardinalityType DEF Size
  <2> QED
    BY <1>4, <1>5, <1>9, <2>3, <2>4 DEF t
<1>10. CASE e = t.like.event /\ t.kind = "remove" /\ t.like \notin likes
  <2>1. LikesOf(e)' = LikesOf(e)
    BY <1>2, <1>10 DEF LikesOf
  <2> QED
    BY <1>4, <1>5, <1>10, <2>1 DEF Size, t
<1> QED
  BY <1>6, <1>7, <1>8, <1>9, <1>10

(* What a commit does to the columns. *)
LEMMA CommitWrites ==
    ASSUME IInv, NEW s \in Sessions, Commit(s)
    PROVE  LET t == txn[s]
               e == t.like.event IN
           /\ e \in Events /\ t \in Request /\ IsNear(t)
           /\ likeCount' = IF t.sets THEN [likeCount EXCEPT ![e] = t.count] ELSE likeCount
           /\ overlooked' = [overlooked EXCEPT ![e] = @ + commits[e] - t.since]
           /\ commits' = [commits EXCEPT ![e] = @ + 1]
           /\ likes' = likes \cup {t.like} \/ likes' = likes \ {t.like}
           /\ t.sets => t.count >= 0
<1> DEFINE t == txn[s]
           e == t.like.event
<1>1. t \in Request /\ IsNear(t)
  BY DEF Commit, InFlight, IInv, TypeOK
<1>2. e \in Events
  BY <1>1 DEF Request, EventLike
<1>3. t.sets => t.count >= 0
  BY <1>1 DEF IsNear, AddIsNear, RemoveIsNear, Request
<1> QED
  BY <1>1, <1>2, <1>3 DEF Commit

LEMMA CommitKeepsTypeOK ==
    ASSUME IInv, NEW s \in Sessions, Commit(s)
    PROVE  TypeOK'
<1> DEFINE t == txn[s]
           e == t.like.event
<1>1. TypeOK
  BY DEF IInv
<1>2. t.like \in EventLike /\ t.count \in Int /\ t.since \in Nat /\ t.since <= commits[e]
  BY CommitWrites DEF Request, IsNear
<1>3. likes' \subseteq EventLike
  BY <1>1, <1>2, CommitWrites DEF TypeOK
<1>4. likeCount' \in [Events -> Nat]
  BY <1>1, <1>2, CommitWrites DEF TypeOK
<1>5. commits' \in [Events -> Nat]
  BY <1>1, CommitWrites DEF TypeOK
<1>6. overlooked[e] + commits[e] - t.since \in Nat
  BY <1>1, <1>2, CommitWrites DEF TypeOK
<1>7. overlooked' \in [Events -> Nat]
  BY <1>1, <1>6, CommitWrites DEF TypeOK
<1>8. txn' \in [Sessions -> Request \cup {NoRequest}]
  BY <1>1 DEF Commit, TypeOK
<1> QED
  BY <1>3, <1>4, <1>5, <1>7, <1>8 DEF TypeOK

(* What the committed request has overlooked is on record now. *)
LEMMA CommitKeepsDrift ==
    ASSUME IInv, NEW s \in Sessions, Commit(s)
    PROVE  CountDriftsByOverlapsOnly'
<1> SUFFICES ASSUME NEW e \in Events
             PROVE  Within(likeCount'[e], Size(e)', overlooked'[e])
  BY DEF CountDriftsByOverlapsOnly, Size
<1> DEFINE t == txn[s]
<1>1. TypeOK /\ Within(likeCount[e], Size(e), overlooked[e])
  BY DEF IInv, CountDriftsByOverlapsOnly, Size
<1>2. likeCount[e] \in Nat /\ commits[e] \in Nat /\ overlooked[e] \in Nat /\ Size(e) \in Nat /\ Size(e)' \in Nat
  BY <1>1, CommitSizes DEF TypeOK
<1>3. CASE e # t.like.event
  BY <1>1, <1>2, <1>3, CommitWrites, CommitSizes DEF TypeOK
<1>4. CASE e = t.like.event
  <2>1. /\ t.count \in Int /\ t.since \in Nat /\ t.since <= commits[e] /\ IsNear(t)
        /\ t.kind \in {"add", "remove"}
    BY <1>4, CommitWrites DEF Request, IsNear
  <2>2. overlooked'[e] = overlooked[e] + commits[e] - t.since /\ Slack(t) = overlooked'[e]
    BY <1>1, <1>4, CommitWrites DEF TypeOK, Slack
  <2>3. t.sets => likeCount'[e] = t.count
    BY <1>1, <1>4, CommitWrites DEF TypeOK
  <2>4. ~t.sets => likeCount'[e] = likeCount[e]
    BY <1>4, CommitWrites
  <2>5. CASE t.kind = "add"
    <3>1. t.sets /\ Within(t.count - 1, Size(e), overlooked'[e])
      BY <1>4, <2>1, <2>2, <2>5 DEF IsNear, AddIsNear
    <3>2. Size(e)' = Size(e) + 1
      BY <1>4, <2>5, CommitSizes
    <3> QED
      BY <1>2, <2>1, <2>2, <2>3, <3>1, <3>2 DEF Within
  <2>6. CASE t.kind = "remove" /\ t.sets
    <3>1. /\ Within(t.count + 1, Size(e), overlooked'[e])
          /\ t.like \notin likes => Size(e) - t.count <= overlooked'[e]
      BY <1>4, <2>1, <2>2, <2>6 DEF IsNear, RemoveIsNear
    <3>2. Size(e)' = IF t.like \in likes THEN Size(e) - 1 ELSE Size(e)
      BY <1>4, <2>6, CommitSizes
    <3> QED
      BY <1>2, <2>1, <2>2, <2>3, <2>6, <3>1, <3>2 DEF Within
  <2>7. CASE t.kind = "remove" /\ ~t.sets
    <3>1. Size(e)' = IF t.like \in likes THEN Size(e) - 1 ELSE Size(e)
      BY <1>4, <2>7, CommitSizes
    <3>2. CASE commits[e] = t.since
      <4>1. likeCount[e] = 0 /\ t.like \in likes
        BY <1>4, <2>1, <2>7, <3>2 DEF IsNear, NoCountIsNear
      <4> QED
        BY <1>1, <1>2, <2>1, <2>2, <2>4, <2>7, <3>1, <3>2, <4>1 DEF Within
    <3>3. CASE commits[e] > t.since
      BY <1>1, <1>2, <2>1, <2>2, <2>4, <2>7, <3>1, <3>3 DEF Within
    <3> QED
      BY <1>2, <2>1, <3>2, <3>3
  <2> QED
    BY <2>1, <2>5, <2>6, <2>7
<1> QED
  BY <1>3, <1>4

(* The others have overlooked one commit more, which has changed the number *)
(* of likes by one at the most.                                             *)
LEMMA CommitKeepsNear ==
    ASSUME IInv, NEW s \in Sessions, Commit(s), NEW q \in Request, IsNear(q)
    PROVE  IsNear(q)'
<1> DEFINE t == txn[s]
           f == q.like.event
<1>1. TypeOK
  BY DEF IInv
<1>4. f \in Events /\ q.count \in Int /\ q.since \in Nat /\ q.like \in EventLike
  BY DEF Request, EventLike
<1>5. commits[f] \in Nat /\ overlooked[f] \in Nat /\ Size(f) \in Nat /\ Size(f)' \in Nat
  BY <1>1, <1>4, CommitSizes DEF TypeOK
<1>6. t \in Request /\ t.like.event \in Events /\ t.since \in Nat /\ t.since <= commits[t.like.event]
  BY CommitWrites DEF Request, IsNear
<1>7. CASE f # t.like.event
  <2>1. commits'[f] = commits[f] /\ overlooked'[f] = overlooked[f] /\ likeCount'[f] = likeCount[f]
    BY <1>1, <1>4, <1>7, CommitWrites DEF TypeOK
  <2>2. Size(f)' = Size(f)
    BY <1>4, <1>7, CommitSizes
  <2>3. q.like \in likes' <=> q.like \in likes
    BY <1>7, CommitWrites
  <2> QED
    BY <2>1, <2>2, <2>3 DEF IsNear, AddIsNear, RemoveIsNear, NoCountIsNear, Slack, Size
<1>8. CASE f = t.like.event
  <2>1. commits'[f] = commits[f] + 1 /\ overlooked'[f] >= overlooked[f] /\ overlooked'[f] \in Int
    BY <1>1, <1>4, <1>5, <1>6, <1>8, CommitWrites DEF TypeOK
  <2>2. /\ Size(f)' <= Size(f) + 1 /\ Size(f)' >= Size(f) - 1
        /\ q.like \in likes /\ q.like \notin likes' => Size(f)' = Size(f) - 1
    <3>1. t.kind \in {"add", "remove"}
      BY <1>6 DEF Request
    <3>2. likes' = IF t.kind = "add" THEN likes \cup {t.like} ELSE likes \ {t.like}
      BY DEF Commit
    <3>3. q.like \in likes /\ q.like \notin likes' => t.like \in likes /\ t.kind = "remove"
      BY <3>1, <3>2
    <3>4. t.kind = "add" => Size(f)' = Size(f) + 1
      BY <1>4, <1>8, CommitSizes
    <3>5. t.kind = "remove" => Size(f)' = IF t.like \in likes THEN Size(f) - 1 ELSE Size(f)
      BY <1>4, <1>8, CommitSizes
    <3> QED
      BY <1>5, <3>1, <3>3, <3>4, <3>5
  <2>3. q.since <= commits[f] /\ q.since <= commits'[f] /\ commits'[f] # q.since
    BY <1>4, <1>5, <2>1 DEF IsNear
  <2> DEFINE slack == overlooked'[f] + commits'[f] - q.since
  <2>4. slack \in Int /\ slack >= Slack(q) + 1 /\ Slack(q) \in Int
    BY <1>4, <1>5, <2>1 DEF Slack
  <2>5. Slack(q)' = slack
    BY DEF Slack
  <2>6. q.kind = "add" => q.sets /\ q.count >= 0 /\ Within(q.count - 1, Size(f)', slack)
    <3>1. q.kind = "add" => q.sets /\ q.count >= 0 /\ Within(q.count - 1, Size(f), Slack(q))
      BY DEF IsNear, AddIsNear
    <3> HIDE DEF slack
    <3> QED
      BY <1>4, <1>5, <2>2, <2>4, <3>1 DEF Within
  <2>7. q.kind = "remove" /\ q.sets =>
          /\ q.count >= 0 /\ Within(q.count + 1, Size(f)', slack)
          /\ q.like \notin likes' => Size(f)' - q.count <= slack
    <3>1. q.kind = "remove" /\ q.sets =>
            /\ q.count >= 0 /\ Within(q.count + 1, Size(f), Slack(q))
            /\ q.like \notin likes => Size(f) - q.count <= Slack(q)
      BY DEF IsNear, RemoveIsNear
    <3> HIDE DEF slack
    <3> QED
      BY <1>4, <1>5, <2>2, <2>4, <3>1 DEF Within
  <2> HIDE DEF slack
  <2> QED
    BY <2>3, <2>5, <2>6, <2>7 DEF IsNear, AddIsNear, RemoveIsNear, NoCountIsNear, Size
<1> QED
  BY <1>7, <1>8

-----------------------------------------------------------------------------
LEMMA NextKeepsIInv == IInv /\ [Next]_vars => IInv'
<1> SUFFICES ASSUME IInv, [Next]_vars PROVE IInv'
  OBVIOUS
<1>1. ASSUME NEW s \in Sessions, NEW u \in Users, NEW e \in Events, AddLike(s, u, e) PROVE IInv'
  BY <1>1, AddLikeKeepsIInv
<1>2. ASSUME NEW s \in Sessions, NEW u \in Users, NEW e \in Events, RemoveLike(s, u, e) PROVE IInv'
  BY <1>2, RemoveLikeKeepsIInv
<1>3. ASSUME NEW s \in Sessions, Commit(s) PROVE IInv'
  <2>1. IsFiniteSet(likes')
    <3>1. CASE Events = {}
      BY <1>3, <3>1, CommitWrites
    <3>2. CASE Events # {}
      BY <1>3, <3>2, CommitSizes
    <3> QED
      BY <3>1, <3>2
  <2>2. ASSUME NEW r \in Sessions, InFlight(r)' PROVE IsNear(txn[r])'
    <3>1. r # s /\ InFlight(r) /\ txn'[r] = txn[r]
      BY <1>3, <2>2 DEF Commit, IInv, TypeOK, InFlight
    <3>2. PICK q \in Request : q = txn[r]
      BY <3>1 DEF IInv, TypeOK, InFlight
    <3>3. IsNear(q)
      BY <3>1, <3>2 DEF IInv
    <3>4. IsNear(q)'
      BY <1>3, <3>3, CommitKeepsNear
    <3>5. txn'[r] = q
      BY <3>1, <3>2
    <3> QED
      BY <3>4, <3>5 DEF IsNear, AddIsNear, RemoveIsNear, NoCountIsNear, Slack, Size, LikesOf
  <2> QED
    BY <1>3, <2>1, <2>2, CommitKeepsTypeOK, CommitKeepsDrift DEF IInv
<1>4. ASSUME NEW s \in Sessions, Abort(s) PROVE IInv'
  <2>1. /\ likes' = likes /\ likeCount' = likeCount /\ commits' = commits
        /\ overlooked' = overlooked /\ txn' = [txn EXCEPT ![s] = NoRequest]
    BY <1>4 DEF Abort
  <2>2. TypeOK' /\ IsFiniteSet(likes)' /\ CountDriftsByOverlapsOnly'
    BY <2>1 DEF IInv, TypeOK, CountDriftsByOverlapsOnly, LikesOf
  <2>3. \A r \in Sessions : InFlight(r)' => InFlight(r) /\ txn'[r] = txn[r]
    BY <2>1 DEF IInv, TypeOK, InFlight
  <2>4. ASSUME NEW r \in Sessions, InFlight(r)' PROVE IsNear(txn[r])'
    BY <2>1, <2>3, <2>4 DEF IInv, IsNear, AddIsNear, RemoveIsNear, NoCountIsNear, Slack, Size, LikesOf
  <2> QED
    BY <2>2, <2>4 DEF IInv
<1>5. CASE UNCHANGED vars
  BY <1>5 DEF vars, IInv, TypeOK, CountDriftsByOverlapsOnly, InFlight, IsNear, AddIsNear,
     RemoveIsNear, NoCountIsNear, Slack, Size, LikesOf
<1> QED
  BY <1>1, <1>2, <1>3, <1>4, <1>5 DEF Next

(* Each like and unlike leaves the count off by what it has overlooked, however requests overlap. *)
THEOREM Invariance == Spec => []IInv
<1> QED
  BY InitIInv, NextKeepsIInv, PTL DEF Spec

(* like_count never goes below zero, so that its CHECK need not fire. *)
THEOREM TypeCorrect == Spec => []TypeOK
<1>1. IInv => TypeOK
  BY DEF IInv
<1> QED
  BY <1>1, Invariance, PTL

(* like_count is exact but for the requests that overlapped. *)
THEOREM CountDrift == Spec => []CountDriftsByOverlapsOnly
<1>1. IInv => CountDriftsByOverlapsOnly
  BY DEF IInv
<1> QED
  BY <1>1, Invariance, PTL
=============================================================================
