----------------------------- MODULE EventLikes -----------------------------
(***************************************************************************)
(* Likes: the rows of event_likes and the column events.like_count, which   *)
(* the selection of events goes by.                                         *)
(*                                                                         *)
(* As in Betting, a request is two steps.  The handler reads one snapshot   *)
(* (AddLike, RemoveLike) and prepares what it writes; Commit writes it to   *)
(* the rows as they are then.  The row of event_likes is inserted or        *)
(* deleted by its id, like_count is overwritten with the value computed     *)
(* from the snapshot.  The foreign key to events makes an INSERT wait for,  *)
(* or deadlock with, another like's UPDATE: Abort covers that.              *)
(***************************************************************************)
EXTENDS Integers, FiniteSets

CONSTANTS
    Users,
    Events,
    LikeIds,
    Sessions,
    MaxCommits,     \* bound: requests on one event
    NoRequest

VARIABLES
    likes,          \* the rows of event_likes
    likeCount,      \* events.like_count
    txn,            \* the request in flight in each session
    commits,        \* likes and unlikes of each event committed so far
    overlooked      \* of how many of them later requests did not know, in all

vars == <<likes, likeCount, txn, commits, overlooked>>

-----------------------------------------------------------------------------
EventLike == [id : LikeIds, event : Events, user : Users]

(* kind: what becomes of the row; sets: whether like_count is written, and  *)
(* count: the value; since: the commits the snapshot has seen.              *)
Request == [kind : {"add", "remove"}, like : EventLike, sets : BOOLEAN,
            count : Int, since : Nat]

(* like_count >= 0 is a CHECK of the table; it is no guard of Commit, so    *)
(* this says that it never has to fire.                                     *)
TypeOK ==
    /\ likes \subseteq EventLike
    /\ likeCount \in [Events -> Nat]
    /\ txn \in [Sessions -> Request \cup {NoRequest}]
    /\ commits \in [Events -> Nat]
    /\ overlooked \in [Events -> Nat]

LikesOf(e) == {l \in likes : l.event = e}

InFlight(s) == txn[s] # NoRequest

UsedLikeIds == {l.id : l \in likes} \cup {txn[s].like.id : s \in {t \in Sessions : InFlight(t)}}

(* str(uuid.uuid4()) *)
FreshLikeId == CHOOSE id \in LikeIds : id \notin UsedLikeIds

Begin(s, kind, like, sets, count) ==
    /\ ~InFlight(s)
    /\ commits[like.event] < MaxCommits
    /\ txn' = [txn EXCEPT ![s] = [kind |-> kind, like |-> like, sets |-> sets,
                                  count |-> count, since |-> commits[like.event]]]
    /\ UNCHANGED <<likes, likeCount, commits, overlooked>>

(* POST /events/{event_id}/likes *)
AddLike(s, u, e) ==
    /\ ~ \E l \in LikesOf(e) : l.user = u
    /\ LikeIds # UsedLikeIds
    /\ Begin(s, "add", [id |-> FreshLikeId, event |-> e, user |-> u], TRUE, likeCount[e] + 1)

(* Faulty: the count goes down although it is zero. *)
RemoveLikeBelowZero(s, u, e) ==
    \E l \in LikesOf(e) :
        /\ l.user = u
        /\ Begin(s, "remove", l, TRUE, likeCount[e] - 1)

(* DELETE /events/{event_id}/likes: a count of zero is left alone, and then *)
(* the column is not written at all.                                        *)
RemoveLike(s, u, e) ==
    \E l \in LikesOf(e) :
        /\ l.user = u
        /\ Begin(s, "remove", l, likeCount[e] > 0, likeCount[e] - 1)

(* uq_event_user_like *)
UniqueLike(like) == ~ \E l \in LikesOf(like.event) : l.user = like.user

(* Faulty: the count is committed, the row is not. *)
CommitCountOnly(s) ==
    LET t == txn[s]
        e == t.like.event IN
    /\ InFlight(s)
    /\ t.kind = "add" => UniqueLike(t.like)
    /\ likes' = likes
    /\ likeCount' = IF t.sets THEN [likeCount EXCEPT ![e] = t.count] ELSE likeCount
    /\ overlooked' = [overlooked EXCEPT ![e] = @ + commits[e] - t.since]
    /\ commits' = [commits EXCEPT ![e] = @ + 1]
    /\ txn' = [txn EXCEPT ![s] = NoRequest]

(* session.commit().  A DELETE that finds no row any more is no error, and  *)
(* the count is written all the same.                                       *)
Commit(s) ==
    LET t == txn[s]
        e == t.like.event IN
    /\ InFlight(s)
    /\ t.kind = "add" => UniqueLike(t.like)
    /\ likes' = IF t.kind = "add" THEN likes \cup {t.like} ELSE likes \ {t.like}
    /\ likeCount' = IF t.sets THEN [likeCount EXCEPT ![e] = t.count] ELSE likeCount
    /\ overlooked' = [overlooked EXCEPT ![e] = @ + commits[e] - t.since]
    /\ commits' = [commits EXCEPT ![e] = @ + 1]
    /\ txn' = [txn EXCEPT ![s] = NoRequest]

(* The unique key, a deadlock or a failure. *)
Abort(s) ==
    /\ InFlight(s)
    /\ txn' = [txn EXCEPT ![s] = NoRequest]
    /\ UNCHANGED <<likes, likeCount, commits, overlooked>>

Init ==
    /\ likes = {}
    /\ likeCount = [e \in Events |-> 0]
    /\ txn = [s \in Sessions |-> NoRequest]
    /\ commits = [e \in Events |-> 0]
    /\ overlooked = [e \in Events |-> 0]

Next ==
    \E s \in Sessions :
        \/ \E u \in Users, e \in Events : AddLike(s, u, e) \/ RemoveLike(s, u, e)
        \/ Commit(s)
        \/ Abort(s)

Spec == Init /\ [][Next]_vars

-----------------------------------------------------------------------------
Within(x, y, d) == x - y <= d /\ y - x <= d

(* like_count is off the number of likes by no more than the commits that   *)
(* requests overlooked because they overlapped: it is exact as long as      *)
(* nobody's requests overlap, and no other way to lose or win a like exists *)
(* (deleting a row that is gone, a count that stays at zero, aborts).       *)
CountDriftsByOverlapsOnly ==
    \A e \in Events : Within(likeCount[e], Cardinality(LikesOf(e)), overlooked[e])
=============================================================================
