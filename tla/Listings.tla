------------------------------ MODULE Listings ------------------------------
(***************************************************************************)
(* A client reads a listing page by page while its rows change: the events  *)
(* and the comments, by a cursor that names the last row shown, and the     *)
(* bets and the points of a user, the bets on an event and the users of the *)
(* administrator, by an offset.                                             *)
(*                                                                         *)
(* A page and the number of rows that match come from one snapshot, so a    *)
(* fetch is one step.  A row has what the queries look at: a status (absent *)
(* before it is created, gone once deleted) and the time it is ordered by.  *)
(* An id is a number, as all the code does with UUIDs is compare them.  The *)
(* tables of the other modules change here one row at a time; editing a     *)
(* comment changes nothing a query looks at.  `fixed`, `departed`,          *)
(* `arrived`, `cursorMoved` and `changes` are history.                      *)
(***************************************************************************)
EXTENDS Integers, Sequences, SequencesExt, FiniteSets, EventTransitions

CONSTANTS
    MaxId,          \* bound: rows of a listing
    MaxTime,        \* bound: times of rows
    MaxChanges,     \* bound: changes during a walk
    Limit           \* rows of a page

ASSUME ListingsAssumption ==
    {MaxId, MaxTime, MaxChanges, Limit} \subseteq Nat /\ Limit > 0

VARIABLES
    listing,
    filter,         \* [status, liked]: what the client asks for throughout
    rows,           \* [status, at] of each id
    liked,          \* the events the client likes
    cursor,         \* [id, at, rank] of the last row shown, or the page number
    done,           \* the client has seen the last page
    shown,          \* how often each row was shown
    fixed,          \* rows listed throughout, by an unchanged key
    departed,       \* times of rows that left the listing
    arrived,        \* times of rows that entered it
    cursorMoved,    \* where the event of the cursor went between two pages
    changes

table == <<rows, liked>>
history == <<fixed, departed, arrived, changes>>
vars == <<listing, filter, table, cursor, done, shown, history, cursorMoved>>

-----------------------------------------------------------------------------
Ids == 1 .. MaxId
Times == 0 .. MaxTime
Listing == {"events", "comments", "bets", "history", "eventBets", "users"}

Statuses ==
    CASE listing = "events" -> EventStatus
      [] listing \in {"bets", "eventBets"} -> {"PENDING", "WIN", "LOSE", "REFUNDED"}
      [] listing = "history" -> {"SIGNUP", "BET", "WIN", "REFUND"}
      [] listing = "users" -> {"ACTIVE", "SUSPENDED", "DELETED"}
      [] OTHER -> {"present"}

(* The order of the statuses in the listing of events. *)
Priority(status) ==
    CASE status = "OPEN" -> 1 [] status = "READY" -> 2 [] status = "CLOSED" -> 3
      [] status = "CANCELLED" -> 4 [] OTHER -> 5

Rank(i) == IF listing = "events" THEN Priority(rows[i].status) ELSE 0

Exists(i) == rows[i].status \notin {"absent", "gone"}

Matches(i) ==
    /\ Exists(i)
    /\ filter.status \in {"ALL", rows[i].status}
    /\ filter.liked => i \in liked

Listed == {i \in Ids : Matches(i)}

-----------------------------------------------------------------------------
(* Pages *)

EventBefore(i, j) ==
    \/ Rank(i) < Rank(j)
    \/ Rank(i) = Rank(j) /\ rows[i].at < rows[j].at
    \/ Rank(i) = Rank(j) /\ rows[i].at = rows[j].at /\ i < j

CommentBefore(i, j) ==
    \/ rows[i].at > rows[j].at
    \/ rows[i].at = rows[j].at /\ i > j

(* Faulty: events that end together are taken for one. *)
AfterEndOfEvent(i) ==
    \/ Rank(i) > Rank(cursor.id)
    \/ Rank(i) = Rank(cursor.id) /\ rows[i].at > cursor.at

(* The status of the cursor's event is the present one, its time is not. *)
AfterEventCursor(i) ==
    \/ Rank(i) > Rank(cursor.id)
    \/ Rank(i) = Rank(cursor.id) /\ rows[i].at > cursor.at
    \/ Rank(i) = Rank(cursor.id) /\ rows[i].at = cursor.at /\ i > cursor.id

(* Faulty: likewise for comments, the other way round. *)
SinceCommentCursor(i) == rows[i].at <= cursor.at

AfterCommentCursor(i) ==
    \/ rows[i].at < cursor.at
    \/ rows[i].at = cursor.at /\ i < cursor.id

(* limit + 1 rows are fetched, so as to know whether there are more. *)
ShowPage(page, more) ==
    /\ shown' = [i \in Ids |-> shown[i] + IF Contains(page, i) THEN 1 ELSE 0]
    /\ done' = ~more
    /\ UNCHANGED <<listing, filter, table, history>>

FetchByCursor(found) ==
    LET page == SubSeq(found, 1, IF Len(found) < Limit THEN Len(found) ELSE Limit)
        more == Len(found) > Limit IN
    /\ ShowPage(page, more)
    /\ cursor' = IF more THEN [id |-> Last(page), at |-> rows[Last(page)].at, rank |-> Rank(Last(page))]
                 ELSE cursor

(* The order of the rows that a listing gives. *)
InEventOrder(s) == \A k, l \in DOMAIN s : k < l => EventBefore(s[k], s[l])

InCommentOrder(s) == \A k, l \in DOMAIN s : k < l => CommentBefore(s[k], s[l])

FetchEvents ==
    /\ listing = "events" /\ ~done
    /\ \E found \in SetToSeqs({i \in Listed : cursor.id = 0 \/ AfterEventCursor(i)}) :
         InEventOrder(found) /\ FetchByCursor(found)
    /\ cursorMoved' = cursorMoved \cup
         IF cursor.id = 0 THEN {}
         ELSE (IF Rank(cursor.id) > cursor.rank THEN {"down"} ELSE {}) \cup
              (IF Rank(cursor.id) < cursor.rank THEN {"up"} ELSE {})

FetchComments ==
    /\ listing = "comments" /\ ~done
    /\ \E found \in SetToSeqs({i \in Listed : cursor.id = 0 \/ AfterCommentCursor(i)}) :
         InCommentOrder(found) /\ FetchByCursor(found)
    /\ UNCHANGED cursorMoved

(* ORDER BY created_at DESC alone: rows of one time come in any order. *)
NewestFirst == {s \in SetToSeqs(Listed) : \A k, l \in DOMAIN s : k < l => rows[s[k]].at >= rows[s[l]].at}

(* Faulty: pages that are counted from one are taken to count from zero. *)
PastOffset(page) == page * Limit

Offset(page) == (page - 1) * Limit

(* The client asks for the next page while the total says there is one. *)
FetchPage ==
    /\ listing \notin {"events", "comments"} /\ ~done
    /\ LET total == Cardinality(Listed)
           page == cursor.id + 1
           end == IF Offset(page) + Limit < total THEN Offset(page) + Limit ELSE total IN
       /\ \E s \in NewestFirst : ShowPage(SubSeq(s, Offset(page) + 1, end), page * Limit < total)
       /\ cursor' = [cursor EXCEPT !.id = page]
    /\ UNCHANGED cursorMoved

-----------------------------------------------------------------------------
(* Rows change *)

Key(i) == <<Matches(i), rows[i].at, Rank(i)>>

(* What changes there were, of which only pages by offset need the times. *)
Note(i) ==
    /\ ~done /\ changes < MaxChanges
    /\ UNCHANGED <<listing, filter, cursor, done, shown, cursorMoved>>
    /\ changes' = changes + 1
    /\ fixed' = IF Key(i)' = Key(i) THEN fixed ELSE fixed \ {i}
    /\ departed' = departed \cup IF Matches(i) /\ ~Matches(i)' THEN {rows[i].at} ELSE {}
    /\ arrived' = arrived \cup IF ~Matches(i) /\ Matches(i)' THEN {rows'[i].at} ELSE {}

Put(i, status, at) ==
    /\ rows' = [rows EXCEPT ![i] = [status |-> status, at |-> at]]
    /\ UNCHANGED liked
    /\ Note(i)

Become(i, from, to) == rows[i].status = from /\ Put(i, to, rows[i].at)

Create(i, status) == rows[i].status = "absent" /\ \E t \in Times : Put(i, status, t)

(* Events.  An administrator who closes one sets its end to the present. *)
CreateEvent(i) == listing = "events" /\ Create(i, "READY")

UpdateEventStatus(i) ==
    /\ listing = "events" /\ Exists(i)
    /\ \E to \in AllowedTransition(rows[i].status) :
         \E t \in IF to = "CLOSED" THEN Times ELSE {rows[i].at} : Put(i, to, t)

UpdateEventStatusAuto(i) ==
    /\ listing = "events"
    /\ Become(i, "READY", "OPEN") \/ Become(i, "READY", "CANCELLED") \/ Become(i, "OPEN", "CLOSED")

SettleEvent(i) == listing = "events" /\ Become(i, "CLOSED", "SETTLED")

LikeOrUnlike(i) ==
    /\ filter.liked /\ Exists(i)
    /\ liked' = IF i \in liked THEN liked \ {i} ELSE liked \cup {i}
    /\ UNCHANGED rows
    /\ Note(i)

CreateComment(i) == listing = "comments" /\ Create(i, "present")

DeleteComment(i) == listing = "comments" /\ Become(i, "present", "gone")

CreateBet(i) == listing \in {"bets", "eventBets"} /\ Create(i, "PENDING")

SettleBet(i) ==
    /\ listing \in {"bets", "eventBets"}
    /\ \E to \in {"WIN", "LOSE", "REFUNDED"} : Become(i, "PENDING", to)

AddHistory(i) == listing = "history" /\ \E reason \in Statuses : Create(i, reason)

Signup(i) == listing = "users" /\ Create(i, "ACTIVE")

SuspendUser(i) == listing = "users" /\ Become(i, "ACTIVE", "SUSPENDED")

EndSuspension(i) == listing = "users" /\ Become(i, "SUSPENDED", "ACTIVE")

(* A suspended user has no way to withdraw, but for a request half done. *)
Withdraw(i) ==
    /\ listing = "users"
    /\ Become(i, "ACTIVE", "DELETED") \/ Become(i, "SUSPENDED", "DELETED")

(* The sweep of accounts never verified does not look at suspensions. *)
Sweep(i) ==
    /\ listing = "users"
    /\ Become(i, "ACTIVE", "gone") \/ Become(i, "SUSPENDED", "gone")

-----------------------------------------------------------------------------
(* Filters: status and liked of the events, status of a user's own bets and *)
(* of the users, reason of the history; comments and the bets on an event   *)
(* have none.  A client who filters by nothing has likes that do not matter.*)
Init ==
    /\ listing \in Listing
    /\ filter \in [status : {"ALL"} \cup IF listing \in {"comments", "eventBets"} THEN {} ELSE Statuses,
                   liked : IF listing = "events" THEN BOOLEAN ELSE {FALSE}]
    /\ rows \in [Ids -> [status : Statuses, at : Times] \cup {[status |-> "absent", at |-> 0]}]
    /\ liked \in IF filter.liked THEN SUBSET {i \in Ids : Exists(i)} ELSE {{}}
    /\ cursor = [id |-> 0, at |-> 0, rank |-> 0]
    /\ done = FALSE
    /\ shown = [i \in Ids |-> 0]
    /\ fixed = Listed
    /\ departed = {} /\ arrived = {} /\ cursorMoved = {} /\ changes = 0

Next ==
    \/ FetchEvents \/ FetchComments \/ FetchPage
    \/ \E i \in Ids :
         \/ CreateEvent(i) \/ UpdateEventStatus(i) \/ UpdateEventStatusAuto(i) \/ SettleEvent(i)
         \/ LikeOrUnlike(i)
         \/ CreateComment(i) \/ DeleteComment(i)
         \/ CreateBet(i) \/ SettleBet(i) \/ AddHistory(i)
         \/ Signup(i) \/ SuspendUser(i) \/ EndSuspension(i) \/ Withdraw(i) \/ Sweep(i)

Spec == Init /\ [][Next]_vars

-----------------------------------------------------------------------------
(* A walk through the events shows every event whose place did not change   *)
(* once; it misses one only if the event of a cursor had moved down the     *)
(* list when the cursor was used, and repeats one only if it had moved up.  *)
EventsOnceUnlessCursorMoved ==
    listing = "events" =>
      \A i \in fixed : /\ done /\ shown[i] = 0 => "down" \in cursorMoved
                       /\ shown[i] > 1 => "up" \in cursorMoved

(* Comments move nowhere: no walk repeats one, or misses one that was there *)
(* throughout, whatever is written and deleted meanwhile.                   *)
CommentsOnce ==
    listing = "comments" =>
      /\ \A i \in Ids : shown[i] <= 1
      /\ done => \A i \in fixed : shown[i] = 1

(* A page by offset misses a row only if one as new or newer left the       *)
(* listing (by the filter, too) and repeats one only if one as new or newer *)
(* entered it; rows of one time may be missed and repeated without either.  *)
PagesErrOnlyByTraffic ==
    listing \notin {"events", "comments"} =>
      \A i \in fixed :
        LET newer(times) == \E t \in times : t >= rows[i].at
            tied == rows[i].at \in departed \/ \E j \in Listed \ {i} : rows[j].at = rows[i].at IN
        /\ done /\ shown[i] = 0 => tied \/ newer(departed)
        /\ shown[i] > 1 => tied \/ newer(arrived)
=============================================================================
