--------------------------- MODULE EventScheduler ---------------------------
(***************************************************************************)
(* The scheduler that opens and closes events (auto_update_event_status),   *)
(* the schedule in Redis, and the requests that feed it: event creation,    *)
(* likes and an administrator's status changes.                             *)
(*                                                                         *)
(* One tick of the scheduler is one database session, in which every await  *)
(* is a step of its own here.  What it does to Redis (the batch key, ZREM)  *)
(* takes effect at once; what it does to the database is in wrote and       *)
(* chosen until the commit that ends the tick, and is lost if the tick      *)
(* fails.  The rows written stay locked until then.                         *)
(*                                                                         *)
(* Time is counted in minutes.  The scheduler wakes every second, requests  *)
(* take seconds, and an event is created at least 59 minutes before it      *)
(* starts: the clock moves on only when a tick has ended (or failed) in     *)
(* this minute and no request is half done.  Settlement is in Betting.      *)
(***************************************************************************)
EXTENDS Integers, FiniteSets, Functions, EventTransitions

CONSTANTS
    Events,
    MinLikes,       \* likes an event needs to be selected (10 in the code)
    Limit,          \* events selected at a time (100 in the code)
    Period,         \* minutes between two selections (10 in the code)
    Lead,           \* least time from creation to start (59 minutes)
    Gap,            \* least time from start to end (23 h 59 min)
    MaxTime,        \* bound: the last minute of the clock
    MaxLikes,       \* bound: likes of an event
    MaxFailures,    \* bound: ticks that fail
    NoEvent

ASSUME SchedulerAssumption ==
    /\ {MinLikes, Limit, Period, Lead, Gap} \subseteq Nat \ {0}
    /\ {MaxTime, MaxLikes, MaxFailures} \subseteq Nat
    /\ NoEvent \notin Events

VARIABLES
    now,
    status,         \* events.status, "NONE" before the row is committed
    startAt, endAt, \* events.start_at, events.end_at
    likes,          \* events.like_count
    eligible,       \* events.is_eligible
    openAt,         \* the sorted set event:sched:open, member -> score
    closeAt,        \* the sorted set event:sched:close
    batches,        \* the keys event:batch:done:<time>, by their minute
    creating,       \* the step of create_event in each event's creation
    admin,          \* the status change an administrator has asked for
    pc,             \* where the scheduler's tick is
    at,             \* kst_now of the tick
    begun,          \* the tick's session is in a transaction
    targets,        \* the events of zrangebyscore still to do
    current,        \* the event whose schedule entry is to be removed
    wrote,          \* status updates of the tick's transaction
    chosen,         \* is_eligible updates of the tick's transaction
    ticked,         \* a tick has ended in this minute
    failures        \* ticks that failed so far

rows == <<status, startAt, endAt, likes, eligible>>
redis == <<openAt, closeAt, batches>>
requests == <<creating, admin>>
tick == <<pc, at, begun, targets, current, wrote, chosen>>
clock == <<now, ticked, failures>>
vars == <<rows, redis, requests, tick, clock>>

-----------------------------------------------------------------------------
(* Types *)

Steps == {"sleep", "batch", "select", "fetchOpen", "open", "zremOpen", "close", "zremClose"}
Times == 0 .. MaxTime
NoRequest == [event |-> NoEvent, to |-> "NONE"]
NoWrites == [e \in {} |-> "NONE"]

TypeOK ==
    /\ now \in Times
    /\ status \in [Events -> EventStatus \cup {"NONE"}]
    /\ startAt \in [Events -> Times] /\ endAt \in [Events -> Times]
    /\ likes \in [Events -> 0 .. MaxLikes]
    /\ eligible \in [Events -> BOOLEAN]
    /\ DOMAIN openAt \subseteq Events /\ \A e \in DOMAIN openAt : openAt[e] \in Times
    /\ DOMAIN closeAt \subseteq Events /\ \A e \in DOMAIN closeAt : closeAt[e] \in Times
    /\ batches \subseteq Times
    /\ creating \in [Events -> {"no", "zaddOpen", "zaddClose", "commit", "done"}]
    /\ admin \in [event : Events, to : EventStatus] \cup {NoRequest}
    /\ pc \in Steps
    /\ at \in Times
    /\ begun \in BOOLEAN
    /\ targets \subseteq Events
    /\ current \in Events \cup {NoEvent}
    /\ DOMAIN wrote \subseteq Events /\ \A e \in DOMAIN wrote : wrote[e] \in EventStatus
    /\ chosen \subseteq Events
    /\ ticked \in BOOLEAN
    /\ failures \in 0 .. MaxFailures

Locked(e) == e \in DOMAIN wrote \cup chosen

-----------------------------------------------------------------------------
(* Requests *)

(* POST /events: the dates are validated, then the row is inserted (and     *)
(* stays uncommitted), ZADD twice, and the commit after the handler.        *)
BeginCreate(e, start, end) ==
    /\ creating[e] = "no"
    /\ start >= now + Lead
    /\ end >= start + Gap
    /\ creating' = [creating EXCEPT ![e] = "zaddOpen"]
    /\ startAt' = [startAt EXCEPT ![e] = start]
    /\ endAt' = [endAt EXCEPT ![e] = end]
    /\ UNCHANGED <<status, likes, eligible, redis, admin, tick, clock>>

AddToOpen(e) ==
    /\ creating[e] = "zaddOpen"
    /\ openAt' = [x \in DOMAIN openAt \cup {e} |-> IF x = e THEN startAt[e] ELSE openAt[x]]
    /\ creating' = [creating EXCEPT ![e] = "zaddClose"]
    /\ UNCHANGED <<rows, closeAt, batches, admin, tick, clock>>

AddToClose(e) ==
    /\ creating[e] = "zaddClose"
    /\ closeAt' = [x \in DOMAIN closeAt \cup {e} |-> IF x = e THEN endAt[e] ELSE closeAt[x]]
    /\ creating' = [creating EXCEPT ![e] = "commit"]
    /\ UNCHANGED <<rows, openAt, batches, admin, tick, clock>>

CommitCreate(e) ==
    /\ creating[e] = "commit"
    /\ creating' = [creating EXCEPT ![e] = "done"]
    /\ status' = [status EXCEPT ![e] = "READY"]
    /\ UNCHANGED <<startAt, endAt, likes, eligible, redis, admin, tick, clock>>

(* Redis or the database fails: no row, and what ZADD has added stays. *)
AbortCreate(e) ==
    /\ creating[e] \in {"zaddOpen", "zaddClose", "commit"}
    /\ creating' = [creating EXCEPT ![e] = "done"]
    /\ UNCHANGED <<rows, redis, admin, tick, clock>>

(* POST and DELETE /events/{event_id}/likes.  The UPDATE of like_count waits *)
(* for the row lock.  Overlapping likes are not modelled here.              *)
Like(e) ==
    /\ status[e] # "NONE" /\ ~Locked(e)
    /\ likes[e] < MaxLikes
    /\ likes' = [likes EXCEPT ![e] = @ + 1]
    /\ UNCHANGED <<status, startAt, endAt, eligible, redis, requests, tick, clock>>

Unlike(e) ==
    /\ status[e] # "NONE" /\ ~Locked(e)
    /\ likes[e] > 0
    /\ likes' = [likes EXCEPT ![e] = @ - 1]
    /\ UNCHANGED <<status, startAt, endAt, eligible, redis, requests, tick, clock>>

(* PATCH /events/{event_id}/status: the transition is checked when the row  *)
(* is read, and the row may have changed before it is written.              *)
AskChange(e, to) ==
    /\ admin = NoRequest
    /\ to \in AllowedTransition(status[e])
    /\ admin' = [event |-> e, to |-> to]
    /\ UNCHANGED <<rows, redis, creating, tick, clock>>

(* The UPDATE waits for the scheduler's row lock, and must satisfy the CHECK *)
(* end_at > start_at: of two times in one minute either may be the later.   *)
MakeChange ==
    LET e == admin.event IN
    /\ admin # NoRequest
    /\ ~Locked(e)
    /\ status' = [status EXCEPT ![e] = admin.to]
    /\ startAt' = IF admin.to = "OPEN" THEN [startAt EXCEPT ![e] = now] ELSE startAt
    /\ endAt' = IF admin.to = "CLOSED" THEN [endAt EXCEPT ![e] = now] ELSE endAt
    /\ endAt'[e] >= startAt'[e]
    /\ admin' = NoRequest
    /\ UNCHANGED <<likes, eligible, redis, creating, tick, clock>>

AbortChange ==
    /\ admin # NoRequest
    /\ admin' = NoRequest
    /\ UNCHANGED <<rows, redis, creating, tick, clock>>

-----------------------------------------------------------------------------
(* A tick of the scheduler *)

Wake ==
    /\ pc = "sleep"
    /\ pc' = "batch"
    /\ at' = now
    /\ UNCHANGED <<rows, redis, requests, begun, targets, current, wrote, chosen, clock>>

(* Faulty: the key does not name the time, so one batch is the last. *)
ClaimBatchOnce ==
    /\ pc = "batch"
    /\ IF at % Period = 0 /\ batches = {}
       THEN batches' = batches \cup {at} /\ pc' = "select"
       ELSE batches' = batches /\ pc' = "fetchOpen"
    /\ UNCHANGED <<rows, openAt, closeAt, requests, at, begun, targets, current, wrote, chosen, clock>>

(* SET event:batch:done:<time> NX, in the minutes divisible by the period. *)
ClaimBatch ==
    /\ pc = "batch"
    /\ IF at % Period = 0 /\ at \notin batches
       THEN batches' = batches \cup {at} /\ pc' = "select"
       ELSE batches' = batches /\ pc' = "fetchOpen"
    /\ UNCHANGED <<rows, openAt, closeAt, requests, at, begun, targets, current, wrote, chosen, clock>>

Candidates == {e \in Events : status[e] = "READY" /\ ~eligible[e] /\ likes[e] >= MinLikes}

(* The first Limit candidates by like_count; of equals, those created       *)
(* earlier, which may be any.                                               *)
TopLiked(selected) ==
    /\ selected \subseteq Candidates
    /\ \/ Cardinality(selected) = Limit
       \/ selected = Candidates /\ Cardinality(Candidates) <= Limit
    /\ \A e \in selected, f \in Candidates \ selected : likes[e] >= likes[f]

(* process_event_selection *)
ProcessEventSelection(selected) ==
    /\ pc = "select"
    /\ TopLiked(selected)
    /\ chosen' = selected
    /\ begun' = TRUE
    /\ pc' = "fetchOpen"
    /\ UNCHANGED <<rows, redis, requests, at, targets, current, wrote, clock>>

Due(schedule) == {e \in DOMAIN schedule : schedule[e] <= at}

FetchOpen ==
    /\ pc = "fetchOpen"
    /\ targets' = Due(openAt)
    /\ pc' = "open"
    /\ UNCHANGED <<rows, redis, requests, at, begun, current, wrote, chosen, clock>>

Update(e, to) == [x \in DOMAIN wrote \cup {e} |-> IF x = e THEN to ELSE wrote[x]]

(* Faulty: the event is opened whether or not it was selected. *)
OpenAnyEvent(e) ==
    /\ pc = "open" /\ e \in targets
    /\ begun' = TRUE
    /\ wrote' = IF status[e] = "READY" THEN Update(e, "OPEN") ELSE wrote
    /\ current' = e
    /\ pc' = "zremOpen"
    /\ UNCHANGED <<rows, redis, requests, at, targets, chosen, clock>>

(* Faulty: an event that was not selected is left READY. *)
OpenSelectedOnly(e) ==
    /\ pc = "open" /\ e \in targets
    /\ begun' = TRUE
    /\ wrote' = IF status[e] = "READY" /\ (eligible[e] \/ e \in chosen)
                THEN Update(e, "OPEN") ELSE wrote
    /\ current' = e
    /\ pc' = "zremOpen"
    /\ UNCHANGED <<rows, redis, requests, at, targets, chosen, clock>>

(* update_event_status_auto(event_id, OPEN, READY): an event that was not   *)
(* selected is cancelled; one that is not READY is left alone.              *)
OpenEvent(e) ==
    LET to == IF eligible[e] \/ e \in chosen THEN "OPEN" ELSE "CANCELLED" IN
    /\ pc = "open" /\ e \in targets
    /\ begun' = TRUE
    /\ wrote' = IF status[e] = "READY" THEN Update(e, to) ELSE wrote
    /\ current' = e
    /\ pc' = "zremOpen"
    /\ UNCHANGED <<rows, redis, requests, at, targets, chosen, clock>>

(* Faulty: the event is removed from both schedules. *)
ZremBoth ==
    /\ pc = "zremOpen"
    /\ openAt' = Restrict(openAt, DOMAIN openAt \ {current})
    /\ closeAt' = Restrict(closeAt, DOMAIN closeAt \ {current})
    /\ targets' = targets \ {current}
    /\ current' = NoEvent
    /\ pc' = "open"
    /\ UNCHANGED <<rows, batches, requests, at, begun, wrote, chosen, clock>>

ZremOpen ==
    /\ pc = "zremOpen"
    /\ openAt' = Restrict(openAt, DOMAIN openAt \ {current})
    /\ targets' = targets \ {current}
    /\ current' = NoEvent
    /\ pc' = "open"
    /\ UNCHANGED <<rows, closeAt, batches, requests, at, begun, wrote, chosen, clock>>

FetchClose ==
    /\ pc = "open" /\ targets = {}
    /\ targets' = Due(closeAt)
    /\ pc' = "close"
    /\ UNCHANGED <<rows, redis, requests, at, begun, current, wrote, chosen, clock>>

(* Faulty: an update outside a transaction is not committed. *)
CloseUncommitted(e) ==
    /\ pc = "close" /\ e \in targets
    /\ wrote' = IF begun /\ "OPEN" = (IF e \in DOMAIN wrote THEN wrote[e] ELSE status[e])
                THEN Update(e, "CLOSED") ELSE wrote
    /\ current' = e
    /\ pc' = "zremClose"
    /\ UNCHANGED <<rows, redis, requests, at, begun, targets, chosen, clock>>

(* update_event_status_auto(event_id, CLOSED, OPEN).  When nothing has      *)
(* begun a transaction yet, the update is a transaction of its own.         *)
CloseEvent(e) ==
    LET isOpen == (IF e \in DOMAIN wrote THEN wrote[e] ELSE status[e]) = "OPEN" IN
    /\ pc = "close" /\ e \in targets
    /\ wrote' = IF isOpen /\ begun THEN Update(e, "CLOSED") ELSE wrote
    /\ status' = IF isOpen /\ ~begun THEN [status EXCEPT ![e] = "CLOSED"] ELSE status
    /\ current' = e
    /\ pc' = "zremClose"
    /\ UNCHANGED <<startAt, endAt, likes, eligible, redis, requests, at, begun, targets, chosen, clock>>

(* Faulty: the entry is left in the schedule. *)
KeepCloseEntry ==
    /\ pc = "zremClose"
    /\ targets' = targets \ {current}
    /\ current' = NoEvent
    /\ pc' = "close"
    /\ UNCHANGED <<rows, redis, requests, at, begun, wrote, chosen, clock>>

ZremClose ==
    /\ pc = "zremClose"
    /\ closeAt' = Restrict(closeAt, DOMAIN closeAt \ {current})
    /\ targets' = targets \ {current}
    /\ current' = NoEvent
    /\ pc' = "close"
    /\ UNCHANGED <<rows, openAt, batches, requests, at, begun, wrote, chosen, clock>>

EndTick ==
    /\ pc' = "sleep"
    /\ begun' = FALSE
    /\ targets' = {}
    /\ current' = NoEvent
    /\ wrote' = NoWrites
    /\ chosen' = {}
    /\ at' = 0

CommitTick ==
    /\ pc = "close" /\ targets = {}
    /\ status' = [e \in Events |-> IF e \in DOMAIN wrote THEN wrote[e] ELSE status[e]]
    /\ eligible' = [e \in Events |-> eligible[e] \/ e \in chosen]
    /\ ticked' = (ticked \/ at = now)
    /\ EndTick
    /\ UNCHANGED <<startAt, endAt, likes, redis, requests, now, failures>>

(* Redis or the database fails, or the process stops and is restarted: the  *)
(* transaction is rolled back and the next tick begins anew.                *)
FailTick ==
    /\ pc # "sleep"
    /\ failures < MaxFailures
    /\ failures' = failures + 1
    /\ ticked' = TRUE
    /\ EndTick
    /\ UNCHANGED <<rows, redis, requests, now>>

-----------------------------------------------------------------------------
InProgress(e) == creating[e] \in {"zaddOpen", "zaddClose", "commit"}

Advance ==
    /\ now < MaxTime
    /\ ticked
    /\ admin = NoRequest /\ \A e \in Events : ~InProgress(e)
    /\ now' = now + 1
    /\ ticked' = FALSE
    /\ UNCHANGED <<rows, redis, requests, tick, failures>>

Init ==
    /\ now = 0
    /\ status = [e \in Events |-> "NONE"]
    /\ startAt = [e \in Events |-> 0] /\ endAt = [e \in Events |-> 0]
    /\ likes = [e \in Events |-> 0]
    /\ eligible = [e \in Events |-> FALSE]
    /\ openAt = [e \in {} |-> 0] /\ closeAt = [e \in {} |-> 0]
    /\ batches = {}
    /\ creating = [e \in Events |-> "no"]
    /\ admin = NoRequest
    /\ pc = "sleep" /\ at = 0 /\ begun = FALSE
    /\ targets = {} /\ current = NoEvent
    /\ wrote = NoWrites /\ chosen = {}
    /\ ticked = FALSE /\ failures = 0

FinishCreate(e) == AddToOpen(e) \/ AddToClose(e) \/ CommitCreate(e) \/ AbortCreate(e)

FinishChange == MakeChange \/ AbortChange

TickStep ==
    \/ Wake
    \/ ClaimBatch
    \/ \E selected \in SUBSET Events : ProcessEventSelection(selected)
    \/ FetchOpen
    \/ \E e \in Events : OpenEvent(e)
    \/ ZremOpen
    \/ FetchClose
    \/ \E e \in Events : CloseEvent(e)
    \/ ZremClose
    \/ CommitTick

Next ==
    \/ \E e \in Events, start, end \in Times : BeginCreate(e, start, end)
    \/ \E e \in Events : Like(e) \/ Unlike(e)
    \/ \E e \in Events, to \in EventStatus : AskChange(e, to)
    \/ \E e \in Events : FinishCreate(e)
    \/ FinishChange
    \/ TickStep
    \/ FailTick
    \/ Advance

(* The scheduler's loop never ends, each request ends, and time passes      *)
(* although requests keep coming.                                           *)
Fairness ==
    /\ WF_vars(TickStep)
    /\ \A e \in Events : WF_vars(FinishCreate(e))
    /\ WF_vars(FinishChange)
    /\ SF_vars(Advance)

Spec == Init /\ [][Next]_vars /\ Fairness
-----------------------------------------------------------------------------
(* What the schedule guarantees *)

(* As long as no tick has failed, an event that waits to be opened or       *)
(* closed is in the schedule or in the hands of the tick that removed it:   *)
(* nothing else will ever look at it.  MakeChange leaves the schedule alone *)
(* and must not disturb this.                                               *)
WaitingEventsAreScheduled ==
    failures = 0 => \A e \in Events :
        /\ status[e] = "READY" => e \in DOMAIN openAt \cup DOMAIN wrote
        /\ status[e] = "OPEN" => e \in DOMAIN closeAt \cup DOMAIN wrote

(* The scheduler changes an event only when its time has come and in one of *)
(* three ways: a READY event opens if it was selected and is cancelled if   *)
(* not, an OPEN event closes.  Everything else is an administrator's doing. *)
ScheduledChangesAreDue ==
    [][\A e \in Events : status'[e] # status[e] /\ status[e] # "NONE" /\ admin' = admin =>
          \/ status[e] = "READY" /\ startAt[e] <= now
               /\ status'[e] \in (IF eligible'[e] THEN {"OPEN", "CLOSED"} ELSE {"CANCELLED"})
          \/ status[e] = "OPEN" /\ endAt[e] <= now /\ status'[e] = "CLOSED"]_vars

(* "시작일 도달 시 자동 전환": an event whose start has come leaves READY,    *)
(* unless a tick has failed.                                                *)
DueEventsLeaveReadyUnlessFailed ==
    \A e \in Events :
        (status[e] = "READY" /\ startAt[e] <= now) ~> (status[e] # "READY" \/ failures > 0)

(* "종료일 도달 시 자동 전환": an open event whose end has come closes, unless *)
(* a tick has failed.                                                       *)
EndedEventsCloseUnlessFailed ==
    \A e \in Events :
        (status[e] = "OPEN" /\ endAt[e] <= now) ~> (status[e] # "OPEN" \/ failures > 0)

(* Whatever fails, the schedule does not keep entries that are due, not even *)
(* those of an event whose creation was rolled back.                        *)
DueEntriesAreRemoved ==
    /\ \A e \in Events : (e \in DOMAIN openAt /\ openAt[e] <= now) ~> (e \notin DOMAIN openAt)
    /\ \A e \in Events : (e \in DOMAIN closeAt /\ closeAt[e] <= now) ~> (e \notin DOMAIN closeAt)

NextBatch == (now \div Period + 1) * Period

(* A READY event that has the likes, and keeps them, before the last        *)
(* selection that precedes its start is selected, if the selection has room *)
(* for all candidates, no tick fails and no administrator interferes.       *)
LikedEventsAreSelected ==
    \A e \in Events :
        (e \in Candidates /\ NextBatch <= startAt[e])
            ~> (\/ eligible[e]
                \/ likes[e] < MinLikes
                \/ Cardinality(Candidates) > Limit
                \/ admin.event = e
                \/ failures > 0)
=============================================================================
