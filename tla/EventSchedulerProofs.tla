------------------------- MODULE EventSchedulerProofs -------------------------
(***************************************************************************)
(* What EventScheduler guarantees for any number of events, any periods and *)
(* any number of failures.                                                  *)
(***************************************************************************)
EXTENDS EventScheduler, TLAPS

Late == {"open", "zremOpen", "close", "zremClose"}

(* An event is scheduled before its row is committed, and after that moment *)
(* neither of its times has come while it is being created.                 *)
Created == \A e \in Events :
    /\ creating[e] # "done" => status[e] = "NONE"
    /\ creating[e] \in {"no", "zaddOpen"} => e \notin DOMAIN openAt
    /\ creating[e] \in {"zaddClose", "commit"} => e \in DOMAIN openAt
    /\ creating[e] \in {"no", "zaddOpen", "zaddClose"} => e \notin DOMAIN closeAt
    /\ creating[e] = "commit" => e \in DOMAIN closeAt
    /\ InProgress(e) => now < startAt[e] /\ startAt[e] < endAt[e]

(* An administrator asks for changes of committed events only. *)
Asked == admin # NoRequest => creating[admin.event] = "done" /\ admin.to # "READY"

(* Also when it is no longer what it was as the administrator asked. *)
MayOpen(e) == status[e] \in {"NONE", "READY", "OPEN"} \/ (admin.event = e /\ admin.to = "OPEN")

(* The scores are the times in the rows, as long as they matter. *)
Scores == \A e \in Events :
    /\ e \in DOMAIN openAt /\ status[e] \in {"NONE", "READY"} => openAt[e] = startAt[e]
    /\ e \in DOMAIN closeAt /\ MayOpen(e) => closeAt[e] = endAt[e]
    /\ e \in DOMAIN openAt \cap DOMAIN closeAt => openAt[e] < closeAt[e]

(* What a tick goes through is what is due, and nothing becomes due behind  *)
(* its back.                                                                *)
Targets ==
    /\ at <= now
    /\ pc \in {"open", "zremOpen"} => targets = Due(openAt)
    /\ pc \in {"close", "zremClose"} => targets \subseteq Due(closeAt) /\ Due(openAt) = {}
    /\ pc \in {"zremOpen", "zremClose"} => current \in targets

(* What a tick has written, to rows that nobody else changes meanwhile. *)
Writes == \A e \in DOMAIN wrote :
    /\ begun /\ pc \in Late
    /\ status[e] \in {"READY", "OPEN"}
    /\ status[e] = "READY" => startAt[e] <= now
         /\ wrote[e] \in (IF eligible[e] \/ e \in chosen THEN {"OPEN", "CLOSED"} ELSE {"CANCELLED"})
    /\ status[e] = "OPEN" => endAt[e] <= now /\ wrote[e] = "CLOSED"

(* True whatever fails. *)
Base == Created /\ Asked /\ Scores /\ Targets /\ Writes

ClosesLater(e) == e \in DOMAIN closeAt /\ now < closeAt[e]

(* Until a tick fails, what waits is in the schedule, or the tick that      *)
(* removed it has written it.                                               *)
Kept == \A e \in Events :
    /\ status[e] = "READY" =>
         /\ e \in DOMAIN wrote \/ (e \in DOMAIN openAt /\ ~(pc = "zremOpen" /\ current = e))
         /\ ClosesLater(e)
    /\ admin.event = e /\ admin.to = "OPEN" => ClosesLater(e)
    /\ (IF e \in DOMAIN wrote THEN wrote[e] ELSE status[e]) = "OPEN" =>
         e \in DOMAIN closeAt /\ ~(pc = "zremClose" /\ current = e)

(* Until a tick fails, no minute ends before what is due in it is done. *)
OnTime == \A e \in Events :
    /\ e \in DOMAIN openAt => now <= openAt[e] /\ (ticked => now < openAt[e])
    /\ ticked /\ e \in DOMAIN wrote => status[e] # "READY"

IInv == TypeOK /\ Base /\ (failures = 0 => Kept /\ OnTime)

-----------------------------------------------------------------------------
LEMMA NoWritesAtAll == DOMAIN NoWrites = {}
  BY DEF NoWrites

LEMMA EndTickTypes ==
    ASSUME EndTick
    PROVE  /\ pc' \in Steps /\ at' \in Times /\ begun' \in BOOLEAN
           /\ targets' \subseteq Events /\ current' \in Events \cup {NoEvent}
           /\ DOMAIN wrote' \subseteq Events /\ (\A e \in DOMAIN wrote' : wrote'[e] \in EventStatus)
           /\ chosen' \subseteq Events
<1>1. DOMAIN wrote' = {}
  BY NoWritesAtAll DEF EndTick
<1>2. at' \in Times
  BY SchedulerAssumption DEF EndTick, Times
<1> QED  BY <1>1, <1>2 DEF EndTick, Steps

LEMMA InitInvariant == Init => IInv
<1> SUFFICES ASSUME Init PROVE IInv
  OBVIOUS
<1>1. TypeOK
  <2>1. 0 \in Times
    BY SchedulerAssumption DEF Times
  <2>2. 0 \in 0 .. MaxLikes /\ 0 \in 0 .. MaxFailures
    BY SchedulerAssumption
  <2>3. DOMAIN openAt = {} /\ DOMAIN closeAt = {} /\ DOMAIN wrote = {}
    BY NoWritesAtAll DEF Init
  <2> QED  BY <2>1, <2>2, <2>3 DEF Init, TypeOK, Steps
<1>2. Base
  BY SchedulerAssumption DEF Init, Base, Created, Asked, Scores, Targets, Writes, InProgress, NoRequest, NoWrites
<1>3. Kept /\ OnTime
  BY SchedulerAssumption DEF Init, Kept, OnTime, NoRequest, NoWrites
<1> QED  BY <1>1, <1>2, <1>3 DEF IInv

(* The requests' steps. *)
LEMMA RequestTypes ==
    ASSUME TypeOK,
           \/ \E e \in Events, start, end \in Times : BeginCreate(e, start, end)
           \/ \E e \in Events : Like(e) \/ Unlike(e) \/ FinishCreate(e)
           \/ \E e \in Events, to \in EventStatus : AskChange(e, to)
           \/ FinishChange
    PROVE  TypeOK'
<1> USE SchedulerAssumption DEF TypeOK, rows, redis, requests, tick, clock
<1>1. ASSUME NEW e \in Events, NEW start \in Times, NEW end \in Times, BeginCreate(e, start, end)
      PROVE  TypeOK'
  BY <1>1 DEF BeginCreate
<1>2. ASSUME NEW e \in Events, Like(e) PROVE TypeOK'
  BY <1>2 DEF Like
<1>3. ASSUME NEW e \in Events, Unlike(e) PROVE TypeOK'
  BY <1>3 DEF Unlike
<1>4. ASSUME NEW e \in Events, AddToOpen(e) PROVE TypeOK'
  BY <1>4 DEF AddToOpen
<1>5. ASSUME NEW e \in Events, AddToClose(e) PROVE TypeOK'
  BY <1>5 DEF AddToClose
<1>6. ASSUME NEW e \in Events, CommitCreate(e) PROVE TypeOK'
  BY <1>6 DEF CommitCreate, EventStatus
<1>7. ASSUME NEW e \in Events, AbortCreate(e) PROVE TypeOK'
  BY <1>7 DEF AbortCreate
<1>8. ASSUME NEW e \in Events, NEW to \in EventStatus, AskChange(e, to) PROVE TypeOK'
  BY <1>8 DEF AskChange
<1>9. CASE MakeChange
  BY <1>9 DEF MakeChange, NoRequest
<1>10. CASE AbortChange
  BY <1>10 DEF AbortChange
<1> QED  BY <1>1, <1>2, <1>3, <1>4, <1>5, <1>6, <1>7, <1>8, <1>9, <1>10 DEF FinishCreate, FinishChange

LEMMA TickTypes == ASSUME TypeOK, TickStep \/ FailTick \/ Advance PROVE TypeOK'
<1> USE SchedulerAssumption DEF TypeOK, rows, redis, requests, tick, clock, Steps, Times
<1>1. CASE Wake
  BY <1>1 DEF Wake
<1>2. CASE ClaimBatch
  BY <1>2 DEF ClaimBatch
<1>3. ASSUME NEW selected \in SUBSET Events, ProcessEventSelection(selected) PROVE TypeOK'
  BY <1>3 DEF ProcessEventSelection
<1>4. CASE FetchOpen
  BY <1>4 DEF FetchOpen, Due
<1>5. ASSUME NEW e \in Events, OpenEvent(e) PROVE TypeOK'
  BY <1>5 DEF OpenEvent, Update, EventStatus
<1>6. CASE ZremOpen
  BY <1>6 DEF ZremOpen, Restrict
<1>7. CASE FetchClose
  BY <1>7 DEF FetchClose, Due
<1>8. ASSUME NEW e \in Events, CloseEvent(e) PROVE TypeOK'
  BY <1>8 DEF CloseEvent, Update, EventStatus
<1>9. CASE ZremClose
  BY <1>9 DEF ZremClose, Restrict
<1>10. CASE CommitTick
  <2>1. status' \in [Events -> EventStatus \cup {"NONE"}]
    BY <1>10 DEF CommitTick
  <2>2. eligible' \in [Events -> BOOLEAN]
    BY <1>10 DEF CommitTick
  <2>3. ticked' \in BOOLEAN
    BY <1>10 DEF CommitTick
  <2> QED  BY <1>10, <2>1, <2>2, <2>3, EndTickTypes DEF CommitTick
<1>11. CASE FailTick
  BY <1>11, EndTickTypes DEF FailTick
<1>12. CASE Advance
  <2>1. now' \in Times
    BY <1>12 DEF Advance
  <2> QED  BY <1>12, <2>1 DEF Advance
<1> QED  BY <1>1, <1>2, <1>3, <1>4, <1>5, <1>6, <1>7, <1>8, <1>9, <1>10, <1>11, <1>12 DEF TickStep

-----------------------------------------------------------------------------
(* Base is kept by every step, part by part.                                *)

LEMMA CreatedNext == ASSUME TypeOK, Base, Next PROVE Created'
<1> USE DEF Base, Created, InProgress, rows, redis, requests, tick, clock
<1>1. ASSUME NEW e \in Events, NEW start \in Times, NEW end \in Times, BeginCreate(e, start, end)
      PROVE  Created'
  BY <1>1, SchedulerAssumption DEF BeginCreate, TypeOK, Times
<1>2. ASSUME NEW e \in Events, AddToOpen(e) PROVE Created'
  BY <1>2 DEF AddToOpen, TypeOK
<1>3. ASSUME NEW e \in Events, AddToClose(e) PROVE Created'
  BY <1>3 DEF AddToClose, TypeOK
<1>4. ASSUME NEW e \in Events, CommitCreate(e) PROVE Created'
  BY <1>4 DEF CommitCreate, TypeOK
<1>5. ASSUME NEW e \in Events, AbortCreate(e) PROVE Created'
  BY <1>5 DEF AbortCreate, TypeOK
<1>6. CASE MakeChange
  BY <1>6 DEF MakeChange, Asked, TypeOK
<1>7. CASE ZremOpen
  <2>1. current \in DOMAIN openAt /\ ~(now < openAt[current]) /\ current \in Events
    BY <1>7, SchedulerAssumption DEF ZremOpen, Targets, Due, TypeOK, Times
  <2>2. creating[current] \notin {"zaddClose", "commit"}
    BY <2>1 DEF Scores
  <2> QED  BY <1>7, <2>2 DEF ZremOpen, Restrict
<1>8. CASE ZremClose
  <2>1. current \in DOMAIN closeAt /\ ~(now < closeAt[current]) /\ current \in Events
    BY <1>8, SchedulerAssumption DEF ZremClose, Targets, Due, TypeOK, Times
  <2>2. creating[current] # "commit"
    BY <2>1, SchedulerAssumption DEF Scores, MayOpen, TypeOK, Times
  <2> QED  BY <1>8, <2>2 DEF ZremClose, Restrict
<1>9. ASSUME NEW e \in Events, CloseEvent(e) PROVE Created'
  BY <1>9 DEF CloseEvent, Writes, TypeOK
<1>10. CASE CommitTick
  BY <1>10 DEF CommitTick, EndTick, Writes, TypeOK
<1>11. CASE Advance
  BY <1>11 DEF Advance
<1>12. CASE UNCHANGED <<status, startAt, endAt, openAt, closeAt, creating, now>>
  BY <1>12
<1> QED
  BY <1>1, <1>2, <1>3, <1>4, <1>5, <1>6, <1>7, <1>8, <1>9, <1>10, <1>11, <1>12
     DEF Next, FinishCreate, FinishChange, TickStep, Like, Unlike, AskChange, AbortChange, Wake,
         ClaimBatch, ProcessEventSelection, FetchOpen, OpenEvent, FetchClose, FailTick

LEMMA AskedNext == ASSUME TypeOK, Base, Next PROVE Asked'
<1> USE DEF Base, Asked, rows, redis, requests, tick, clock
<1>1. ASSUME NEW e \in Events, NEW to \in EventStatus, AskChange(e, to) PROVE Asked'
  BY <1>1 DEF AskChange, Created, AllowedTransition
<1>2. CASE FinishChange
  BY <1>2 DEF FinishChange, MakeChange, AbortChange
<1>3. ASSUME NEW e \in Events, FinishCreate(e) \/ \E start, end \in Times : BeginCreate(e, start, end)
      PROVE  Asked'
  BY <1>3 DEF FinishCreate, BeginCreate, AddToOpen, AddToClose, CommitCreate, AbortCreate, TypeOK
<1>4. CASE UNCHANGED <<admin, creating>>
  BY <1>4
<1> QED
  BY <1>1, <1>2, <1>3, <1>4
     DEF Next, TickStep, Like, Unlike, Wake, ClaimBatch, ProcessEventSelection, FetchOpen, OpenEvent,
         ZremOpen, FetchClose, CloseEvent, ZremClose, CommitTick, FailTick, Advance

LEMMA ScoresNext == ASSUME TypeOK, Base, Next PROVE Scores'
<1> USE DEF Base, Scores, MayOpen, rows, redis, requests, tick, clock
<1>1. ASSUME NEW e \in Events, NEW start \in Times, NEW end \in Times, BeginCreate(e, start, end)
      PROVE  Scores'
  BY <1>1 DEF BeginCreate, TypeOK, Created
<1>2. ASSUME NEW e \in Events, AddToOpen(e) PROVE Scores'
  BY <1>2 DEF AddToOpen, TypeOK, Created
<1>3. ASSUME NEW e \in Events, AddToClose(e) PROVE Scores'
  BY <1>3 DEF AddToClose, TypeOK, Created, InProgress
<1>4. ASSUME NEW e \in Events, CommitCreate(e) PROVE Scores'
  BY <1>4 DEF CommitCreate, TypeOK, Created
<1>5. ASSUME NEW e \in Events, NEW to \in EventStatus, AskChange(e, to) PROVE Scores'
  BY <1>5 DEF AskChange, AllowedTransition, NoRequest
<1>6. CASE MakeChange
  BY <1>6 DEF MakeChange, Asked, NoRequest, TypeOK, EventStatus
<1>7. CASE AbortChange
  BY <1>7, SchedulerAssumption DEF AbortChange, NoRequest
<1>8. CASE ZremOpen \/ ZremClose
  BY <1>8 DEF ZremOpen, ZremClose, Restrict
<1>9. ASSUME NEW e \in Events, CloseEvent(e) PROVE Scores'
  BY <1>9 DEF CloseEvent, Writes, TypeOK
<1>10. CASE CommitTick
  BY <1>10 DEF CommitTick, EndTick, Writes, TypeOK
<1>11. CASE UNCHANGED <<status, startAt, endAt, openAt, closeAt, admin>>
  BY <1>11
<1> QED
  BY <1>1, <1>2, <1>3, <1>4, <1>5, <1>6, <1>7, <1>8, <1>9, <1>10, <1>11
     DEF Next, FinishCreate, FinishChange, TickStep, AbortCreate, Like, Unlike, Wake, ClaimBatch,
         ProcessEventSelection, FetchOpen, OpenEvent, FetchClose, FailTick, Advance

LEMMA TargetsNext == ASSUME TypeOK, Base, Next PROVE Targets'
<1> USE SchedulerAssumption DEF Base, Targets, Due, rows, redis, requests, tick, clock
<1>1. ASSUME NEW e \in Events, AddToOpen(e) PROVE Targets'
  BY <1>1 DEF AddToOpen, TypeOK, Times, Created, InProgress
<1>2. ASSUME NEW e \in Events, AddToClose(e) PROVE Targets'
  BY <1>2 DEF AddToClose, TypeOK, Times, Created
<1>3. CASE Wake
  BY <1>3 DEF Wake, TypeOK, Times
<1>4. CASE ClaimBatch \/ (\E selected \in SUBSET Events : ProcessEventSelection(selected)) \/ FetchOpen
  BY <1>4 DEF ClaimBatch, ProcessEventSelection, FetchOpen
<1>5. ASSUME NEW e \in Events, OpenEvent(e) \/ CloseEvent(e) PROVE Targets'
  BY <1>5 DEF OpenEvent, CloseEvent
<1>6. CASE ZremOpen
  BY <1>6 DEF ZremOpen, Restrict
<1>7. CASE FetchClose
  BY <1>7 DEF FetchClose
<1>8. CASE ZremClose
  BY <1>8 DEF ZremClose, Restrict
<1>9. CASE CommitTick \/ FailTick
  BY <1>9 DEF CommitTick, FailTick, EndTick, TypeOK, Times
<1>10. CASE Advance
  BY <1>10 DEF Advance, TypeOK, Times
<1>11. CASE UNCHANGED <<openAt, closeAt, tick, now>>
  BY <1>11
<1> QED
  BY <1>1, <1>2, <1>3, <1>4, <1>5, <1>6, <1>7, <1>8, <1>9, <1>10, <1>11
     DEF Next, FinishCreate, FinishChange, TickStep, BeginCreate, CommitCreate, AbortCreate, Like, Unlike,
         AskChange, MakeChange, AbortChange

LEMMA WritesNext == ASSUME TypeOK, Base, Next PROVE Writes'
<1> USE DEF Base, Writes, Late, rows, redis, requests, tick, clock
<1>1. ASSUME NEW e \in Events, NEW start \in Times, NEW end \in Times, BeginCreate(e, start, end)
      PROVE  Writes'
  BY <1>1 DEF BeginCreate, TypeOK, Created
<1>2. ASSUME NEW e \in Events, CommitCreate(e) PROVE Writes'
  BY <1>2 DEF CommitCreate, TypeOK, Created
<1>3. CASE MakeChange
  BY <1>3 DEF MakeChange, Locked, TypeOK, NoRequest
<1>4. CASE Wake \/ ClaimBatch \/ (\E selected \in SUBSET Events : ProcessEventSelection(selected)) \/ FetchOpen
  BY <1>4 DEF Wake, ClaimBatch, ProcessEventSelection, FetchOpen
<1>5. ASSUME NEW e \in Events, OpenEvent(e) PROVE Writes'
  <2>1. e \in DOMAIN openAt /\ openAt[e] <= now
    BY <1>5, SchedulerAssumption DEF OpenEvent, Targets, Due, TypeOK, Times
  <2>2. status[e] = "READY" => startAt[e] <= now
    BY <2>1 DEF Scores
  <2>3. pc' \in Late /\ begun' = TRUE /\ UNCHANGED <<status, startAt, endAt, eligible, chosen, now>>
    BY <1>5 DEF OpenEvent
  <2>4. CASE status[e] = "READY"
    BY <1>5, <2>2, <2>3, <2>4 DEF OpenEvent, Update
  <2>5. CASE status[e] # "READY"
    BY <1>5, <2>3, <2>5 DEF OpenEvent
  <2> QED  BY <2>4, <2>5
<1>6. ASSUME NEW e \in Events, CloseEvent(e) PROVE Writes'
  <2>1. e \in DOMAIN closeAt /\ closeAt[e] <= now
    BY <1>6, SchedulerAssumption DEF CloseEvent, Targets, Due, TypeOK, Times
  <2>2. status[e] = "OPEN" => endAt[e] <= now
    BY <2>1 DEF Scores, MayOpen
  <2>3. pc' \in Late /\ UNCHANGED <<begun, startAt, endAt, eligible, chosen, now>>
    BY <1>6 DEF CloseEvent
  <2>4. CASE begun
    BY <1>6, <2>2, <2>3, <2>4 DEF CloseEvent, Update
  <2>5. CASE ~begun
    BY <1>6, <2>3, <2>5 DEF CloseEvent
  <2> QED  BY <2>4, <2>5
<1>7. CASE ZremOpen \/ FetchClose \/ ZremClose
  BY <1>7 DEF ZremOpen, FetchClose, ZremClose
<1>8. CASE CommitTick \/ FailTick
  BY <1>8, NoWritesAtAll DEF CommitTick, FailTick, EndTick
<1>9. CASE Advance
  BY <1>9, SchedulerAssumption DEF Advance, TypeOK, Times
<1>10. CASE UNCHANGED <<status, startAt, endAt, eligible, tick, now>>
  BY <1>10
<1> QED
  BY <1>1, <1>2, <1>3, <1>4, <1>5, <1>6, <1>7, <1>8, <1>9, <1>10
     DEF Next, FinishCreate, FinishChange, TickStep, AddToOpen, AddToClose, AbortCreate, Like, Unlike,
         AskChange, AbortChange

-----------------------------------------------------------------------------
(* Until a tick fails *)

LEMMA KeptNext == ASSUME TypeOK, Base, Kept, OnTime, Next, ~FailTick PROVE Kept'
<1> USE DEF Base, Kept, ClosesLater, rows, redis, requests, tick, clock
<1>1. ASSUME NEW e \in Events, AddToOpen(e) PROVE Kept'
  BY <1>1 DEF AddToOpen, TypeOK
<1>2. ASSUME NEW e \in Events, AddToClose(e) PROVE Kept'
  BY <1>2, SchedulerAssumption DEF AddToClose, TypeOK, Times, Created, InProgress
<1>3. ASSUME NEW e \in Events, CommitCreate(e) PROVE Kept'
  <2>1. e \in DOMAIN openAt /\ e \in DOMAIN closeAt /\ now < openAt[e] /\ now < closeAt[e]
    BY <1>3, SchedulerAssumption DEF CommitCreate, Created, InProgress, Scores, MayOpen, TypeOK, Times
  <2>2. ~(pc = "zremOpen" /\ current = e)
    BY <2>1, SchedulerAssumption DEF Targets, Due, TypeOK, Times
  <2>3. e \notin DOMAIN wrote
    BY <1>3 DEF CommitCreate, Created, Writes
  <2> QED  BY <1>3, <2>1, <2>2, <2>3 DEF CommitCreate, TypeOK
<1>4. ASSUME NEW e \in Events, NEW to \in EventStatus, AskChange(e, to) PROVE Kept'
  BY <1>4, SchedulerAssumption DEF AskChange, AllowedTransition
<1>5. CASE MakeChange
  <2>1. PICK e \in Events : e = admin.event /\ e \notin DOMAIN wrote
    BY <1>5 DEF MakeChange, Locked, TypeOK
  <2>2. status' = [status EXCEPT ![e] = admin.to] /\ admin' = NoRequest /\ admin.to # "READY"
    BY <1>5, <2>1 DEF MakeChange, Asked
  <2>3. UNCHANGED <<openAt, closeAt, wrote, pc, current, now>>
    BY <1>5 DEF MakeChange
  <2>4. admin.to = "OPEN" => e \in DOMAIN closeAt /\ ~(pc = "zremClose" /\ current = e)
    BY <2>1, SchedulerAssumption DEF Targets, Due, TypeOK, Times
  <2> QED  BY <2>1, <2>2, <2>3, <2>4 DEF TypeOK, NoRequest
<1>6. CASE AbortChange
  BY <1>6 DEF AbortChange, NoRequest
<1>7. CASE Wake \/ ClaimBatch \/ (\E selected \in SUBSET Events : ProcessEventSelection(selected))
               \/ FetchOpen \/ FetchClose
  BY <1>7 DEF Wake, ClaimBatch, ProcessEventSelection, FetchOpen, FetchClose
<1>8. ASSUME NEW e \in Events, OpenEvent(e) PROVE Kept'
  <2>1. pc' = "zremOpen" /\ current' = e /\ UNCHANGED <<status, openAt, closeAt, admin, now>>
    BY <1>8 DEF OpenEvent
  <2>2. CASE status[e] = "READY"
    BY <1>8, <2>1, <2>2 DEF OpenEvent, Update
  <2>3. CASE status[e] # "READY"
    BY <1>8, <2>1, <2>3 DEF OpenEvent
  <2> QED  BY <2>2, <2>3
<1>9. CASE ZremOpen
  BY <1>9 DEF ZremOpen, Restrict
<1>10. ASSUME NEW e \in Events, CloseEvent(e) PROVE Kept'
  <2>1. pc' = "zremClose" /\ current' = e /\ UNCHANGED <<openAt, closeAt, admin, now>>
    BY <1>10 DEF CloseEvent
  <2>2. CASE begun
    BY <1>10, <2>1, <2>2 DEF CloseEvent, Update
  <2>3. CASE ~begun
    BY <1>10, <2>1, <2>3 DEF CloseEvent, Writes, TypeOK
  <2> QED  BY <2>2, <2>3
<1>11. CASE ZremClose
  <2>1. current \in DOMAIN closeAt /\ ~(now < closeAt[current])
    BY <1>11, SchedulerAssumption DEF ZremClose, Targets, Due, TypeOK, Times
  <2> QED  BY <1>11, <2>1 DEF ZremClose, Restrict
<1>12. CASE CommitTick
  <2>1. DOMAIN wrote' = {} /\ pc' = "sleep" /\ UNCHANGED <<openAt, closeAt, admin, now>>
    BY <1>12, NoWritesAtAll DEF CommitTick, EndTick
  <2>2. \A e \in Events : status'[e] = IF e \in DOMAIN wrote THEN wrote[e] ELSE status[e]
    BY <1>12 DEF CommitTick
  <2> QED  BY <2>1, <2>2 DEF Writes
<1>13. CASE Advance
  <2>1. now' = now + 1 /\ UNCHANGED <<status, openAt, closeAt, admin, wrote, pc, current>> /\ admin = NoRequest /\ ticked
    BY <1>13 DEF Advance
  <2>2. ASSUME NEW e \in Events, status[e] = "READY" PROVE now + 1 < closeAt[e]
    <3>1. e \in DOMAIN openAt /\ now < openAt[e] /\ e \in DOMAIN closeAt
      BY <2>1, <2>2 DEF OnTime
    <3>2. openAt[e] < closeAt[e]
      BY <3>1 DEF Scores
    <3> QED  BY <3>1, <3>2, SchedulerAssumption DEF TypeOK, Times
  <2> QED  BY <2>1, <2>2 DEF NoRequest
<1>14. CASE UNCHANGED <<status, openAt, closeAt, admin, tick, now>>
  BY <1>14
<1> QED
  BY <1>1, <1>2, <1>3, <1>4, <1>5, <1>6, <1>7, <1>8, <1>9, <1>10, <1>11, <1>12, <1>13, <1>14
     DEF Next, FinishCreate, FinishChange, TickStep, BeginCreate, AbortCreate, Like, Unlike

LEMMA OnTimeNext == ASSUME TypeOK, Base, Kept, OnTime, Next, ~FailTick PROVE OnTime'
<1> USE SchedulerAssumption DEF Base, OnTime, rows, redis, requests, tick, clock
<1>1. ASSUME NEW e \in Events, AddToOpen(e) PROVE OnTime'
  BY <1>1 DEF AddToOpen, TypeOK, Times, Created, InProgress
<1>2. ASSUME NEW e \in Events, CommitCreate(e) PROVE OnTime'
  BY <1>2 DEF CommitCreate, TypeOK, Created, Writes
<1>3. CASE MakeChange
  BY <1>3 DEF MakeChange, Asked, TypeOK
<1>4. ASSUME NEW e \in Events, OpenEvent(e) PROVE OnTime'
  <2>1. e \in DOMAIN openAt /\ ~(now < openAt[e])
    BY <1>4 DEF OpenEvent, Targets, Due, TypeOK, Times
  <2>2. ~ticked
    BY <2>1
  <2> QED  BY <1>4, <2>2 DEF OpenEvent
<1>5. CASE ZremOpen
  BY <1>5 DEF ZremOpen, Restrict
<1>6. ASSUME NEW e \in Events, CloseEvent(e) PROVE OnTime'
  <2>1. UNCHANGED <<openAt, ticked, now>>
    BY <1>6 DEF CloseEvent
  <2>2. CASE begun
    BY <1>6, <2>1, <2>2 DEF CloseEvent, Update, Writes
  <2>3. CASE ~begun
    BY <1>6, <2>1, <2>3 DEF CloseEvent, Writes
  <2> QED  BY <2>2, <2>3
<1>7. CASE CommitTick
  <2>1. DOMAIN wrote' = {} /\ ticked' = (ticked \/ at = now) /\ UNCHANGED <<openAt, now>>
    BY <1>7, NoWritesAtAll DEF CommitTick, EndTick
  <2>2. \A e \in DOMAIN openAt : ~(openAt[e] <= at)
    BY <1>7 DEF CommitTick, Targets, Due
  <2> QED  BY <2>1, <2>2 DEF TypeOK, Times
<1>8. CASE Advance
  BY <1>8 DEF Advance, TypeOK, Times
<1>9. CASE UNCHANGED <<status, openAt, wrote, ticked, now>>
  BY <1>9
<1> QED
  BY <1>1, <1>2, <1>3, <1>4, <1>5, <1>6, <1>7, <1>8, <1>9
     DEF Next, FinishCreate, FinishChange, TickStep, BeginCreate, AddToClose, AbortCreate, Like, Unlike,
         AskChange, AbortChange, Wake, ClaimBatch, ProcessEventSelection, FetchOpen, FetchClose, ZremClose

(* A failed tick stays failed. *)
LEMMA FailuresStay ==
    ASSUME TypeOK, Next, failures' = 0 PROVE failures = 0 /\ ~FailTick
<1>1. ~FailTick
  BY SchedulerAssumption DEF FailTick, TypeOK
<1>2. UNCHANGED failures
  BY <1>1
     DEF Next, FinishCreate, FinishChange, TickStep, BeginCreate, AddToOpen, AddToClose, CommitCreate,
         AbortCreate, Like, Unlike, AskChange, MakeChange, AbortChange, Wake, ClaimBatch, ProcessEventSelection,
         FetchOpen, OpenEvent, ZremOpen, FetchClose, CloseEvent, ZremClose, CommitTick, Advance, clock
<1> QED  BY <1>1, <1>2

LEMMA NextInvariant == ASSUME IInv, [Next]_vars PROVE IInv'
<1>1. CASE Next
  <2>1. TypeOK'
    BY <1>1, RequestTypes, TickTypes DEF IInv, Next
  <2>2. Base'
    BY <1>1, CreatedNext, AskedNext, ScoresNext, TargetsNext, WritesNext DEF IInv, Base
  <2>3. ASSUME failures' = 0 PROVE Kept' /\ OnTime'
    <3>1. failures = 0 /\ ~FailTick
      BY <1>1, <2>3, FailuresStay DEF IInv
    <3> QED  BY <1>1, <3>1, KeptNext, OnTimeNext DEF IInv
  <2> QED  BY <2>1, <2>2, <2>3 DEF IInv
<1>2. CASE UNCHANGED vars
  BY <1>2 DEF vars, rows, redis, requests, tick, clock, IInv, TypeOK, Base, Created, InProgress, Asked, Scores,
     MayOpen, Targets, Due, Writes, Kept, ClosesLater, OnTime
<1> QED  BY <1>1, <1>2

(* The invariant the rest follows from. *)
THEOREM Invariance == Spec => []IInv
<1>1. Init => IInv
  BY InitInvariant
<1>2. IInv /\ [Next]_vars => IInv'
  BY NextInvariant
<1> QED  BY <1>1, <1>2, PTL DEF Spec

(* Rows, schedule and tick keep their types. *)
THEOREM TypeCorrect == Spec => []TypeOK
<1>1. IInv => TypeOK
  BY DEF IInv
<1> QED  BY <1>1, Invariance, PTL

(* No event that waits for the scheduler is ever lost to it, however        *)
(* requests and ticks interleave, until a tick fails.                       *)
THEOREM Scheduled == Spec => []WaitingEventsAreScheduled
<1>1. IInv => WaitingEventsAreScheduled
  BY DEF IInv, Kept, WaitingEventsAreScheduled, Base, Writes
<1> QED  BY <1>1, Invariance, PTL

(* Even with failures, the scheduler opens, cancels and closes events only  *)
(* when their time in the row has come.                                     *)
THEOREM ChangesAreDue == Spec => ScheduledChangesAreDue
<1> DEFINE Step == \A e \in Events : status'[e] # status[e] /\ status[e] # "NONE" /\ admin' = admin =>
          \/ status[e] = "READY" /\ startAt[e] <= now
               /\ status'[e] \in (IF eligible'[e] THEN {"OPEN", "CLOSED"} ELSE {"CANCELLED"})
          \/ status[e] = "OPEN" /\ endAt[e] <= now /\ status'[e] = "CLOSED"
<1>1. ASSUME IInv, [Next]_vars PROVE Step
  <2> SUFFICES ASSUME NEW e \in Events, status'[e] # status[e], status[e] # "NONE", admin' = admin
               PROVE  \/ (status[e] = "READY" /\ startAt[e] <= now
                            /\ status'[e] \in (IF eligible'[e] THEN {"OPEN", "CLOSED"} ELSE {"CANCELLED"}))
                      \/ (status[e] = "OPEN" /\ endAt[e] <= now /\ status'[e] = "CLOSED")
    OBVIOUS
  <2>1. CASE CommitTick
    <3>1. e \in DOMAIN wrote /\ status'[e] = wrote[e] /\ eligible'[e] = (eligible[e] \/ e \in chosen)
      BY <2>1 DEF CommitTick
    <3> QED  BY <1>1, <3>1 DEF IInv, Base, Writes
  <2>2. ASSUME NEW f \in Events, CloseEvent(f) PROVE status[e] = "OPEN" /\ endAt[e] <= now /\ status'[e] = "CLOSED"
    <3>1. e = f /\ ~begun /\ status'[e] = "CLOSED" /\ e \notin DOMAIN wrote /\ status[e] = "OPEN"
      BY <1>1, <2>2 DEF CloseEvent, IInv, TypeOK, Base, Writes
    <3>2. e \in DOMAIN closeAt /\ closeAt[e] <= now
      BY <1>1, <2>2, <3>1, SchedulerAssumption DEF CloseEvent, IInv, TypeOK, Times, Base, Targets, Due
    <3> QED  BY <1>1, <3>1, <3>2 DEF IInv, Base, Scores, MayOpen
  <2>3. ~MakeChange
    BY <1>1 DEF MakeChange
  <2>4. ASSUME NEW f \in Events, CommitCreate(f) PROVE FALSE
    BY <1>1, <2>4 DEF CommitCreate, IInv, TypeOK, Base, Created
  <2>5. ~UNCHANGED status
    OBVIOUS
  <2>6. CommitTick \/ (\E f \in Events : CloseEvent(f))
    BY <1>1, <2>3, <2>4, <2>5
       DEF Next, vars, rows, redis, requests, tick, clock, FinishCreate, FinishChange, TickStep, BeginCreate,
           AddToOpen, AddToClose, AbortCreate, Like, Unlike, AskChange, AbortChange, Wake, ClaimBatch,
           ProcessEventSelection, FetchOpen, OpenEvent, ZremOpen, FetchClose, ZremClose, FailTick, Advance
  <2> QED  BY <2>1, <2>2, <2>6
<1> QED  BY <1>1, Invariance, PTL DEF Spec, ScheduledChangesAreDue
=============================================================================
