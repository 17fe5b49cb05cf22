--------------------------- MODULE ListingsProofs ---------------------------
(***************************************************************************)
(* What a client who reads a listing page by page can miss or see twice,    *)
(* for listings and pages of any length and any number of changes meanwhile. *)
(***************************************************************************)
EXTENDS Listings, FiniteSetTheorems, FunctionTheorems, TLAPS

(* What Init and the steps make of the variables. *)
WalkOK ==
    /\ rows = [i \in Ids |-> [status |-> rows[i].status, at |-> rows[i].at]]
    /\ \A i \in Ids : rows[i].at \in Nat
    /\ cursor \in [id : Nat, at : Nat, rank : Nat]
    /\ done \in BOOLEAN
    /\ shown \in [Ids -> Nat]
    /\ fixed \subseteq Listed

(* The event comes after the last one shown, as that was when it was shown. *)
Beyond(i) ==
    \/ Rank(i) > cursor.rank
    \/ Rank(i) = cursor.rank /\ rows[i].at > cursor.at
    \/ Rank(i) = cursor.rank /\ rows[i].at = cursor.at /\ i > cursor.id

EventMissed(i) == IF done THEN shown[i] = 0 ELSE cursor.id # 0 /\ ~Beyond(i) /\ shown[i] = 0

EventAhead(i) == shown[i] > 0 => shown[i] = 1 /\ (done \/ (cursor.id # 0 /\ ~Beyond(i)))

EventsInv ==
    listing = "events" =>
      \A i \in fixed : /\ "down" \notin cursorMoved => ~EventMissed(i)
                       /\ "up" \notin cursorMoved => EventAhead(i)

(* All that is shown, and all that is fixed and not after the cursor. *)
CommentsInv ==
    listing = "comments" =>
      /\ \A i \in Ids : shown[i] > 0 =>
            shown[i] = 1 /\ rows[i].status # "absent" /\ (done \/ (cursor.id # 0 /\ ~AfterCommentCursor(i)))
      /\ \A i \in fixed : done \/ (cursor.id # 0 /\ ~AfterCommentCursor(i)) => shown[i] = 1

(* Where a row is in a listing ordered by time. *)
Newer(i) == {j \in Listed : rows[j].at > rows[i].at}

Tied(i) == rows[i].at \in departed \/ \E j \in Listed \ {i} : rows[j].at = rows[i].at

PagesInv ==
    listing \notin {"events", "comments"} =>
      \A i \in fixed :
        \/ Tied(i)
        \/ /\ \/ \E t \in departed : t >= rows[i].at
              \/ shown[i] > 0
              \/ ~done /\ Cardinality(Newer(i)) >= cursor.id * Limit
           /\ \/ \E t \in arrived : t >= rows[i].at
              \/ shown[i] = 0
              \/ shown[i] = 1 /\ (done \/ Cardinality(Newer(i)) < cursor.id * Limit)

IInv == WalkOK /\ EventsInv /\ CommentsInv /\ PagesInv

-----------------------------------------------------------------------------
(* Pages *)

(* A sequence without repetition, as long as the set, has all its elements. *)
LEMMA SeqsAreOnto ==
    ASSUME NEW S, IsFiniteSet(S), NEW s \in SetToSeqs(S)
    PROVE  /\ s \in Seq(S) /\ DOMAIN s = 1 .. Cardinality(S) /\ Len(s) = Cardinality(S)
           /\ \A i, k \in DOMAIN s : i # k => s[i] # s[k]
           /\ \A x \in S : \E i \in DOMAIN s : s[i] = x
<1> DEFINE n == Cardinality(S)
           D == 1 .. n
<1>1. n \in Nat
    BY FS_CardinalityType
<1>2. s \in [D -> S] /\ \A i, k \in D : i # k => s[i] # s[k]
    BY DEF SetToSeqs
<1>3. s \in Injection(D, S)
    BY <1>2 DEF Injection, IsInjective
<1>4. Cardinality(D) = Cardinality(S)
    BY <1>1, FS_Interval
<1>5. s \in Surjection(D, S)
    BY <1>3, <1>4, FS_Injection
<1>6. \A x \in S : \E i \in D : s[i] = x
    BY <1>5 DEF Surjection
<1> HIDE DEF n
<1>7. s \in Seq(S) /\ Len(s) = n /\ DOMAIN s = 1 .. n
    BY <1>1, <1>2
<1> QED BY <1>2, <1>6, <1>7 DEF n

LEMMA SomeIdsAreFinite == ASSUME NEW S \in SUBSET Ids PROVE IsFiniteSet(S)
<1>1. IsFiniteSet(Ids)
    BY ListingsAssumption, FS_Interval DEF Ids
<1> QED BY <1>1, FS_Subset

(* What a page by cursor shows of the rows that were found. *)
LEMMA PageOfFound ==
    ASSUME NEW S \in SUBSET Ids, NEW found \in SetToSeqs(S)
    PROVE  LET m == IF Len(found) < Limit THEN Len(found) ELSE Limit
               page == SubSeq(found, 1, m) IN
           /\ m \in Nat /\ DOMAIN found = 1 .. Len(found) /\ Len(found) \in Nat
           /\ \A i : Contains(page, i) <=> \E k \in 1 .. m : found[k] = i
           /\ \A k \in DOMAIN found : found[k] \in S
           /\ \A i \in S : \E k \in DOMAIN found : found[k] = i
           /\ Len(found) > Limit => m = Limit /\ m > 0 /\ Last(page) = found[m]
           /\ ~(Len(found) > Limit) => m = Len(found)
<1> DEFINE m == IF Len(found) < Limit THEN Len(found) ELSE Limit
           page == SubSeq(found, 1, m)
<1>1. /\ found \in Seq(S) /\ DOMAIN found = 1 .. Len(found) /\ Len(found) \in Nat
      /\ \A i \in S : \E k \in DOMAIN found : found[k] = i
    BY SomeIdsAreFinite, SeqsAreOnto
<1>2. Limit \in Nat /\ Limit > 0
    BY ListingsAssumption
<1>3. m \in Nat /\ m <= Len(found)
    BY <1>1, <1>2
<1>4. page = [k \in 1 .. m |-> found[k]] /\ Len(page) = m /\ DOMAIN page = 1 .. m
    BY <1>1, <1>3
<1>5. \A i : Contains(page, i) <=> \E k \in 1 .. m : found[k] = i
    BY <1>4 DEF Contains
<1>6. m > 0 => Last(page) = found[m]
    BY <1>3, <1>4 DEF Last
<1> HIDE DEF page
<1>9. Len(found) \in Nat
    BY <1>1
<1>7. ASSUME Len(found) > Limit PROVE m = Limit /\ m > 0 /\ Last(page) = found[m]
    <2>1. m = Limit
        BY <1>2, <1>7, <1>9
    <2> HIDE DEF m
    <2> QED BY <1>2, <1>6, <2>1
<1>8. ASSUME ~(Len(found) > Limit) PROVE m = Len(found)
    BY <1>2, <1>8, <1>9
<1> QED BY <1>1, <1>3, <1>5, <1>7, <1>8 DEF page

-----------------------------------------------------------------------------
(* From the invariant to the properties *)

LEMMA InvEvents == IInv => EventsOnceUnlessCursorMoved
BY DEF IInv, WalkOK, EventsInv, EventMissed, EventAhead, EventsOnceUnlessCursorMoved, Listed

LEMMA InvComments == IInv => CommentsOnce
<1> SUFFICES ASSUME IInv, listing = "comments"
             PROVE  (\A i \in Ids : shown[i] <= 1) /\ (done => \A i \in fixed : shown[i] = 1)
    BY DEF CommentsOnce
<1>1. \A i \in Ids : shown[i] \in Nat
    BY DEF IInv, WalkOK
<1> QED BY <1>1 DEF IInv, CommentsInv

LEMMA InvPages == IInv => PagesErrOnlyByTraffic
<1> SUFFICES ASSUME IInv, listing \notin {"events", "comments"}, NEW i \in fixed
             PROVE  /\ done /\ shown[i] = 0 => Tied(i) \/ \E t \in departed : t >= rows[i].at
                    /\ shown[i] > 1 => Tied(i) \/ \E t \in arrived : t >= rows[i].at
    BY DEF PagesErrOnlyByTraffic, Tied
<1>1. shown[i] \in Nat
    BY DEF IInv, WalkOK, Listed
<1> QED BY <1>1 DEF IInv, PagesInv

LEMMA InitInv == Init => IInv
<1> SUFFICES ASSUME Init PROVE IInv
    OBVIOUS
<1>1. /\ cursor = [id |-> 0, at |-> 0, rank |-> 0] /\ done = FALSE
      /\ shown = [i \in Ids |-> 0] /\ fixed = Listed
    BY DEF Init
<1>2. \A i \in Ids : rows[i] = [status |-> rows[i].status, at |-> rows[i].at] /\ rows[i].at \in Nat
    <2>1. \A i \in Ids : rows[i] \in [status : Statuses, at : Times] \cup {[status |-> "absent", at |-> 0]}
        BY DEF Init
    <2>2. Times \subseteq Nat
        BY ListingsAssumption DEF Times
    <2>3. ASSUME NEW r \in [status : Statuses, at : Times] \cup {[status |-> "absent", at |-> 0]}
          PROVE  r = [status |-> r.status, at |-> r.at] /\ r.at \in Nat
        <3>1. CASE r \in [status : Statuses, at : Times]
            <4>1. r = [status |-> r.status, at |-> r.at] /\ r.at \in Times
                BY <3>1
            <4> QED BY <2>2, <4>1
        <3>2. CASE r = [status |-> "absent", at |-> 0]
            BY <3>2
        <3> QED BY <2>3, <3>1, <3>2
    <2> QED BY <2>1, <2>3
<1>3. rows = [i \in Ids |-> rows[i]]
    BY DEF Init
<1>4. WalkOK
    BY <1>1, <1>2, <1>3 DEF WalkOK, Listed
<1>5. EventsInv /\ CommentsInv
    BY <1>1 DEF EventsInv, EventMissed, EventAhead, CommentsInv, Listed
<1>6. PagesInv
    <2> SUFFICES ASSUME NEW i \in fixed
                 PROVE  Cardinality(Newer(i)) >= cursor.id * Limit /\ shown[i] = 0 /\ ~done
        BY DEF PagesInv
    <2>1. IsFiniteSet(Newer(i))
        BY SomeIdsAreFinite DEF Newer, Listed
    <2>2. Cardinality(Newer(i)) \in Nat
        BY <2>1, FS_CardinalityType
    <2>3. cursor.id * Limit = 0
        BY <1>1, ListingsAssumption
    <2> QED BY <1>1, <2>2, <2>3 DEF Listed
<1> QED BY <1>4, <1>5, <1>6 DEF IInv

-----------------------------------------------------------------------------
(* A page by cursor *)

(* The rows P of what was found are shown: all, or as far as the next cursor. *)
Shows(P, S, found) ==
    /\ shown' = [i \in Ids |-> shown[i] + IF i \in P THEN 1 ELSE 0]
    /\ \/ done' = TRUE /\ P = S /\ cursor' = cursor
       \/ /\ done' = FALSE
          /\ \E m \in DOMAIN found :
               /\ cursor' = [id |-> found[m], at |-> rows[found[m]].at, rank |-> Rank(found[m])]
               /\ found[m] \in P
               /\ \A i \in P : \E k \in DOMAIN found : found[k] = i /\ k <= m
               /\ \A i \in S \ P : \E k \in DOMAIN found : found[k] = i /\ k > m

LEMMA FetchEffect ==
    ASSUME NEW S \in SUBSET Ids, NEW found \in SetToSeqs(S), FetchByCursor(found)
    PROVE  \E P \in SUBSET S : Shows(P, S, found)
<1> DEFINE m == IF Len(found) < Limit THEN Len(found) ELSE Limit
           page == SubSeq(found, 1, m)
           P == {found[k] : k \in 1 .. m}
<1>1. /\ m \in Nat /\ DOMAIN found = 1 .. Len(found) /\ Len(found) \in Nat
      /\ \A i : Contains(page, i) <=> \E k \in 1 .. m : found[k] = i
      /\ \A k \in DOMAIN found : found[k] \in S
      /\ \A i \in S : \E k \in DOMAIN found : found[k] = i
      /\ Len(found) > Limit => m = Limit /\ m > 0 /\ Last(page) = found[m]
      /\ ~(Len(found) > Limit) => m = Len(found)
    BY PageOfFound
<1>2. /\ shown' = [i \in Ids |-> shown[i] + IF Contains(page, i) THEN 1 ELSE 0]
      /\ done' = ~(Len(found) > Limit)
      /\ cursor' = IF Len(found) > Limit
                   THEN [id |-> Last(page), at |-> rows[Last(page)].at, rank |-> Rank(Last(page))]
                   ELSE cursor
    BY DEF FetchByCursor, ShowPage
<1>3. \A i : Contains(page, i) <=> i \in P
    BY <1>1
<1>4. m <= Len(found)
    BY <1>1, ListingsAssumption
<1> HIDE DEF m, page
<1>9. \A k : k \in 1 .. m <=> k \in DOMAIN found /\ k <= m
    <2>1. DOMAIN found = 1 .. Len(found) /\ Len(found) \in Nat /\ m \in Nat
        BY <1>1
    <2> QED BY <1>4, <2>1
<1>5. P \in SUBSET S
    <2>1. \A k \in DOMAIN found : found[k] \in S
        BY <1>1
    <2> QED BY <1>9, <2>1
<1>6. shown' = [i \in Ids |-> shown[i] + IF i \in P THEN 1 ELSE 0]
    BY <1>2, <1>3
<1>7. CASE ~(Len(found) > Limit)
    <2>1. P = S
        BY <1>1, <1>5, <1>7
    <2>2. done' = TRUE /\ cursor' = cursor
        BY <1>2, <1>7
    <2> HIDE DEF P
    <2> QED BY <1>5, <1>6, <2>1, <2>2 DEF Shows
<1>8. CASE Len(found) > Limit
    <2>1. m \in DOMAIN found /\ found[m] \in P /\ done' = FALSE
        <3>1. m \in 1 .. m
            BY <1>1, <1>8
        <3>2. m \in DOMAIN found /\ found[m] \in P
            BY <1>9, <3>1
        <3> QED BY <1>2, <1>8, <3>2
    <2>2. cursor' = [id |-> found[m], at |-> rows[found[m]].at, rank |-> Rank(found[m])]
        BY <1>1, <1>2, <1>8
    <2>3. \A i \in P : \E k \in DOMAIN found : found[k] = i /\ k <= m
        BY <1>9
    <2>4. ASSUME NEW i \in S \ P PROVE \E k \in DOMAIN found : found[k] = i /\ k > m
        <3>1. PICK k \in DOMAIN found : found[k] = i
            BY <1>1
        <3>2. ~(k <= m)
            BY <1>9, <3>1
        <3> QED BY <1>1, <3>1, <3>2
    <2> HIDE DEF P
    <2> QED BY <1>5, <1>6, <2>1, <2>2, <2>3, <2>4 DEF Shows
<1> QED BY <1>7, <1>8

LEMMA RankIsInt == \A i : Rank(i) \in Int
BY DEF Rank, Priority

LEMMA FetchKeepsWalk ==
    ASSUME WalkOK, NEW S \in SUBSET Ids, NEW found \in SetToSeqs(S), FetchByCursor(found)
    PROVE  WalkOK'
<1>1. PICK P \in SUBSET S : Shows(P, S, found)
    BY FetchEffect
<1>2. UNCHANGED <<listing, filter, rows, liked, fixed>>
    BY DEF FetchByCursor, ShowPage, table, history
<1>3. shown' \in [Ids -> Nat] /\ done' \in BOOLEAN
    <2>1. shown \in [Ids -> Nat]
        BY DEF WalkOK
    <2>2. shown' = [i \in Ids |-> shown[i] + IF i \in P THEN 1 ELSE 0] /\ done' \in BOOLEAN
        BY <1>1 DEF Shows
    <2> QED BY <2>1, <2>2
<1>4. cursor' \in [id : Nat, at : Nat, rank : Nat]
    <2>1. CASE cursor' = cursor
        BY <2>1 DEF WalkOK
    <2>2. ASSUME NEW c \in P, cursor' = [id |-> c, at |-> rows[c].at, rank |-> Rank(c)]
          PROVE  cursor' \in [id : Nat, at : Nat, rank : Nat]
        <3>1. c \in Nat /\ c \in Ids
            BY ListingsAssumption DEF Ids
        <3>2. Rank(c) \in Nat
            BY DEF Rank, Priority
        <3> QED BY <2>2, <3>1, <3>2 DEF WalkOK
    <2> QED BY <1>1, <2>1, <2>2 DEF Shows
<1> QED BY <1>2, <1>3, <1>4 DEF WalkOK, Listed, Matches, Exists

LEMMA FetchEventsKeepsInv ==
    ASSUME IInv, FetchEvents
    PROVE  IInv'
<1> DEFINE S == {i \in Listed : cursor.id = 0 \/ AfterEventCursor(i)}
<1>1. S \in SUBSET Ids
    BY DEF Listed
<1>2. PICK found \in SetToSeqs(S) : InEventOrder(found) /\ FetchByCursor(found)
    BY DEF FetchEvents
<1>3. WalkOK'
    BY <1>1, <1>2, FetchKeepsWalk DEF IInv
<1>4. PICK P \in SUBSET S : Shows(P, S, found)
    BY <1>1, <1>2, FetchEffect
<1>5. /\ UNCHANGED <<listing, rows, fixed>> /\ listing = "events" /\ ~done
      /\ "down" \notin cursorMoved' => "down" \notin cursorMoved /\ (cursor.id = 0 \/ Rank(cursor.id) <= cursor.rank)
      /\ "up" \notin cursorMoved' => "up" \notin cursorMoved /\ (cursor.id = 0 \/ Rank(cursor.id) >= cursor.rank)
    <2>1. UNCHANGED <<listing, rows, fixed>> /\ listing = "events" /\ ~done
        BY <1>2 DEF FetchEvents, FetchByCursor, ShowPage, table, history
    <2>2. cursor.rank \in Int /\ Rank(cursor.id) \in Int
        BY RankIsInt DEF IInv, WalkOK
    <2>3. cursorMoved' = cursorMoved \cup
             IF cursor.id = 0 THEN {}
             ELSE (IF Rank(cursor.id) > cursor.rank THEN {"down"} ELSE {}) \cup
                  (IF Rank(cursor.id) < cursor.rank THEN {"up"} ELSE {})
        BY DEF FetchEvents
    <2> QED BY <2>1, <2>2, <2>3
<1>6. \A i \in Ids : rows[i].at \in Int /\ i \in Nat /\ i > 0 /\ shown[i] \in Nat
    BY ListingsAssumption DEF IInv, WalkOK, Ids
<1>7. \A i \in Ids : shown'[i] = IF i \in P THEN shown[i] + 1 ELSE shown[i]
    BY <1>4, <1>6 DEF Shows
<1>8. cursor.id \in Nat /\ cursor.at \in Nat /\ cursor.rank \in Nat
    BY DEF IInv, WalkOK
<1>9. \A i : Rank(i) \in Int /\ Rank(i)' = Rank(i)
    BY <1>5, RankIsInt DEF Rank
(* Unless all is shown, the new cursor is the last row of the page. *)
<1>10. ASSUME ~done'
       PROVE  \E c \in P : /\ cursor'.id = c /\ cursor'.at = rows[c].at /\ cursor'.rank = Rank(c)
                           /\ \A i \in P : i = c \/ EventBefore(i, c)
                           /\ \A i \in S \ P : EventBefore(c, i)
    <2>1. PICK m \in DOMAIN found :
               /\ cursor' = [id |-> found[m], at |-> rows[found[m]].at, rank |-> Rank(found[m])]
               /\ found[m] \in P
               /\ \A i \in P : \E k \in DOMAIN found : found[k] = i /\ k <= m
               /\ \A i \in S \ P : \E k \in DOMAIN found : found[k] = i /\ k > m
        BY <1>4, <1>10 DEF Shows
    <2>2. DOMAIN found \subseteq Nat
        BY <1>1, PageOfFound
    <2>3. \A i \in P : i = found[m] \/ EventBefore(i, found[m])
        BY <1>2, <2>1, <2>2 DEF InEventOrder
    <2>4. \A i \in S \ P : EventBefore(found[m], i)
        BY <1>2, <2>1, <2>2 DEF InEventOrder
    <2> QED BY <2>1, <2>3, <2>4
<1>11. ASSUME NEW i \in fixed, "down" \notin cursorMoved' PROVE ~EventMissed(i)'
    <2>1. i \in Listed /\ i \in Ids
        BY DEF IInv, WalkOK, Listed
    <2>2. CASE i \in P
        BY <1>6, <1>7, <2>1, <2>2 DEF EventMissed
    <2>3. CASE i \in S \ P
        <3>1. ~done'
            BY <1>4, <2>3 DEF Shows
        <3>2. PICK c \in P : /\ cursor'.id = c /\ cursor'.at = rows[c].at /\ cursor'.rank = Rank(c)
                             /\ EventBefore(c, i)
            BY <1>10, <2>3, <3>1
        <3>3. Beyond(i)'
            BY <1>5, <1>9, <3>2 DEF Beyond, EventBefore
        <3> QED BY <3>1, <3>3 DEF EventMissed
    <2>4. CASE i \notin S
        <3>1. cursor.id # 0 /\ ~AfterEventCursor(i) /\ Rank(cursor.id) <= cursor.rank
            BY <1>5, <1>11, <2>1, <2>4
        <3>2. ~Beyond(i)
            BY <1>6, <1>8, <1>9, <2>1, <3>1 DEF Beyond, AfterEventCursor
        <3>3. shown[i] # 0
            BY <1>5, <1>11, <3>1, <3>2 DEF IInv, EventsInv, EventMissed
        <3> QED BY <1>6, <1>7, <2>1, <3>3 DEF EventMissed
    <2> QED BY <2>2, <2>3, <2>4
<1>12. ASSUME NEW i \in fixed, "up" \notin cursorMoved' PROVE EventAhead(i)'
    <2>1. i \in Listed /\ i \in Ids
        BY DEF IInv, WalkOK, Listed
    <2>2. EventAhead(i)
        BY <1>5, <1>12 DEF IInv, EventsInv
    <2>3. CASE i \in P
        <3>1. shown[i] = 0
            <4>1. cursor.id = 0 \/ AfterEventCursor(i)
                BY <2>3
            <4>2. cursor.id = 0 \/ Beyond(i)
                BY <1>5, <1>6, <1>8, <1>9, <1>12, <2>1, <4>1 DEF Beyond, AfterEventCursor
            <4> QED BY <1>5, <1>6, <2>1, <2>2, <4>2 DEF EventAhead
        <3>2. ASSUME ~done' PROVE cursor'.id # 0 /\ ~Beyond(i)'
            <4>1. PICK c \in P : /\ cursor'.id = c /\ cursor'.at = rows[c].at /\ cursor'.rank = Rank(c)
                                 /\ (i = c \/ EventBefore(i, c))
                BY <1>10, <2>3, <3>2
            <4>2. c \in Ids
                BY <1>1
            <4> QED BY <1>5, <1>6, <1>9, <2>1, <4>1, <4>2 DEF Beyond, EventBefore
        <3> QED BY <1>7, <2>1, <2>3, <3>1, <3>2 DEF EventAhead
    <2>4. CASE i \notin P
        <3> SUFFICES ASSUME shown[i] > 0, ~done' PROVE cursor'.id # 0 /\ ~Beyond(i)'
            BY <1>7, <2>1, <2>2, <2>4 DEF EventAhead
        <3>1. cursor.id # 0 /\ ~Beyond(i)
            BY <1>5, <2>2 DEF EventAhead
        <3>2. PICK c \in P : cursor'.id = c /\ cursor'.at = rows[c].at /\ cursor'.rank = Rank(c)
            BY <1>10
        <3>3. c \in Ids /\ AfterEventCursor(c) /\ Rank(cursor.id) >= cursor.rank
            BY <1>1, <1>5, <1>12, <3>1
        <3> QED BY <1>5, <1>6, <1>8, <1>9, <2>1, <3>1, <3>2, <3>3 DEF Beyond, AfterEventCursor
    <2> QED BY <2>3, <2>4
<1> QED BY <1>3, <1>5, <1>11, <1>12 DEF IInv, EventsInv, CommentsInv, PagesInv

LEMMA FetchCommentsKeepsInv ==
    ASSUME IInv, FetchComments
    PROVE  IInv'
<1> DEFINE S == {i \in Listed : cursor.id = 0 \/ AfterCommentCursor(i)}
<1>1. S \in SUBSET Ids
    BY DEF Listed
<1>2. PICK found \in SetToSeqs(S) : InCommentOrder(found) /\ FetchByCursor(found)
    BY DEF FetchComments
<1>3. WalkOK'
    BY <1>1, <1>2, FetchKeepsWalk DEF IInv
<1>4. PICK P \in SUBSET S : Shows(P, S, found)
    BY <1>1, <1>2, FetchEffect
<1>5. UNCHANGED <<listing, rows, fixed>> /\ listing = "comments" /\ ~done
    BY <1>2 DEF FetchComments, FetchByCursor, ShowPage, table, history
<1>6. \A i \in Ids : rows[i].at \in Int /\ i \in Nat /\ i > 0 /\ shown[i] \in Nat
    BY ListingsAssumption DEF IInv, WalkOK, Ids
<1>7. \A i \in Ids : shown'[i] = IF i \in P THEN shown[i] + 1 ELSE shown[i]
    BY <1>4, <1>6 DEF Shows
<1>8. cursor.id \in Nat /\ cursor.at \in Nat
    BY DEF IInv, WalkOK
<1>9. ASSUME ~done'
      PROVE  \E c \in P : /\ cursor'.id = c /\ cursor'.at = rows[c].at
                          /\ \A i \in P : i = c \/ CommentBefore(i, c)
                          /\ \A i \in S \ P : CommentBefore(c, i)
    <2>1. PICK m \in DOMAIN found :
               /\ cursor' = [id |-> found[m], at |-> rows[found[m]].at, rank |-> Rank(found[m])]
               /\ found[m] \in P
               /\ \A i \in P : \E k \in DOMAIN found : found[k] = i /\ k <= m
               /\ \A i \in S \ P : \E k \in DOMAIN found : found[k] = i /\ k > m
        BY <1>4, <1>9 DEF Shows
    <2>2. DOMAIN found \subseteq Nat
        BY <1>1, PageOfFound
    <2>3. \A i \in P : i = found[m] \/ CommentBefore(i, found[m])
        BY <1>2, <2>1, <2>2 DEF InCommentOrder
    <2>4. \A i \in S \ P : CommentBefore(found[m], i)
        BY <1>2, <2>1, <2>2 DEF InCommentOrder
    <2> QED BY <2>1, <2>3, <2>4
<1>10. \A i \in Ids : shown[i] > 0 =>
            shown[i] = 1 /\ rows[i].status # "absent" /\ cursor.id # 0 /\ ~AfterCommentCursor(i)
    BY <1>5 DEF IInv, CommentsInv
<1>11. \A i \in fixed : i \in Ids /\ i \in Listed /\ (cursor.id # 0 /\ ~AfterCommentCursor(i) => shown[i] = 1)
    BY <1>5 DEF IInv, CommentsInv, WalkOK, Listed
<1>12. ASSUME NEW i \in Ids, shown'[i] > 0
       PROVE  shown'[i] = 1 /\ rows[i].status # "absent" /\ (done' \/ (cursor'.id # 0 /\ ~AfterCommentCursor(i)'))
    <2>1. CASE i \in P
        <3>1. shown[i] = 0 /\ rows[i].status # "absent"
            <4>1. i \in Listed /\ (cursor.id = 0 \/ AfterCommentCursor(i))
                BY <2>1
            <4>2. ~(shown[i] > 0)
                BY <1>10, <4>1
            <4> QED BY <1>6, <4>1, <4>2 DEF Listed, Matches, Exists
        <3>2. ASSUME ~done' PROVE cursor'.id # 0 /\ ~AfterCommentCursor(i)'
            <4>1. PICK c \in P : cursor'.id = c /\ cursor'.at = rows[c].at /\ (i = c \/ CommentBefore(i, c))
                BY <1>9, <2>1, <3>2
            <4>2. c \in Ids
                BY <1>1
            <4> QED BY <1>5, <1>6, <4>1, <4>2 DEF AfterCommentCursor, CommentBefore
        <3> QED BY <1>7, <2>1, <3>1, <3>2
    <2>2. CASE i \notin P
        <3>1. shown'[i] = shown[i]
            BY <1>7, <2>2
        <3>2. shown[i] = 1 /\ rows[i].status # "absent" /\ cursor.id # 0 /\ ~AfterCommentCursor(i)
            BY <1>10, <1>12, <3>1
        <3>3. ASSUME ~done' PROVE cursor'.id # 0 /\ ~AfterCommentCursor(i)'
            <4>1. PICK c \in P : cursor'.id = c /\ cursor'.at = rows[c].at
                BY <1>9, <3>3
            <4>2. c \in Ids /\ AfterCommentCursor(c)
                BY <1>1, <3>2
            <4> QED BY <1>5, <1>6, <1>8, <3>2, <4>1, <4>2 DEF AfterCommentCursor
        <3> QED BY <3>1, <3>2, <3>3
    <2> QED BY <2>1, <2>2
<1>13. ASSUME NEW i \in fixed, done' \/ (cursor'.id # 0 /\ ~AfterCommentCursor(i)')
       PROVE  shown'[i] = 1
    <2>1. i \in Ids /\ i \in Listed
        BY <1>11
    <2>2. shown'[i] > 0
        <3>1. CASE i \in P
            BY <1>6, <1>7, <2>1, <3>1
        <3>2. CASE i \in S \ P
            <4>1. ~done'
                BY <1>4, <3>2 DEF Shows
            <4>2. PICK c \in P : cursor'.id = c /\ cursor'.at = rows[c].at /\ CommentBefore(c, i)
                BY <1>9, <3>2, <4>1
            <4>3. AfterCommentCursor(i)'
                BY <1>5, <4>2 DEF AfterCommentCursor, CommentBefore
            <4> QED BY <1>13, <4>1, <4>3
        <3>3. CASE i \notin S
            BY <1>7, <1>11, <2>1, <3>3
        <3> QED BY <3>1, <3>2, <3>3
    <2> QED BY <1>12, <2>1, <2>2
<1> QED BY <1>3, <1>5, <1>12, <1>13 DEF IInv, EventsInv, CommentsInv, PagesInv

-----------------------------------------------------------------------------
(* A page by offset *)

(* A row without ties stands where the number of newer rows says. *)
LEMMA PlaceOfRow ==
    ASSUME WalkOK, NEW s \in NewestFirst, NEW i \in Listed,
           \A j \in Listed \ {i} : rows[j].at # rows[i].at
    PROVE  /\ Len(s) = Cardinality(Listed) /\ Len(s) \in Nat /\ DOMAIN s = 1 .. Len(s)
           /\ Cardinality(Newer(i)) \in Nat /\ Cardinality(Newer(i)) + 1 \in DOMAIN s
           /\ s[Cardinality(Newer(i)) + 1] = i
           /\ \A k \in DOMAIN s : s[k] = i => k = Cardinality(Newer(i)) + 1
<1>1. IsFiniteSet(Listed) /\ Listed \subseteq Ids
    BY SomeIdsAreFinite DEF Listed
<1>2. /\ s \in Seq(Listed) /\ DOMAIN s = 1 .. Cardinality(Listed) /\ Len(s) = Cardinality(Listed)
      /\ \A k, l \in DOMAIN s : k # l => s[k] # s[l]
      /\ \A x \in Listed : \E k \in DOMAIN s : s[k] = x
    BY <1>1, SeqsAreOnto DEF NewestFirst
<1>3. \A k, l \in DOMAIN s : k < l => rows[s[k]].at >= rows[s[l]].at
    BY DEF NewestFirst
<1>4. Len(s) \in Nat /\ \A k \in DOMAIN s : s[k] \in Listed /\ rows[s[k]].at \in Nat
    BY <1>1, <1>2 DEF WalkOK
<1>5. PICK k \in DOMAIN s : s[k] = i
    BY <1>2
<1> DEFINE K == 1 .. (k - 1)
           f == [l \in K |-> s[l]]
<1>6. k \in Nat /\ k >= 1 /\ K \subseteq DOMAIN s /\ \A l \in DOMAIN s : l \in Nat /\ (l \in K <=> l < k)
    BY <1>2, <1>4, <1>5
<1>7. \A l \in K : s[l] \in Newer(i)
    <2> SUFFICES ASSUME NEW l \in K PROVE s[l] \in Listed /\ rows[s[l]].at > rows[i].at
        BY DEF Newer
    <2>1. l \in DOMAIN s /\ l < k
        BY <1>6
    <2>2. s[l] \in Listed /\ s[l] # i /\ rows[s[l]].at >= rows[i].at
        BY <1>2, <1>3, <1>4, <1>5, <2>1
    <2>3. rows[s[l]].at # rows[i].at /\ rows[s[l]].at \in Nat /\ rows[i].at \in Nat
        BY <1>4, <1>5, <2>1, <2>2
    <2> QED BY <2>2, <2>3
<1>8. \A j \in Newer(i) : \E l \in K : s[l] = j
    <2> SUFFICES ASSUME NEW j \in Listed, rows[j].at > rows[i].at PROVE \E l \in K : s[l] = j
        BY DEF Newer
    <2>1. PICK l \in DOMAIN s : s[l] = j
        BY <1>2
    <2>2. rows[s[l]].at \in Nat /\ rows[s[k]].at \in Nat /\ rows[s[l]].at > rows[s[k]].at
        BY <1>4, <1>5, <2>1
    <2>3. ~(k < l) /\ k # l
        BY <1>3, <1>5, <2>2
    <2> QED BY <1>6, <2>1, <2>3
<1>9. f \in Bijection(K, Newer(i))
    <2>1. f \in [K -> Newer(i)]
        BY <1>7
    <2>2. \A a, b \in K : f[a] = f[b] => a = b
        BY <1>2, <1>6
    <2>3. \A j \in Newer(i) : \E l \in K : f[l] = j
        BY <1>8
    <2> HIDE DEF f, K
    <2> QED BY <2>1, <2>2, <2>3, Fun_IsBij
<1>10. IsFiniteSet(K) /\ Cardinality(K) = k - 1
    BY <1>6, FS_Interval
<1> HIDE DEF f, K
<1>11. Cardinality(Newer(i)) = k - 1
    BY <1>9, <1>10, FS_Bijection DEF ExistsBijection
<1>12. Cardinality(Newer(i)) + 1 = k
    BY <1>6, <1>11
<1> QED BY <1>2, <1>4, <1>5, <1>6, <1>11, <1>12

LEMMA FetchPageKeepsInv ==
    ASSUME IInv, FetchPage
    PROVE  IInv'
<1> DEFINE total == Cardinality(Listed)
           page == cursor.id + 1
           end == IF Offset(page) + Limit < total THEN Offset(page) + Limit ELSE total
<1>1. PICK s \in NewestFirst : ShowPage(SubSeq(s, Offset(page) + 1, end), page * Limit < total)
    BY DEF FetchPage
<1>2. /\ cursor' = [cursor EXCEPT !.id = page] /\ UNCHANGED cursorMoved
      /\ listing \notin {"events", "comments"} /\ ~done
    BY DEF FetchPage
<1>3. UNCHANGED <<listing, filter, rows, liked, fixed, departed, arrived>>
    BY <1>1 DEF ShowPage, table, history
<1>4. WalkOK /\ fixed \subseteq Listed /\ Listed \subseteq Ids
    BY DEF IInv, WalkOK, Listed
<1>5. cursor.id \in Nat /\ cursor'.id = cursor.id + 1
    BY <1>2, <1>4 DEF WalkOK
<1> DEFINE shows(i) == Contains(SubSeq(s, Offset(page) + 1, end), i)
<1>6. /\ shown' = [i \in Ids |-> shown[i] + IF shows(i) THEN 1 ELSE 0]
      /\ done' = ~(page * Limit < total)
    BY <1>1 DEF ShowPage
<1>7. WalkOK'
    <2>1. shown \in [Ids -> Nat] /\ cursor \in [id : Nat, at : Nat, rank : Nat]
        BY <1>4 DEF WalkOK
    <2>2. shown' \in [Ids -> Nat] /\ done' \in BOOLEAN
        BY <1>6, <2>1
    <2>3. cursor' \in [id : Nat, at : Nat, rank : Nat]
        BY <1>2, <1>5, <2>1
    <2> QED BY <1>3, <1>4, <2>2, <2>3 DEF WalkOK, Listed, Matches, Exists
(* The pages so far are as many rows; this one shows what comes next. *)
<1> DEFINE past == cursor.id * Limit
<1>8. /\ past \in Nat /\ Offset(page) = past /\ page * Limit = past + Limit
      /\ cursor'.id * Limit = past + Limit /\ Limit \in Nat /\ Limit > 0
    <2>1. Limit \in Nat /\ Limit > 0
        BY ListingsAssumption
    <2>2. page - 1 = cursor.id /\ (cursor.id + 1) * Limit = past + Limit
        BY <1>5, <2>1
    <2> QED BY <1>5, <2>1, <2>2 DEF Offset
<1> HIDE DEF page, past
<1>9. ASSUME NEW i \in fixed, ~Tied(i)
      PROVE  /\ total \in Nat /\ Cardinality(Newer(i)) \in Nat /\ Cardinality(Newer(i)) < total
             /\ shows(i) <=> past <= Cardinality(Newer(i)) /\ Cardinality(Newer(i)) < past + Limit
    <2> DEFINE n == Cardinality(Newer(i))
    <2>1. /\ Len(s) = total /\ Len(s) \in Nat /\ DOMAIN s = 1 .. Len(s)
          /\ n \in Nat /\ n + 1 \in DOMAIN s /\ s[n + 1] = i
          /\ \A k \in DOMAIN s : s[k] = i => k = n + 1
        BY <1>4, <1>9, PlaceOfRow DEF Tied
    <2> HIDE DEF n
    <2>2. n < total /\ total \in Nat
        BY <2>1
    <2> HIDE DEF total
    <2>3. /\ end \in Nat /\ end <= total /\ end <= past + Limit
          /\ \A k \in Nat : k <= end <=> k <= total /\ k <= past + Limit
        BY <1>8, <2>2
    <2> HIDE DEF end
    <2>4. \A a, b \in Nat : a >= 1 /\ b <= Len(s) =>
              \A x : Contains(SubSeq(s, a, b), x) <=> \E k \in a .. b : s[k] = x
        <3> SUFFICES ASSUME NEW a \in Nat, NEW b \in Nat, a >= 1, b <= Len(s), NEW x
                     PROVE  Contains(SubSeq(s, a, b), x) <=> \E k \in a .. b : s[k] = x
            OBVIOUS
        <3>1. /\ DOMAIN SubSeq(s, a, b) = 1 .. (b - a + 1)
              /\ \A k \in 1 .. (b - a + 1) : SubSeq(s, a, b)[k] = s[a + k - 1]
            BY <2>1
        <3>2. ASSUME NEW k \in 1 .. (b - a + 1) PROVE a + k - 1 \in a .. b
            OBVIOUS
        <3>3. ASSUME NEW k \in a .. b PROVE k - a + 1 \in 1 .. (b - a + 1) /\ a + (k - a + 1) - 1 = k
            OBVIOUS
        <3> DEFINE sub == SubSeq(s, a, b)
        <3> HIDE DEF sub
        <3>4. ASSUME Contains(sub, x) PROVE \E k \in a .. b : s[k] = x
            <4>1. PICK k \in DOMAIN sub : sub[k] = x
                BY <3>4 DEF Contains
            <4>2. k \in 1 .. (b - a + 1) /\ s[a + k - 1] = x
                BY <3>1, <4>1 DEF sub
            <4> QED BY <3>2, <4>2
        <3>5. ASSUME NEW k \in a .. b, s[k] = x PROVE Contains(sub, x)
            <4>1. sub[k - a + 1] = s[k] /\ k - a + 1 \in DOMAIN sub
                BY <3>1, <3>3 DEF sub
            <4> QED BY <3>5, <4>1 DEF Contains
        <3> QED BY <3>4, <3>5 DEF sub
    <2>5. past + 1 \in Nat /\ past + 1 >= 1 /\ end <= Len(s)
        BY <1>8, <2>1, <2>3
    <2>6. shows(i) <=> \E k \in (past + 1) .. end : s[k] = i
        BY <1>8, <2>3, <2>4, <2>5
    <2>7. (past + 1) .. end \subseteq DOMAIN s
        BY <1>8, <2>1, <2>3, <2>5
    <2>8. shows(i) <=> n + 1 \in (past + 1) .. end
        BY <2>1, <2>6, <2>7
    <2>9. n + 1 \in (past + 1) .. end <=> past <= n /\ n < past + Limit
        BY <1>8, <2>1, <2>2, <2>3
    <2> QED BY <2>1, <2>2, <2>8, <2>9 DEF n
<1> HIDE DEF shows, total
<1>10. ASSUME NEW i \in fixed, ~Tied(i)
       PROVE  /\ \/ \E t \in departed : t >= rows[i].at
                 \/ shown'[i] > 0
                 \/ ~done' /\ Cardinality(Newer(i)) >= cursor'.id * Limit
              /\ \/ \E t \in arrived : t >= rows[i].at
                 \/ shown'[i] = 0
                 \/ shown'[i] = 1 /\ (done' \/ Cardinality(Newer(i)) < cursor'.id * Limit)
    <2> DEFINE n == Cardinality(Newer(i))
    <2>1. /\ \/ \E t \in departed : t >= rows[i].at
             \/ shown[i] > 0
             \/ n >= past
          /\ \/ \E t \in arrived : t >= rows[i].at
             \/ shown[i] = 0
             \/ shown[i] = 1 /\ n < past
        BY <1>2, <1>10 DEF IInv, PagesInv, past
    <2>2. shown[i] \in Nat /\ shown'[i] = shown[i] + IF shows(i) THEN 1 ELSE 0
        BY <1>4, <1>6 DEF WalkOK
    <2>3. /\ total \in Nat /\ n \in Nat /\ n < total
          /\ shows(i) <=> past <= n /\ n < past + Limit
        BY <1>9, <1>10
    <2> HIDE DEF n
    <2>6. ~done' <=> past + Limit < total
        BY <1>6, <1>8
    <2>4. \/ \E t \in departed : t >= rows[i].at
          \/ shown'[i] > 0
          \/ ~done' /\ n >= cursor'.id * Limit
        BY <1>8, <2>1, <2>2, <2>3, <2>6
    <2>5. \/ \E t \in arrived : t >= rows[i].at
          \/ shown'[i] = 0
          \/ shown'[i] = 1 /\ (done' \/ n < cursor'.id * Limit)
        BY <1>6, <1>8, <2>1, <2>2, <2>3
    <2> QED BY <2>4, <2>5 DEF n
<1>11. \A i : (Tied(i)' <=> Tied(i)) /\ Newer(i)' = Newer(i)
    BY <1>3 DEF Tied, Newer, Listed, Matches, Exists
<1>12. PagesInv'
    BY <1>3, <1>10, <1>11 DEF PagesInv
<1> QED BY <1>2, <1>3, <1>7, <1>12 DEF IInv, EventsInv, CommentsInv

-----------------------------------------------------------------------------
(* Changes of rows *)

(* One row changes: outside of the events its time is set on creation only, *)
(* and no comment becomes one that never was.                               *)
Changes(i) ==
    /\ Note(i)
    /\ \A j \in Ids \ {i} : rows'[j] = rows[j] /\ (j \in liked' <=> j \in liked)
    /\ rows' = [j \in Ids |-> [status |-> rows'[j].status, at |-> rows'[j].at]]
    /\ rows'[i].at \in Nat
    /\ listing # "events" /\ rows[i].status # "absent" => rows'[i].at = rows[i].at
    /\ listing = "comments" /\ rows[i].status # "absent" => rows'[i].status # "absent"

LEMMA PutChanges ==
    ASSUME WalkOK, NEW i \in Ids, NEW status, NEW at \in Nat, Put(i, status, at),
           listing = "events" \/ rows[i].status = "absent" \/ at = rows[i].at,
           listing # "comments" \/ status # "absent"
    PROVE  Changes(i)
<1>1. rows' = [rows EXCEPT ![i] = [status |-> status, at |-> at]] /\ liked' = liked /\ Note(i)
    BY DEF Put
<1>2. /\ rows'[i] = [status |-> status, at |-> at]
      /\ \A j \in Ids \ {i} : rows'[j] = rows[j]
      /\ rows' = [j \in Ids |-> IF j = i THEN [status |-> status, at |-> at] ELSE rows[j]]
    BY <1>1 DEF WalkOK
<1>3. \A j \in Ids : rows[j] = [status |-> rows[j].status, at |-> rows[j].at]
    BY DEF WalkOK
<1>4. \A j \in Ids : rows'[j] = [status |-> rows'[j].status, at |-> rows'[j].at]
    BY <1>2, <1>3
<1>5. rows' = [j \in Ids |-> [status |-> rows'[j].status, at |-> rows'[j].at]]
    BY <1>2, <1>4
<1>6. rows'[i].status = status /\ rows'[i].at = at
    BY <1>2
<1> QED BY <1>1, <1>2, <1>5, <1>6 DEF Changes

LEMMA BecomeChanges ==
    ASSUME WalkOK, NEW i \in Ids, NEW from, NEW to, Become(i, from, to),
           listing # "comments" \/ to # "absent"
    PROVE  Changes(i)
<1>1. Put(i, to, rows[i].at) /\ rows[i].at \in Nat
    BY DEF Become, WalkOK
<1>2. PICK at \in Nat : at = rows[i].at
    BY <1>1
<1> QED BY <1>1, <1>2, PutChanges

LEMMA CreateChanges ==
    ASSUME WalkOK, NEW i \in Ids, NEW status, Create(i, status), listing # "comments" \/ status # "absent"
    PROVE  Changes(i)
<1>1. PICK at \in Times : Put(i, status, at) /\ rows[i].status = "absent"
    BY DEF Create
<1>2. at \in Nat
    BY ListingsAssumption DEF Times
<1> QED BY <1>1, <1>2, PutChanges

LEMMA StepsAreChanges ==
    ASSUME WalkOK, NEW i \in Ids,
           \/ CreateEvent(i) \/ UpdateEventStatus(i) \/ UpdateEventStatusAuto(i) \/ SettleEvent(i)
           \/ LikeOrUnlike(i)
           \/ CreateComment(i) \/ DeleteComment(i)
           \/ CreateBet(i) \/ SettleBet(i) \/ AddHistory(i)
           \/ Signup(i) \/ SuspendUser(i) \/ EndSuspension(i) \/ Withdraw(i) \/ Sweep(i)
    PROVE  Changes(i)
<1>1. CASE CreateEvent(i)
    BY <1>1, CreateChanges DEF CreateEvent
<1>2. CASE UpdateEventStatus(i)
    <2>1. PICK to \in AllowedTransition(rows[i].status) :
              \E t \in IF to = "CLOSED" THEN Times ELSE {rows[i].at} : Put(i, to, t)
        BY <1>2 DEF UpdateEventStatus
    <2>2. PICK t \in IF to = "CLOSED" THEN Times ELSE {rows[i].at} : Put(i, to, t)
        BY <2>1
    <2>3. t \in Nat
        BY <2>2, ListingsAssumption DEF Times, WalkOK
    <2> QED BY <1>2, <2>2, <2>3, PutChanges DEF UpdateEventStatus
<1>3. CASE UpdateEventStatusAuto(i)
    BY <1>3, BecomeChanges DEF UpdateEventStatusAuto
<1>4. CASE SettleEvent(i)
    BY <1>4, BecomeChanges DEF SettleEvent
<1>5. CASE LikeOrUnlike(i)
    <2>1. rows' = rows /\ Note(i) /\ \A j \in Ids \ {i} : j \in liked' <=> j \in liked
        BY <1>5 DEF LikeOrUnlike
    <2> QED BY <2>1 DEF Changes, WalkOK
<1>6. CASE CreateComment(i)
    BY <1>6, CreateChanges DEF CreateComment
<1>7. CASE DeleteComment(i)
    BY <1>7, BecomeChanges DEF DeleteComment
<1>8. CASE CreateBet(i)
    BY <1>8, CreateChanges DEF CreateBet
<1>9. CASE SettleBet(i)
    <2>1. PICK to \in {"WIN", "LOSE", "REFUNDED"} : Become(i, "PENDING", to)
        BY <1>9 DEF SettleBet
    <2> QED BY <2>1, BecomeChanges
<1>10. CASE AddHistory(i)
    <2>1. PICK reason \in Statuses : Create(i, reason)
        BY <1>10 DEF AddHistory
    <2>2. listing # "comments"
        BY <1>10 DEF AddHistory
    <2> QED BY <2>1, <2>2, CreateChanges
<1>11. CASE Signup(i)
    BY <1>11, CreateChanges DEF Signup
<1>12. CASE SuspendUser(i)
    BY <1>12, BecomeChanges DEF SuspendUser
<1>13. CASE EndSuspension(i)
    BY <1>13, BecomeChanges DEF EndSuspension
<1>14. CASE Withdraw(i)
    BY <1>14, BecomeChanges DEF Withdraw
<1>15. CASE Sweep(i)
    BY <1>15, BecomeChanges DEF Sweep
<1> QED BY <1>1, <1>2, <1>3, <1>4, <1>5, <1>6, <1>7, <1>8, <1>9, <1>10, <1>11, <1>12, <1>13, <1>14, <1>15

LEMMA ChangesKeepInv ==
    ASSUME IInv, NEW i \in Ids, Changes(i)
    PROVE  IInv'
<1>1. /\ UNCHANGED <<listing, filter, cursor, done, shown, cursorMoved>> /\ ~done
      /\ fixed' = IF Key(i)' = Key(i) THEN fixed ELSE fixed \ {i}
      /\ departed' = departed \cup IF Matches(i) /\ ~Matches(i)' THEN {rows[i].at} ELSE {}
      /\ arrived' = arrived \cup IF ~Matches(i) /\ Matches(i)' THEN {rows'[i].at} ELSE {}
    BY DEF Changes, Note
<1>2. \A j \in Ids \ {i} : /\ rows'[j] = rows[j] /\ (Matches(j)' <=> Matches(j))
                           /\ Rank(j)' = Rank(j)
    BY <1>1 DEF Changes, Matches, Exists, Rank
<1>3. WalkOK /\ fixed \subseteq Listed /\ Listed \subseteq Ids
    BY DEF IInv, WalkOK, Listed
(* A row that remains fixed is where it was. *)
<1>4. ASSUME NEW j \in fixed'
      PROVE  j \in fixed /\ j \in Ids /\ rows'[j].at = rows[j].at /\ Rank(j)' = Rank(j) /\ Matches(j)'
    <2>1. j \in fixed /\ j \in Ids /\ Matches(j)
        BY <1>1, <1>3, <1>4 DEF Listed
    <2>2. CASE j = i
        <3>1. Key(i)' = Key(i)
            BY <1>1, <1>4, <2>2
        <3>2. (Matches(i)' <=> Matches(i)) /\ rows'[i].at = rows[i].at /\ Rank(i)' = Rank(i)
            BY <3>1 DEF Key, Matches
        <3> QED BY <2>1, <2>2, <3>2
    <2>3. CASE j # i
        BY <1>2, <2>1, <2>3
    <2> QED BY <2>2, <2>3
<1>5. WalkOK'
    <2>1. \A j \in Ids : rows'[j].at \in Nat
        BY <1>2, <1>3 DEF Changes, WalkOK
    <2>2. fixed' \subseteq Listed'
        BY <1>4 DEF Listed
    <2> QED BY <1>1, <1>3, <2>1, <2>2 DEF WalkOK, Changes
<1>6. EventsInv'
    <2> SUFFICES ASSUME listing = "events", NEW j \in fixed'
                 PROVE  /\ "down" \notin cursorMoved => ~EventMissed(j)'
                        /\ "up" \notin cursorMoved => EventAhead(j)'
        BY <1>1 DEF EventsInv
    <2>1. Beyond(j)' <=> Beyond(j)
        BY <1>1, <1>4 DEF Beyond
    <2>2. (EventMissed(j)' <=> EventMissed(j)) /\ (EventAhead(j)' <=> EventAhead(j))
        BY <1>1, <2>1 DEF EventMissed, EventAhead
    <2> QED BY <1>4, <2>2 DEF IInv, EventsInv
<1>7. CommentsInv'
    <2> SUFFICES ASSUME listing = "comments" PROVE CommentsInv'
        BY <1>1 DEF CommentsInv
    <2>1. ASSUME NEW j \in Ids, rows'[j].at = rows[j].at
          PROVE  AfterCommentCursor(j)' <=> AfterCommentCursor(j)
        BY <1>1, <2>1 DEF AfterCommentCursor
    <2>2. ASSUME NEW j \in Ids, shown[j] > 0
          PROVE  /\ shown[j] = 1 /\ rows'[j].status # "absent"
                 /\ done \/ (cursor.id # 0 /\ ~AfterCommentCursor(j)')
        <3>1. shown[j] = 1 /\ rows[j].status # "absent" /\ (done \/ (cursor.id # 0 /\ ~AfterCommentCursor(j)))
            BY <2>2 DEF IInv, CommentsInv
        <3>2. rows'[j].at = rows[j].at /\ rows'[j].status # "absent"
            BY <1>2, <3>1 DEF Changes
        <3> QED BY <2>1, <3>1, <3>2
    <2>3. ASSUME NEW j \in fixed', done \/ (cursor.id # 0 /\ ~AfterCommentCursor(j)')
          PROVE  shown[j] = 1
        BY <1>4, <2>1, <2>3 DEF IInv, CommentsInv
    <2> QED BY <1>1, <2>2, <2>3 DEF CommentsInv
<1>8. PagesInv'
    <2> SUFFICES ASSUME listing \notin {"events", "comments"}, NEW j \in fixed', ~Tied(j)'
                 PROVE  /\ \/ \E t \in departed' : t >= rows[j].at
                           \/ shown[j] > 0
                           \/ ~done /\ Cardinality(Newer(j)') >= cursor.id * Limit
                        /\ \/ \E t \in arrived' : t >= rows[j].at
                           \/ shown[j] = 0
                           \/ shown[j] = 1 /\ (done \/ Cardinality(Newer(j)') < cursor.id * Limit)
        BY <1>1, <1>4 DEF PagesInv
    <2>1. departed \subseteq departed' /\ arrived \subseteq arrived'
        BY <1>1
    <2>2. \A l \in Ids : rows[l].at \in Nat /\ rows'[l].at \in Nat
        BY <1>3, <1>5 DEF WalkOK
    <2>3. \A l \in Listed : rows'[l].at = rows[l].at /\ l \in Ids
        BY <1>2 DEF Changes, Listed, Matches, Exists
    <2>4. \A l \in Listed \ Listed' : rows[l].at \in departed'
        BY <1>1, <1>2 DEF Listed
    <2>5. \A l \in Listed' \ Listed : rows'[l].at \in arrived'
        BY <1>1, <1>2 DEF Listed
    <2>6. ~Tied(j)
        <3> SUFFICES ASSUME NEW l \in Listed \ {j}, rows[l].at = rows[j].at
                     PROVE  Tied(j)'
            BY <1>4, <2>1 DEF Tied
        <3>1. CASE l \in Listed'
            BY <1>4, <2>3, <3>1 DEF Tied
        <3>2. CASE l \notin Listed'
            BY <1>4, <2>4, <3>2 DEF Tied
        <3> QED BY <3>1, <3>2
    <2>7. /\ \/ \E t \in departed : t >= rows[j].at
             \/ shown[j] > 0
             \/ Cardinality(Newer(j)) >= cursor.id * Limit
          /\ \/ \E t \in arrived : t >= rows[j].at
             \/ shown[j] = 0
             \/ shown[j] = 1 /\ Cardinality(Newer(j)) < cursor.id * Limit
        BY <1>1, <1>4, <2>6 DEF IInv, PagesInv
    <2>8. /\ IsFiniteSet(Newer(j)) /\ Cardinality(Newer(j)) \in Nat
          /\ IsFiniteSet(Newer(j)') /\ Cardinality(Newer(j)') \in Nat
        <3>1. Newer(j) \subseteq Ids /\ Newer(j)' \subseteq Ids
            BY DEF Newer, Listed
        <3> QED BY <3>1, SomeIdsAreFinite, FS_CardinalityType
    <2>9. cursor.id * Limit \in Nat /\ j \in Ids
        <3>1. cursor.id \in Nat
            BY <1>3 DEF WalkOK
        <3>2. Limit \in Nat
            BY ListingsAssumption
        <3>3. j \in Ids
            BY <1>4 DEF Listed, WalkOK
        <3> DEFINE c == cursor.id
        <3>4. c * Limit \in Nat
            <4> HIDE DEF c
            <4>1. c \in Nat
                BY <3>1 DEF c
            <4> QED BY <3>2, <4>1
        <3> QED BY <3>3, <3>4
    <2>10. \/ \E t \in departed' : t >= rows[j].at
           \/ Cardinality(Newer(j)') >= Cardinality(Newer(j))
        <3> SUFFICES ASSUME ~\E t \in departed' : t >= rows[j].at
                     PROVE  Newer(j) \subseteq Newer(j)'
            BY <2>8, FS_Subset
        <3> SUFFICES ASSUME NEW l \in Listed, rows[l].at > rows[j].at
                     PROVE  l \in Listed' /\ rows'[l].at > rows'[j].at
            BY DEF Newer
        <3>1. l \in Listed'
            BY <2>2, <2>3, <2>4, <2>9
        <3> QED BY <1>4, <2>3, <3>1
    <2>11. \/ \E t \in arrived' : t >= rows[j].at
           \/ Cardinality(Newer(j)') <= Cardinality(Newer(j))
        <3> SUFFICES ASSUME ~\E t \in arrived' : t >= rows[j].at
                     PROVE  Newer(j)' \subseteq Newer(j)
            BY <2>8, FS_Subset
        <3> SUFFICES ASSUME NEW l \in Listed', rows'[l].at > rows'[j].at
                     PROVE  l \in Listed /\ rows[l].at > rows[j].at
            BY DEF Newer
        <3>1. l \in Ids
            BY DEF Listed
        <3>2. l \in Listed
            BY <1>4, <2>2, <2>5, <2>9, <3>1
        <3> QED BY <1>4, <2>3, <3>2
    <2> DEFINE n == Cardinality(Newer(j))
               m == Cardinality(Newer(j)')
               past == cursor.id * Limit
    <2>12. n \in Nat /\ m \in Nat /\ past \in Nat
        BY <2>8, <2>9
    <2> HIDE DEF n, m, past
    <2>13. \/ \E t \in departed' : t >= rows[j].at
           \/ shown[j] > 0
           \/ ~done /\ m >= past
        BY <1>1, <2>1, <2>7, <2>10, <2>12 DEF n, m, past
    <2>14. \/ \E t \in arrived' : t >= rows[j].at
           \/ shown[j] = 0
           \/ shown[j] = 1 /\ (done \/ m < past)
        BY <2>1, <2>7, <2>11, <2>12 DEF n, m, past
    <2> QED BY <2>13, <2>14 DEF m, past
<1> QED BY <1>5, <1>6, <1>7, <1>8 DEF IInv

LEMMA NextKeepsInv == IInv /\ [Next]_vars => IInv'
<1> SUFFICES ASSUME IInv, [Next]_vars PROVE IInv'
    OBVIOUS
<1>1. CASE UNCHANGED vars
    BY <1>1 DEF vars, table, history, IInv, WalkOK, EventsInv, EventMissed, EventAhead, Beyond, CommentsInv,
        AfterCommentCursor, PagesInv, Tied, Newer, Listed, Matches, Exists, Rank
<1>2. CASE FetchEvents \/ FetchComments \/ FetchPage
    BY <1>2, FetchEventsKeepsInv, FetchCommentsKeepsInv, FetchPageKeepsInv
<1>3. ASSUME NEW i \in Ids,
           \/ CreateEvent(i) \/ UpdateEventStatus(i) \/ UpdateEventStatusAuto(i) \/ SettleEvent(i)
           \/ LikeOrUnlike(i)
           \/ CreateComment(i) \/ DeleteComment(i)
           \/ CreateBet(i) \/ SettleBet(i) \/ AddHistory(i)
           \/ Signup(i) \/ SuspendUser(i) \/ EndSuspension(i) \/ Withdraw(i) \/ Sweep(i)
      PROVE  IInv'
    <2>1. Changes(i)
        BY <1>3, StepsAreChanges DEF IInv
    <2> QED BY <2>1, ChangesKeepInv
<1> QED BY <1>1, <1>2, <1>3 DEF Next

-----------------------------------------------------------------------------
(* The walk knows where every row that stayed in its place is.              *)
THEOREM Invariance == Spec => []IInv
BY InitInv, NextKeepsInv, PTL DEF Spec

(* get_events: an event that stays in its place is missed only if the event *)
(* of a cursor moved down the list, and repeated only if one moved up.      *)
THEOREM Events == Spec => []EventsOnceUnlessCursorMoved
<1> QED BY Invariance, InvEvents, PTL

(* get_comments: the keyset cursor never repeats a comment, nor misses one  *)
(* that was there throughout.                                               *)
THEOREM Comments == Spec => []CommentsOnce
<1> QED BY Invariance, InvComments, PTL

(* The listings by offset miss and repeat rows only for a row as new that   *)
(* left or came, or for a tie.                                              *)
THEOREM Pages == Spec => []PagesErrOnlyByTraffic
<1> QED BY Invariance, InvPages, PTL
=============================================================================
