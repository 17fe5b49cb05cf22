------------------------- MODULE RankingCacheProofs -------------------------
(***************************************************************************)
(* What the rankings in Redis guarantee their readers, for any finite set   *)
(* of users, any points, length of the list and of the hour, and whatever   *)
(* batches fail, are missed or overlap.                                     *)
(***************************************************************************)
EXTENDS RankingCache, FiniteSetTheorems, FunctionTheorems, TLAPS

Entry == [user : Users, points : Nat]

(* Each user once, those of more points first. *)
IsRanking(list) ==
    /\ list \in Seq(Entry)
    /\ \A i, k \in DOMAIN list : i # k => list[i].user # list[k].user
    /\ \A i, k \in DOMAIN list : i < k => list[i].points >= list[k].points

(* The list knows all about the users whose rows have not changed since. *)
KnowsUntil(list, time) ==
    \A u \in Users : changedAt[u] < time =>
        /\ u \in ranked => \E i \in DOMAIN list : list[i].user = u
        /\ \A i \in DOMAIN list : list[i].user = u => u \in ranked /\ list[i].points = points[u]

(* The full hour that a TTL computed at the time leads to. *)
HourEnd(time) == time + (Hour - (time % Hour))

(* The TTL is computed no later than in the tick after updated_at. *)
EndsHourOf(expires, updatedAt) ==
    \E t \in Nat : t <= now /\ t <= updatedAt + 1 /\ expires = HourEnd(t)

RowsOK ==
    /\ now \in Nat
    /\ ranked \subseteq Users
    /\ points \in [Users -> Nat]
    /\ changedAt \in [Users -> Nat]
    /\ \A u \in Users : changedAt[u] <= now

(* What a batch has selected and computed when it is about to write. *)
Selected(b) == IsRanking(b.users) /\ KnowsUntil(b.users, b.updatedAt)

BatchOK(b) ==
    /\ b \in [step : {"idle", "select", "connect", "execute"}, updatedAt : Nat, users : Seq(Entry), until : Nat]
    /\ b # Idle => b.updatedAt <= now /\ now <= b.updatedAt + 1
    /\ b.step \in {"connect", "execute"} => Selected(b)
    /\ b.step = "execute" => EndsHourOf(b.until, b.updatedAt)

(* The keys are those of one batch: as long as its list is there, so is the *)
(* key of each user it ranked.                                              *)
KeysOf(list) ==
    /\ Selected([users |-> list, updatedAt |-> global.updatedAt])
    /\ global.total = Len(list) /\ global.top = TopRankings(list)
    /\ \A i \in DOMAIN list :
          personal[list[i].user] = [rank |-> i, total |-> Len(list), points |-> list[i].points,
                                    expires |-> global.expires]

KeysOK ==
    global # NoKey =>
        /\ global.updatedAt \in Nat /\ global.expires \in Nat
        /\ global.updatedAt <= now
        /\ now < global.expires \/ now <= global.updatedAt + 1
        /\ EndsHourOf(global.expires, global.updatedAt)
        /\ \E list \in Seq(Entry) : KeysOf(list)

IInv ==
    /\ RowsOK
    /\ batch = [j \in Jobs |-> batch[j]] /\ \A j \in Jobs : BatchOK(batch[j])
    /\ personal = [u \in Users |-> personal[u]]
    /\ KeysOK

-----------------------------------------------------------------------------
(* Hours *)

LEMMA HourEndIsNat ==
    ASSUME NEW t \in Nat
    PROVE  HourEnd(t) \in Nat /\ HourEnd(t) > t /\ t % Hour \in 0 .. Hour - 1
BY RankingAssumption DEF HourEnd

(* Until the hour of t ends, that hour has begun no later than t. *)
LEMMA HourBegan ==
    ASSUME NEW t \in Nat, NEW n \in Nat, n < HourEnd(t)
    PROVE  n - (n % Hour) <= t
<1> DEFINE q == t \div Hour
           m == n \div Hour
<1>1. Hour \in Nat \ {0}
    BY RankingAssumption
<1>2. /\ q \in Nat /\ t % Hour \in Nat /\ t = Hour * q + (t % Hour)
      /\ m \in Nat /\ n % Hour \in Nat /\ n = Hour * m + (n % Hour)
    BY <1>1
<1>3. Hour * m <= n /\ n < Hour * q + Hour
    BY <1>1, <1>2 DEF HourEnd
<1> HIDE DEF q, m
<1>4. Hour * m < Hour * (q + 1)
    BY <1>1, <1>2, <1>3
<1>5. m < q + 1
    BY <1>1, <1>2, <1>4
<1>6. Hour * m <= Hour * q
    BY <1>1, <1>2, <1>5
<1> QED BY <1>1, <1>2, <1>6

-----------------------------------------------------------------------------
(* Lists *)

(* A sequence without repetition, as long as the set, has all its elements. *)
LEMMA SeqsAreOnto ==
    ASSUME NEW S, IsFiniteSet(S), NEW s \in SetToSeqs(S)
    PROVE  /\ s \in Seq(S) /\ DOMAIN s = 1 .. Cardinality(S) /\ Len(s) = Cardinality(S)
           /\ \A i, k \in DOMAIN s : i # k => s[i] # s[k]
           /\ \A x \in S : \E i \in DOMAIN s : s[i] = x
<1> DEFINE n == Cardinality(S)
           D == 1 .. n
<1>1. n \in Nat
    BY FS_CardinalityType
<1>2. s \in [D -> S] /\ \A i, k \in D : i # k => s[i] # s[k]
    BY DEF SetToSeqs
<1>3. s \in Injection(D, S)
    BY <1>2 DEF Injection, IsInjective
<1>4. Cardinality(D) = Cardinality(S)
    BY <1>1, FS_Interval
<1>5. s \in Surjection(D, S)
    BY <1>3, <1>4, FS_Injection
<1>6. \A x \in S : \E i \in D : s[i] = x
    BY <1>5 DEF Surjection
<1> HIDE DEF n
<1>7. s \in Seq(S) /\ Len(s) = n /\ DOMAIN s = 1 .. n
    BY <1>1, <1>2
<1> QED BY <1>2, <1>6, <1>7 DEF n

LEMMA RankingsAreSelected ==
    ASSUME RowsOK, NEW list \in Rankings, NEW time
    PROVE  IsRanking(list) /\ KnowsUntil(list, time)
<1> DEFINE row == [u \in ranked |-> [user |-> u, points |-> points[u]]]
           S == {[user |-> u, points |-> points[u]] : u \in ranked}
<1>1. IsFiniteSet(S)
    <2>1. IsFiniteSet(ranked)
        BY RankingAssumption, FS_Subset DEF RowsOK
    <2>2. row \in [ranked -> S] /\ \A r \in S : \E u \in ranked : row[u] = r
        OBVIOUS
    <2>3. row \in Surjection(ranked, S)
        BY <2>2, Fun_IsSurj
    <2> HIDE DEF row, S
    <2> QED BY <2>1, <2>3, FS_Surjection
<1>2. list \in SetToSeqs(S) /\ \A i, k \in DOMAIN list : i < k => list[i].points >= list[k].points
    BY DEF Rankings
<1>3. /\ \A r \in S : r \in Entry /\ r.user \in ranked /\ r = [user |-> r.user, points |-> points[r.user]]
      /\ \A u \in ranked : [user |-> u, points |-> points[u]] \in S
    BY DEF RowsOK, Entry
<1> HIDE DEF S
<1>4. /\ list \in Seq(S)
      /\ \A i, k \in DOMAIN list : i # k => list[i] # list[k]
      /\ \A r \in S : \E i \in DOMAIN list : list[i] = r
    BY <1>1, <1>2, SeqsAreOnto
<1>5. \A i \in DOMAIN list : list[i] \in S
    BY <1>4
<1>6. list \in Seq(Entry)
    BY <1>3, <1>4
<1>7. \A i, k \in DOMAIN list : i # k => list[i].user # list[k].user
    BY <1>3, <1>4, <1>5
<1>8. KnowsUntil(list, time)
    <2> SUFFICES ASSUME NEW u \in Users
                 PROVE  /\ u \in ranked => \E i \in DOMAIN list : list[i].user = u
                        /\ \A i \in DOMAIN list : list[i].user = u => u \in ranked /\ list[i].points = points[u]
        BY DEF KnowsUntil
    <2>1. ASSUME u \in ranked PROVE \E i \in DOMAIN list : list[i].user = u
        <3>1. PICK i \in DOMAIN list : list[i] = [user |-> u, points |-> points[u]]
            BY <1>3, <1>4, <2>1
        <3> QED BY <3>1
    <2>2. ASSUME NEW i \in DOMAIN list, list[i].user = u PROVE u \in ranked /\ list[i].points = points[u]
        <3>1. list[i].user \in ranked /\ list[i] = [user |-> u, points |-> points[u]]
            BY <1>3, <1>5, <2>2
        <3> QED BY <2>2, <3>1
    <2> QED BY <2>1, <2>2
<1> QED BY <1>2, <1>6, <1>7, <1>8 DEF IsRanking

(* The head of a list is the list as far as it goes. *)
LEMMA TopOfList ==
    ASSUME NEW list \in Seq(Entry)
    PROVE  LET m == IF Len(list) < TopSize THEN Len(list) ELSE TopSize IN
           /\ m \in Nat /\ DOMAIN TopRankings(list) = 1 .. m /\ Len(TopRankings(list)) = m
           /\ DOMAIN list = 1 .. Len(list) /\ Len(list) \in Nat
           /\ \A i \in 1 .. m : TopRankings(list)[i] = list[i]
BY RankingAssumption DEF TopRankings

(* A change of a row is no news to a list of before. *)
LEMMA ChangeKeepsKnowledge ==
    ASSUME NEW list, NEW time \in Nat, time <= now, KnowsUntil(list, time), RowsOK, NEW u \in Users,
           changedAt' = [changedAt EXCEPT ![u] = now],
           \A v \in Users \ {u} : points'[v] = points[v] /\ (v \in ranked' <=> v \in ranked)
    PROVE  KnowsUntil(list, time)'
<1> SUFFICES ASSUME NEW v \in Users, changedAt'[v] < time
             PROVE  /\ v \in ranked' => \E i \in DOMAIN list : list[i].user = v
                    /\ \A i \in DOMAIN list : list[i].user = v => v \in ranked' /\ list[i].points = points'[v]
    BY DEF KnowsUntil
<1>1. v # u
    BY DEF RowsOK
<1>2. changedAt'[v] = changedAt[v]
    BY <1>1 DEF RowsOK
<1> QED BY <1>1, <1>2 DEF KnowsUntil

-----------------------------------------------------------------------------
(* What the readers find *)

LEMMA InvAgrees == IInv => RanksAgree
<1> SUFFICES ASSUME IInv, NEW u \in Users
             PROVE  /\ \A i \in DOMAIN TopUsers.rankings : TopUsers.rankings[i].user = u =>
                          MyRanking(u) = [rank |-> i, total |-> TopUsers.total,
                                          points |-> TopUsers.rankings[i].points]
                    /\ ~Listed(u) /\ MyRanking(u).rank \in DOMAIN TopUsers.rankings =>
                          u \notin ranked \/ changedAt[u] >= TopUsers.updatedAt
    BY DEF RanksAgree
<1>1. CASE global = NoKey
    <2>1. DOMAIN TopUsers.rankings = {}
        BY <1>1 DEF TopUsers
    <2> QED BY <2>1
<1>2. CASE global # NoKey
    <2>1. PICK list \in Seq(Entry) : KeysOf(list)
        BY <1>2 DEF IInv, KeysOK
    <2>2. /\ TopUsers.rankings = TopRankings(list) /\ TopUsers.total = Len(list)
          /\ TopUsers.updatedAt = global.updatedAt
        BY <1>2, <2>1 DEF TopUsers, KeysOf
    <2> DEFINE m == IF Len(list) < TopSize THEN Len(list) ELSE TopSize
    <2>3. /\ m \in Nat /\ DOMAIN TopUsers.rankings = 1 .. m
          /\ DOMAIN list = 1 .. Len(list) /\ Len(list) \in Nat /\ 1 .. m \subseteq DOMAIN list
          /\ \A i \in 1 .. m : TopUsers.rankings[i] = list[i]
        BY <2>2, TopOfList, RankingAssumption
    <2> HIDE DEF m
    <2>4. ASSUME NEW i \in DOMAIN list, list[i].user = u
          PROVE  MyRanking(u) = [rank |-> i, total |-> Len(list), points |-> list[i].points]
        <3>1. personal[u] = [rank |-> i, total |-> Len(list), points |-> list[i].points,
                             expires |-> global.expires]
            BY <2>1, <2>4 DEF KeysOf
        <3>2. personal[u] # NoKey
            <4>1. list[i].points \in Nat /\ i \in Nat /\ Len(list) \in Nat /\ global.expires \in Nat
                <5>1. list[i] \in Entry
                    BY <2>4
                <5> QED BY <1>2, <2>3, <5>1 DEF Entry, IInv, KeysOK
            <4> QED BY <3>1, <4>1, RankingAssumption
        <3> QED BY <3>1, <3>2 DEF MyRanking
    <2>5. ASSUME NEW i \in DOMAIN TopUsers.rankings, TopUsers.rankings[i].user = u
          PROVE  MyRanking(u) = [rank |-> i, total |-> TopUsers.total,
                                 points |-> TopUsers.rankings[i].points]
        BY <2>2, <2>3, <2>4, <2>5
    <2>6. ASSUME ~Listed(u), MyRanking(u).rank \in DOMAIN TopUsers.rankings,
                 u \in ranked, ~(changedAt[u] >= TopUsers.updatedAt)
          PROVE  FALSE
        <3>1. changedAt[u] < global.updatedAt
            BY <1>2, <2>2, <2>6 DEF IInv, RowsOK, KeysOK
        <3>2. PICK i \in DOMAIN list : list[i].user = u
            BY <2>1, <2>6, <3>1 DEF KeysOf, Selected, KnowsUntil
        <3>3. MyRanking(u).rank = i
            BY <2>4, <3>2
        <3>4. TopUsers.rankings[i].user = u /\ i \in DOMAIN TopUsers.rankings
            BY <2>3, <2>6, <3>2, <3>3
        <3> QED BY <2>6, <3>4 DEF Listed
    <2> QED BY <2>5, <2>6
<1> QED BY <1>1, <1>2

LEMMA InvRecent == IInv => RankingsAreAsRecentAsStated
<1> SUFFICES ASSUME IInv, global # NoKey PROVE RankingsAreAsRecentAsStated
    BY DEF RankingsAreAsRecentAsStated
<1>1. PICK list \in Seq(Entry) : KeysOf(list)
    BY DEF IInv, KeysOK
<1>2. /\ TopUsers.rankings = TopRankings(list) /\ TopUsers.updatedAt = global.updatedAt
      /\ global.updatedAt \in Nat /\ now \in Nat
    BY <1>1 DEF TopUsers, KeysOf, IInv, KeysOK, RowsOK
<1>3. TopUsers.updatedAt >= now - (now % Hour) - 1
    <2>1. now % Hour \in Nat
        BY <1>2, RankingAssumption
    <2>2. CASE now < global.expires
        <3>1. PICK t \in Nat : t <= global.updatedAt + 1 /\ global.expires = HourEnd(t)
            BY DEF IInv, KeysOK, EndsHourOf
        <3>2. now - (now % Hour) <= t
            BY <1>2, <2>2, <3>1, HourBegan
        <3> QED BY <1>2, <2>1, <3>1, <3>2
    <2>3. CASE now <= global.updatedAt + 1
        BY <1>2, <2>1, <2>3
    <2> QED BY <2>2, <2>3 DEF IInv, KeysOK
<1> DEFINE m == IF Len(list) < TopSize THEN Len(list) ELSE TopSize
           top == TopUsers.rankings
<1>4. /\ m \in Nat /\ DOMAIN top = 1 .. m /\ Len(top) = m
      /\ DOMAIN list = 1 .. Len(list) /\ Len(list) \in Nat
      /\ 1 .. m \subseteq DOMAIN list /\ (m = Len(list) \/ m = TopSize)
      /\ \A i \in 1 .. m : top[i] = list[i]
    BY <1>2, TopOfList, RankingAssumption
<1> HIDE DEF m, top
<1>5. IsRanking(list) /\ KnowsUntil(list, global.updatedAt)
    BY <1>1 DEF KeysOf, Selected
<1>6. ToSet(top) = {top[i] : i \in 1 .. m}
    BY <1>4 DEF ToSet
<1>7. ASSUME NEW u \in Users, changedAt[u] < TopUsers.updatedAt, Listed(u)
      PROVE  u \in ranked /\ [user |-> u, points |-> points[u]] \in ToSet(top)
    <2>1. PICK i \in DOMAIN top : top[i].user = u
        BY <1>7 DEF Listed, top
    <2>2. i \in DOMAIN list /\ list[i].user = u /\ top[i] = list[i] /\ list[i] \in Entry
        <3>1. i \in 1 .. m
            BY <1>4, <2>1
        <3>2. i \in DOMAIN list /\ top[i] = list[i]
            BY <1>4, <3>1
        <3> QED BY <2>1, <3>2
    <2>3. u \in ranked /\ list[i].points = points[u]
        BY <1>2, <1>5, <1>7, <2>2 DEF KnowsUntil
    <2>4. list[i] = [user |-> u, points |-> points[u]]
        BY <2>2, <2>3 DEF Entry
    <2> QED BY <1>4, <1>6, <2>1, <2>2, <2>3, <2>4
<1>8. ASSUME NEW u \in Users, changedAt[u] < TopUsers.updatedAt, ~Listed(u), u \in ranked
      PROVE  Len(top) = TopSize /\ \A r \in ToSet(top) : r.points >= points[u]
    <2>1. PICK i \in DOMAIN list : list[i].user = u
        BY <1>2, <1>5, <1>8 DEF KnowsUntil
    <2>2. list[i].points = points[u]
        BY <1>2, <1>5, <1>8, <2>1 DEF KnowsUntil
    <2>3. i \notin DOMAIN top
        BY <1>4, <1>8, <2>1 DEF Listed, top
    <2>4. m = TopSize /\ \A k \in 1 .. m : k < i
        BY <1>4, <2>1, <2>3
    <2>5. \A k \in 1 .. m : top[k].points >= points[u]
        BY <1>4, <1>5, <2>1, <2>2, <2>4 DEF IsRanking
    <2> QED BY <1>4, <1>6, <2>4, <2>5
<1> QED BY <1>3, <1>7, <1>8 DEF RankingsAreAsRecentAsStated, top

-----------------------------------------------------------------------------
(* The steps *)

LEMMA InitInv == Init => IInv
<1> SUFFICES ASSUME Init PROVE IInv
    OBVIOUS
<1>1. RowsOK
    <2>1. now \in Nat
        BY RankingAssumption DEF Init
    <2>2. points \in [Users -> Nat]
        <3>1. points \in [Users -> Points] /\ Points \subseteq Nat
            BY RankingAssumption DEF Init
        <3> QED BY <3>1
    <2>3. changedAt = [u \in Users |-> 0] /\ ranked \subseteq Users
        BY DEF Init
    <2> QED BY <2>1, <2>2, <2>3 DEF RowsOK
<1>2. BatchOK(Idle)
    BY DEF BatchOK, Idle
<1>3. \A j \in Jobs : BatchOK(batch[j])
    BY <1>2 DEF Init
<1> QED BY <1>1, <1>3 DEF Init, IInv, KeysOK

(* A change of rows leaves what was selected before as good as it was. *)
LEMMA ChangeKeepsInv ==
    ASSUME IInv, NEW u \in Users, RowsOK', UNCHANGED <<now, batch, redis>>,
           changedAt' = [changedAt EXCEPT ![u] = now],
           \A v \in Users \ {u} : points'[v] = points[v] /\ (v \in ranked' <=> v \in ranked)
    PROVE  IInv'
<1> USE DEF redis
<1>1. ASSUME NEW list, NEW time \in Nat, time <= now, KnowsUntil(list, time)
      PROVE  KnowsUntil(list, time)'
    BY <1>1, ChangeKeepsKnowledge DEF IInv
<1>2. ASSUME NEW j \in Jobs PROVE BatchOK(batch[j])'
    <2> DEFINE b == batch[j]
    <2>1. BatchOK(b) /\ b' = b
        BY DEF IInv
    <2>2. ASSUME b.step \in {"connect", "execute"} PROVE KnowsUntil(b.users, b.updatedAt)'
        <3>1. b # Idle /\ b.updatedAt \in Nat
            BY <2>1, <2>2 DEF BatchOK, Idle
        <3>2. b.updatedAt <= now /\ KnowsUntil(b.users, b.updatedAt)
            BY <2>1, <2>2, <3>1 DEF BatchOK, Selected
        <3> HIDE DEF b
        <3>3. KnowsUntil(b.users, b.updatedAt)'
            BY <1>1, <2>1, <3>1, <3>2 DEF KnowsUntil
        <3> QED BY <3>3
    <2> QED BY <2>1, <2>2 DEF BatchOK, Selected, IsRanking, EndsHourOf
<1>3. KeysOK'
    <2> SUFFICES ASSUME global # NoKey PROVE \E list \in Seq(Entry) : KeysOf(list)'
        BY DEF IInv, KeysOK, EndsHourOf
    <2>1. PICK list \in Seq(Entry) : KeysOf(list)
        BY DEF IInv, KeysOK
    <2>2. global.updatedAt \in Nat /\ global.updatedAt <= now /\ KnowsUntil(list, global.updatedAt)
        BY <2>1 DEF IInv, KeysOK, KeysOf, Selected
    <2>3. KnowsUntil(list, global.updatedAt)'
        BY <1>1, <2>2 DEF KnowsUntil
    <2> QED BY <2>1, <2>3 DEF KeysOf, Selected, IsRanking
<1> QED BY <1>2, <1>3 DEF IInv

(* A step of a job that writes no keys. *)
LEMMA BatchKeepsInv ==
    ASSUME IInv, NEW j \in Jobs, NEW b, BatchOK(b), batch' = [batch EXCEPT ![j] = b],
           UNCHANGED <<now, rows, redis>>
    PROVE  IInv'
<1> USE DEF rows, redis
<1>1. RowsOK' /\ personal' = [u \in Users |-> personal'[u]]
    BY DEF IInv, RowsOK
<1>6. KeysOK'
    <2>1. \A list : KeysOf(list) => KeysOf(list)'
        BY DEF KeysOf, Selected, IsRanking, KnowsUntil
    <2> QED BY <2>1 DEF IInv, KeysOK, EndsHourOf
<1>2. \A c : BatchOK(c) => BatchOK(c)'
    BY DEF BatchOK, Selected, IsRanking, KnowsUntil, EndsHourOf
<1>3. \A k \in Jobs : batch'[k] = IF k = j THEN b ELSE batch[k]
    BY DEF IInv
<1>4. batch' = [k \in Jobs |-> batch'[k]]
    BY DEF IInv
<1>5. ASSUME NEW k \in Jobs PROVE BatchOK(batch[k])'
    BY <1>2, <1>3 DEF IInv
<1> QED BY <1>1, <1>4, <1>5, <1>6 DEF IInv

-----------------------------------------------------------------------------
LEMMA JobKeepsInv ==
    ASSUME IInv, NEW j \in Jobs, Begin(j) \/ SelectUsers(j) \/ Prepare(j) \/ FailBatch(j)
    PROVE  IInv'
<1> USE DEF rows, redis
<1> DEFINE b == batch[j]
<1>1. RowsOK /\ BatchOK(b)
    BY DEF IInv
<1>2. BatchOK(Idle)
    BY DEF BatchOK, Idle
<1>3. CASE Begin(j)
    <2> DEFINE c == [Idle EXCEPT !.step = "select", !.updatedAt = now]
    <2>1. BatchOK(c)
        <3>1. now \in Nat
            BY <1>1 DEF RowsOK
        <3>2. /\ c \in [step : {"idle", "select", "connect", "execute"}, updatedAt : Nat,
                        users : Seq(Entry), until : Nat]
              /\ c.step = "select" /\ c.updatedAt = now
            BY <1>2, <3>1 DEF BatchOK
        <3> HIDE DEF c
        <3> QED BY <3>1, <3>2 DEF BatchOK
    <2>2. batch' = [batch EXCEPT ![j] = c] /\ UNCHANGED <<now, rows, redis>>
        BY <1>3 DEF Begin
    <2> HIDE DEF c
    <2> QED BY <2>1, <2>2, BatchKeepsInv
<1>4. CASE SelectUsers(j)
    <2>1. PICK list \in Rankings :
              batch' = [batch EXCEPT ![j] = IF list = <<>> THEN Idle
                                            ELSE [@ EXCEPT !.step = "connect", !.users = list]]
        BY <1>4 DEF SelectUsers
    <2> DEFINE c == IF list = <<>> THEN Idle ELSE [b EXCEPT !.step = "connect", !.users = list]
    <2>2. IsRanking(list) /\ KnowsUntil(list, b.updatedAt)
        BY <1>1, RankingsAreSelected
    <2>3. b.step = "select" /\ b # Idle
        <3>1. b.step = "select"
            BY <1>4 DEF SelectUsers
        <3>2. Idle.step = "idle"
            BY DEF Idle
        <3> QED BY <3>1, <3>2
    <2>4. BatchOK(c)
        <3>1. CASE list = <<>>
            BY <1>2, <3>1
        <3>2. CASE list # <<>>
            <4>1. /\ c.step = "connect" /\ c.users = list /\ c.updatedAt = b.updatedAt
                  /\ c \in [step : {"idle", "select", "connect", "execute"}, updatedAt : Nat,
                            users : Seq(Entry), until : Nat]
                BY <1>1, <2>2, <3>2 DEF BatchOK, IsRanking
            <4>2. b.updatedAt <= now /\ now <= b.updatedAt + 1
                BY <1>1, <2>3 DEF BatchOK
            <4> HIDE DEF c
            <4> QED BY <2>2, <4>1, <4>2 DEF BatchOK, Selected
        <3> QED BY <3>1, <3>2
    <2>5. batch' = [batch EXCEPT ![j] = c] /\ UNCHANGED <<now, rows, redis>>
        BY <1>4, <2>1 DEF SelectUsers
    <2> HIDE DEF c
    <2> QED BY <2>4, <2>5, BatchKeepsInv
<1>5. CASE Prepare(j)
    <2> DEFINE c == [b EXCEPT !.step = "execute", !.until = now + SecondsUntilNextHour]
    <2>1. c.until = HourEnd(now) /\ HourEnd(now) \in Nat
        BY <1>1, HourEndIsNat DEF RowsOK, HourEnd, SecondsUntilNextHour, BatchOK
    <2>2. b.step = "connect" /\ b # Idle
        BY <1>5 DEF Prepare, Idle
    <2>3. b.updatedAt <= now /\ now <= b.updatedAt + 1 /\ Selected(b)
        BY <1>1, <2>2 DEF BatchOK
    <2>4. /\ c.step = "execute" /\ c.users = b.users /\ c.updatedAt = b.updatedAt
          /\ c \in [step : {"idle", "select", "connect", "execute"}, updatedAt : Nat,
                    users : Seq(Entry), until : Nat]
        BY <1>1, <2>1 DEF BatchOK
    <2>5. batch' = [batch EXCEPT ![j] = c] /\ UNCHANGED <<now, rows, redis>>
        BY <1>5 DEF Prepare
    <2> HIDE DEF c, b
    <2>6. BatchOK(c)
        BY <1>1, <2>1, <2>3, <2>4 DEF BatchOK, Selected, EndsHourOf, RowsOK
    <2> QED BY <2>5, <2>6, BatchKeepsInv
<1>6. CASE FailBatch(j)
    BY <1>2, <1>6, BatchKeepsInv DEF FailBatch
<1> QED BY <1>3, <1>4, <1>5, <1>6

LEMMA ExecuteKeepsInv ==
    ASSUME IInv, NEW j \in Jobs, Execute(j)
    PROVE  IInv'
<1> USE DEF rows
<1>0. PICK b : b = batch[j]
    OBVIOUS
<1> DEFINE list == b.users
<1>1. RowsOK /\ BatchOK(b) /\ b.step = "execute" /\ b # Idle
    <2>1. b.step = "execute" /\ Idle.step = "idle"
        BY <1>0 DEF Execute, Idle
    <2> QED BY <1>0, <2>1 DEF IInv
<1>2. /\ b.updatedAt \in Nat /\ b.until \in Nat /\ list \in Seq(Entry) /\ Selected(b)
      /\ b.updatedAt <= now /\ now <= b.updatedAt + 1 /\ EndsHourOf(b.until, b.updatedAt)
    BY <1>1 DEF BatchOK
<1>3. /\ global' = [total |-> Len(list), top |-> TopRankings(list),
                    updatedAt |-> b.updatedAt, expires |-> b.until]
      /\ personal' = [u \in Users |-> Rewritten(u, b)]
      /\ batch' = [batch EXCEPT ![j] = Idle] /\ UNCHANGED <<now, rows>>
    BY <1>0 DEF Execute
<1>4. ASSUME NEW i \in DOMAIN list
      PROVE  personal'[list[i].user] = [rank |-> i, total |-> Len(list), points |-> list[i].points,
                                        expires |-> b.until]
    <2> DEFINE u == list[i].user
    <2>1. u \in Users
        <3>1. list[i] \in Entry
            BY <1>2
        <3> QED BY <3>1 DEF Entry
    <2>2. \A k \in DOMAIN list : list[k].user = u => k = i
        BY <1>2 DEF Selected, IsRanking
    <2>3. Rewritten(u, b) = UserRanking(CHOOSE k \in DOMAIN list : list[k].user = u, b)
        BY DEF Rewritten
    <2>4. (CHOOSE k \in DOMAIN list : list[k].user = u) = i
        BY <2>2
    <2> QED BY <1>3, <2>1, <2>3, <2>4 DEF UserRanking
<1>5. \A c : BatchOK(c) => BatchOK(c)'
    BY <1>3 DEF BatchOK, Selected, IsRanking, KnowsUntil, EndsHourOf
<1>6. \A k \in Jobs : BatchOK(batch[k])'
    <2>1. BatchOK(Idle)
        BY DEF BatchOK, Idle
    <2>2. \A k \in Jobs : batch'[k] = Idle \/ batch'[k] = batch[k]
        BY <1>3 DEF IInv
    <2> QED BY <1>5, <2>1, <2>2 DEF IInv
<1>7. RowsOK' /\ batch' = [k \in Jobs |-> batch'[k]] /\ personal' = [u \in Users |-> personal'[u]]
    BY <1>1, <1>3 DEF RowsOK, IInv
<1>8. KeysOf(list)'
    <2>1. /\ global'.total = Len(list) /\ global'.top = TopRankings(list)
          /\ global'.updatedAt = b.updatedAt /\ global'.expires = b.until
        BY <1>3
    <2>2. Selected([users |-> list, updatedAt |-> b.updatedAt])'
        BY <1>2, <1>3 DEF Selected, IsRanking, KnowsUntil
    <2> QED BY <1>4, <2>1, <2>2 DEF KeysOf
<1>9. KeysOK'
    <2>1. global'.updatedAt = b.updatedAt /\ global'.expires = b.until
        BY <1>3
    <2>2. EndsHourOf(b.until, b.updatedAt)'
        BY <1>2, <1>3 DEF EndsHourOf
    <2> QED BY <1>2, <1>3, <1>8, <2>1, <2>2 DEF KeysOK, EndsHourOf
<1> QED BY <1>6, <1>7, <1>9 DEF IInv

(* Keys end and time passes. *)
LEMMA ExpiryKeepsInv ==
    ASSUME IInv, NEW time \in Nat, now' = time, UNCHANGED <<rows, batch>>,
           global' = Remaining(global, time), personal' = [u \in Users |-> Remaining(personal[u], time)],
           \/ time = now
           \/ time = now + 1 /\ \A j \in Jobs : Running(j) => batch[j].updatedAt = now
    PROVE  IInv'
<1> USE DEF rows
<1>1. now \in Nat /\ now <= time /\ RowsOK'
    BY DEF IInv, RowsOK
<1>2. \A expires, updatedAt : EndsHourOf(expires, updatedAt) => EndsHourOf(expires, updatedAt)'
    BY <1>1 DEF EndsHourOf
<1>3. ASSUME NEW j \in Jobs PROVE BatchOK(batch[j])'
    <2>1. PICK b : b = batch[j]
        OBVIOUS
    <2>2. BatchOK(b)
        BY <2>1 DEF IInv
    <2>3. b # Idle => b.updatedAt <= time /\ time <= b.updatedAt + 1
        BY <1>1, <2>1, <2>2 DEF BatchOK, Running
    <2>4. BatchOK(b)'
        BY <1>2, <2>2, <2>3 DEF BatchOK, Selected, IsRanking, KnowsUntil
    <2> QED BY <2>1, <2>4
<1>4. KeysOK'
    <2> SUFFICES ASSUME global' # NoKey PROVE KeysOK'
        BY DEF KeysOK
    <2>1. global' = global /\ global # NoKey /\ ~(global.expires <= time)
        BY DEF Remaining
    <2>2. PICK list \in Seq(Entry) : KeysOf(list)
        BY <2>1 DEF IInv, KeysOK
    <2>3. ASSUME NEW i \in DOMAIN list
          PROVE  personal'[list[i].user] = personal[list[i].user]
        <3>1. list[i].user \in Users
            <4>1. list[i] \in Entry
                OBVIOUS
            <4> QED BY <4>1 DEF Entry
        <3>2. personal[list[i].user].expires = global.expires
            <4>1. personal[list[i].user] = [rank |-> i, total |-> Len(list), points |-> list[i].points,
                                            expires |-> global.expires]
                BY <2>2 DEF KeysOf
            <4> QED BY <4>1
        <3> QED BY <2>1, <3>1, <3>2 DEF Remaining
    <2>4. KeysOf(list)'
        BY <2>1, <2>2, <2>3 DEF KeysOf, Selected, IsRanking, KnowsUntil
    <2>5. /\ global.updatedAt \in Nat /\ global.expires \in Nat /\ global.updatedAt <= time
          /\ time < global.expires
        BY <1>1, <2>1 DEF IInv, KeysOK
    <2>6. EndsHourOf(global.expires, global.updatedAt)'
        <3>1. PICK e, t : e = global.expires /\ t = global.updatedAt
            OBVIOUS
        <3>2. EndsHourOf(e, t)
            BY <2>1, <3>1 DEF IInv, KeysOK
        <3> QED BY <1>2, <2>1, <3>1, <3>2
    <2> QED BY <2>1, <2>4, <2>5, <2>6 DEF KeysOK
<1>5. personal' = [u \in Users |-> personal'[u]] /\ batch' = [j \in Jobs |-> batch'[j]]
    BY DEF IInv
<1> QED BY <1>1, <1>3, <1>4, <1>5 DEF IInv

LEMMA NextKeepsInv == IInv /\ [Next]_vars => IInv'
<1> SUFFICES ASSUME IInv, [Next]_vars PROVE IInv'
    OBVIOUS
<1>0. RowsOK
    BY DEF IInv
<1>1. ASSUME NEW u \in Users, NEW p \in Points, ChangePoints(u, p) PROVE IInv'
    <2>1. p \in Nat
        BY RankingAssumption
    <2>2. RowsOK'
        BY <1>0, <1>1, <2>1 DEF ChangePoints, RowsOK
    <2> QED BY <1>0, <1>1, <2>2, ChangeKeepsInv DEF ChangePoints, RowsOK
<1>2. ASSUME NEW u \in Users, JoinOrLeave(u) PROVE IInv'
    <2>1. RowsOK'
        BY <1>0, <1>2 DEF JoinOrLeave, RowsOK
    <2>2. \A v \in Users \ {u} : v \in ranked' <=> v \in ranked
        BY <1>2 DEF JoinOrLeave
    <2> QED BY <1>2, <2>1, <2>2, ChangeKeepsInv DEF JoinOrLeave
<1>3. ASSUME NEW j \in Jobs, BatchStep(j) \/ FailBatch(j) PROVE IInv'
    BY <1>3, JobKeepsInv, ExecuteKeepsInv DEF BatchStep
<1>4. ASSUME UNCHANGED <<now, rows, batch, redis>> PROVE IInv'
    <2> USE DEF rows, redis
    <2>1. \A b : BatchOK(b) => BatchOK(b)'
        BY <1>4 DEF BatchOK, Selected, IsRanking, KnowsUntil, EndsHourOf
    <2>2. \A list : KeysOf(list) => KeysOf(list)'
        BY <1>4 DEF KeysOf, Selected, IsRanking, KnowsUntil
    <2>3. RowsOK' /\ KeysOK'
        BY <1>4, <2>2 DEF IInv, RowsOK, KeysOK, EndsHourOf
    <2> QED BY <1>4, <2>1, <2>3 DEF IInv
<1>5. CASE Restart
    <2>1. BatchOK(Idle)'
        BY DEF BatchOK, Idle
    <2>2. \A list : KeysOf(list) => KeysOf(list)'
        BY <1>5 DEF Restart, rows, redis, KeysOf, Selected, IsRanking, KnowsUntil
    <2>3. RowsOK' /\ KeysOK'
        BY <1>5, <2>2 DEF Restart, rows, redis, IInv, RowsOK, KeysOK, EndsHourOf
    <2>4. batch' = [j \in Jobs |-> Idle]
        BY <1>5 DEF Restart
    <2>5. \A j \in Jobs : BatchOK(batch[j])'
        BY <2>1, <2>4
    <2> QED BY <1>5, <2>3, <2>4, <2>5 DEF Restart, redis, IInv
<1>6. CASE Lapse
    <2>1. PICK time \in Nat : time = now
        BY <1>0 DEF RowsOK
    <2>2. /\ now' = time /\ UNCHANGED <<rows, batch>> /\ global' = Remaining(global, time)
          /\ personal' = [u \in Users |-> Remaining(personal[u], time)]
        BY <1>6, <2>1 DEF Lapse
    <2> QED BY <2>1, <2>2, ExpiryKeepsInv
<1>7. CASE Advance
    BY <1>0, <1>7, ExpiryKeepsInv DEF Advance, RowsOK
<1>8. ASSUME NEW j \in Jobs, MissRun(j) PROVE IInv'
    BY <1>4, <1>8 DEF MissRun
<1>9. CASE UNCHANGED vars
    BY <1>4, <1>9 DEF vars
<1> QED BY <1>1, <1>2, <1>3, <1>5, <1>6, <1>7, <1>8, <1>9 DEF Next

-----------------------------------------------------------------------------
(* Every list in Redis and in a batch is one that a moment's rows gave, and *)
(* the keys of its users are there as long as it is.                        *)
THEOREM Invariance == Spec => []IInv
BY InitInv, NextKeepsInv, PTL DEF Spec

(* The two answers agree: ranking:top_list and user_ranking:<id> are        *)
(* written in one MULTI/EXEC and end together (ranking_services).           *)
THEOREM Agreement == Spec => []RanksAgree
<1> QED BY Invariance, InvAgrees, PTL

(* What changed before updated_at is in the list, and the list is of this   *)
(* hour or of a batch begun just before it.                                 *)
THEOREM Recent == Spec => []RankingsAreAsRecentAsStated
<1> QED BY Invariance, InvRecent, PTL
=============================================================================
