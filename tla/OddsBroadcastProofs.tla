------------------------ MODULE OddsBroadcastProofs ------------------------
(***************************************************************************)
(* What OddsBroadcast guarantees for any sockets, bets and options.  The    *)
(* invariant follows a bet on its way to each subscriber: by its own        *)
(* broadcast, by the greeting of a subscriber that came later, or by        *)
(* a message of a request that was in flight with it.                       *)
(***************************************************************************)
EXTENDS OddsBroadcast, TLAPS

(* A client that is there has a running handler and is in the set: it never *)
(* comes back once a broadcast has found it gone.                           *)
Linked ==
    /\ \A s \in connected : s \in connections /\ handler[s] \notin {"off", "closed", "raised"}
    /\ \A b \in Bets : \A s \in request[b].failed : s \notin connected /\ handler[s] # "off"

(* Requests in flight together know of each other. *)
Meetings == \A b, c \in InFlight : b = c \/ c \in request[b].met

(* A request in flight has seen every committed bet, or met its request. *)
Snapshots == \A b \in InFlight : placed \subseteq request[b].odds \cup request[b].met

(* A bet's own message counts it, visits begin with the broadcast, and the  *)
(* request of a committed bet is over.                                      *)
OwnBets ==
    \A b \in Bets :
        /\ request[b].pc \in {"send", "commit"} => b \in request[b].odds
        /\ request[b].pc \notin {"send", "commit"} => request[b].visited = {} /\ request[b].failed = {}
        /\ b \in placed => request[b].pc = "done"

(* A member whose client had left is one that a visit cannot reach: the     *)
(* broadcast remembers it, and it does not come back.                       *)
Gone ==
    \A b \in Bets :
        /\ request[b].gone \subseteq request[b].members
        /\ \A s \in request[b].gone : s \notin connected /\ handler[s] # "off"
        /\ request[b].pc = "send" => request[b].gone \cap request[b].visited \subseteq request[b].failed
        /\ request[b].pc \notin {"send", "commit"} => request[b].gone = {}

(* So has a greeting, and it has met every request in flight. *)
Greetings ==
    \A s \in Sockets : handler[s] = "greet" =>
        /\ greeting[s] \in Message
        /\ InFlight \subseteq greeting[s].met
        /\ placed \subseteq greeting[s].odds \cup greeting[s].met

Knows(s, b) == b \in shown[s].odds \cup shown[s].met

(* A broadcast that is over, or past the subscriber, has told it of the     *)
(* bet, unless its set has grown.                                           *)
HasTold(b, s) ==
    \/ request[b].pc = "commit" /\ ~request[b].grown
    \/ request[b].pc = "send" /\ (s \in request[b].visited \/ s \notin request[b].members)

Told ==
    \A b \in Bets : \A s \in connected : handler[s] = "receive" /\ HasTold(b, s) => Knows(s, b)

IInv ==
    /\ TypeOK
    /\ LeftoversLastUntilBroadcast
    /\ Linked
    /\ Meetings
    /\ Snapshots
    /\ OwnBets
    /\ Gone
    /\ Greetings
    /\ Told
    /\ OddsLackOnlyOverlaps

-----------------------------------------------------------------------------
(* The requests *)

(* The request y goes on as x, which may be orphaned, or whose set may have *)
(* grown.                                                                   *)
Like(x, y) ==
    /\ x.pc = y.pc /\ x.odds = y.odds /\ x.met = y.met
    /\ x.members = y.members /\ x.visited = y.visited /\ x.failed = y.failed
    /\ x.gone = y.gone /\ (y.grown => x.grown)

(* The requests of the bets in B go on as they were. *)
Same(B) == \A b \in B : Like(request'[b], request[b])

LEMMA NewRequestOK == NewRequest \in Request /\ \A pc \in {"done", "failed"} : Ended(pc) \in Request
BY DEF NewRequest, Request, Ended

LEMMA OrphanedRequests ==
    ASSUME NEW r \in [Bets -> Request], NEW M
    PROVE  Orphaned(r, M) \in [Bets -> Request] /\ \A b \in Bets : Like(Orphaned(r, M)[b], r[b])
<1>1. ASSUME NEW x \in Request
      PROVE  [x EXCEPT !.orphaned = TRUE] \in Request /\ Like([x EXCEPT !.orphaned = TRUE], x)
    BY DEF Request, Like
<1> QED BY <1>1 DEF Orphaned, Like

LEMMA GrownRequests ==
    ASSUME NEW r \in [Bets -> Request]
    PROVE  Grown(r) \in [Bets -> Request] /\ \A b \in Bets : Like(Grown(r)[b], r[b])
<1>1. ASSUME NEW x \in Request
      PROVE  [x EXCEPT !.grown = TRUE] \in Request /\ Like([x EXCEPT !.grown = TRUE], x)
    BY DEF Request, Like
<1> QED BY <1>1 DEF Grown, Like

LEMMA InitInvariant == Init => IInv
BY NewRequestOK DEF Init, IInv, TypeOK, LeftoversLastUntilBroadcast, Linked, Meetings, Snapshots, OwnBets, Gone,
    Greetings, Told, HasTold, OddsLackOnlyOverlaps, InFlight, NewRequest

-----------------------------------------------------------------------------
(* The types *)

LEMMA SocketTypes ==
    ASSUME TypeOK, NEW s \in Sockets, Connect(s) \/ GoAway(s) \/ Handle(s)
    PROVE  TypeOK' /\ Same(Bets) /\ placed' = placed
<1> USE DEF TypeOK
<1>1. CASE GoAway(s) \/ ReadDetails(s) \/ SendInitial(s)
    <2>1. UNCHANGED <<request, placed>>
        BY <1>1 DEF GoAway, ReadDetails, SendInitial
    <2>2. [odds |-> placed, met |-> InFlight] \in Message
        BY DEF Message, InFlight
    <2>3. TypeOK'
        BY <1>1, <2>1, <2>2 DEF GoAway, ReadDetails, SendInitial
    <2> QED BY <2>1, <2>3 DEF Same, Like
<1>2. CASE Connect(s) \/ Reject(s) \/ End(s)
    <2>1. /\ \/ request' = Grown(request) /\ connections' = connections \cup {s}
             \/ request' = Orphaned(request, connections') /\ connections' = connections \ {s}
             \/ request' = request /\ connections' = connections
          /\ placed' = placed
        BY <1>2 DEF Connect, Reject, End, Disconnect
    <2>2. request' \in [Bets -> Request] /\ Same(Bets)
        BY <2>1, OrphanedRequests, GrownRequests DEF Same, Like
    <2>3. \A b \in Bets : request'[b].pc = "send" => request'[b].members # {}
        BY <2>2 DEF Same, Like
    <2>4. TypeOK'
        BY <1>2, <2>1, <2>2, <2>3 DEF Connect, Reject, End
    <2> QED BY <2>1, <2>2, <2>4
<1> QED BY <1>1, <1>2 DEF Handle

(* The request of b, and how the others see it, after each of its steps. *)
LEMMA BeginBetEffect ==
    ASSUME TypeOK, Greetings, NEW b \in Bets, NEW o \in Options, BeginBet(b, o)
    PROVE  /\ TypeOK'
           /\ request'[b].pc = "write" /\ request'[b].odds = placed /\ request'[b].met = InFlight
           /\ request'[b].visited = {} /\ request'[b].failed = {} /\ request'[b].gone = {}
           /\ \A c \in Bets \ {b} :
                 /\ request'[c].pc = request[c].pc /\ request'[c].odds = request[c].odds
                 /\ request'[c].met = request[c].met \cup (IF c \in InFlight THEN {b} ELSE {})
                 /\ request'[c].members = request[c].members
                 /\ request'[c].visited = request[c].visited /\ request'[c].failed = request[c].failed
                 /\ request'[c].gone = request[c].gone /\ request'[c].grown = request[c].grown
           /\ InFlight' = InFlight \cup {b} /\ b \notin InFlight /\ request[b].pc = "new"
           /\ \A s \in Sockets : handler[s] = "greet" =>
                 /\ greeting'[s] \in Message
                 /\ greeting'[s].odds = greeting[s].odds
                 /\ greeting'[s].met = greeting[s].met \cup {b}
<1> DEFINE new == [NewRequest EXCEPT !.pc = "write", !.option = o, !.odds = placed, !.met = InFlight]
           meet(m) == [m EXCEPT !.met = @ \cup {b}]
<1>1. /\ new \in Request
      /\ new.pc = "write" /\ new.odds = placed /\ new.met = InFlight
      /\ new.visited = {} /\ new.failed = {} /\ new.gone = {}
    BY DEF NewRequest, Request, TypeOK, InFlight
<1>2. ASSUME NEW x \in Request
      PROVE  /\ meet(x) \in Request
             /\ meet(x).pc = x.pc /\ meet(x).odds = x.odds /\ meet(x).met = x.met \cup {b}
             /\ meet(x).members = x.members /\ meet(x).visited = x.visited /\ meet(x).failed = x.failed
             /\ meet(x).gone = x.gone /\ meet(x).grown = x.grown
    BY DEF Request
<1>3. ASSUME NEW m \in Message
      PROVE  meet(m) \in Message /\ meet(m).odds = m.odds /\ meet(m).met = m.met \cup {b}
    BY DEF Message
<1>4. /\ request[b].pc = "new"
      /\ request' = [c \in Bets |-> IF c = b THEN new
                                    ELSE IF c \in InFlight THEN meet(request[c]) ELSE request[c]]
      /\ greeting' = [s \in Sockets |-> IF handler[s] = "greet" THEN meet(greeting[s]) ELSE greeting[s]]
      /\ UNCHANGED <<connections, handler, connected, shown, placed>>
    BY DEF BeginBet
<1>5. \A c \in Bets : request[c] \in Request
    BY DEF TypeOK
<1>6. \A s \in Sockets : handler[s] = "greet" => greeting[s] \in Message
    BY DEF Greetings
<1> HIDE DEF new, meet
<1>7. \A c \in Bets \ {b} :
          /\ request'[c] \in Request
          /\ request'[c].pc = request[c].pc /\ request'[c].odds = request[c].odds
          /\ request'[c].met = request[c].met \cup (IF c \in InFlight THEN {b} ELSE {})
          /\ request'[c].members = request[c].members
          /\ request'[c].visited = request[c].visited /\ request'[c].failed = request[c].failed
          /\ request'[c].gone = request[c].gone /\ request'[c].grown = request[c].grown
    BY <1>2, <1>4, <1>5
<1>8. request'[b] = new
    BY <1>4
<1>9. request' \in [Bets -> Request]
    BY <1>1, <1>4, <1>7, <1>8
<1>10. InFlight' = InFlight \cup {b} /\ b \notin InFlight
    BY <1>1, <1>4, <1>7, <1>8 DEF InFlight
<1>11. \A s \in Sockets : greeting'[s] = IF handler[s] = "greet" THEN meet(greeting[s]) ELSE greeting[s]
    BY <1>4
<1>12. greeting' \in [Sockets -> Message \cup {NoMessage}]
    BY <1>3, <1>4, <1>6, <1>11 DEF TypeOK
<1>13. TypeOK'
    <2>1. \A c \in Bets : request'[c].pc = "send" => request'[c].members # {}
        BY <1>1, <1>7, <1>8 DEF TypeOK
    <2> QED BY <1>4, <1>9, <1>12, <2>1 DEF TypeOK
<1> QED BY <1>1, <1>3, <1>4, <1>6, <1>7, <1>8, <1>10, <1>11, <1>13

LEMMA WriteBetEffect ==
    ASSUME TypeOK, OwnBets, NEW b \in Bets, WriteBet(b)
    PROVE  /\ TypeOK' /\ Same(Bets \ {b}) /\ UNCHANGED <<sockets, placed>>
           /\ request[b].pc = "write"
           /\ request'[b].pc = IF connections = {} THEN "commit" ELSE "send"
           /\ request'[b].odds = request[b].odds \cup {b} /\ request'[b].met = request[b].met
           /\ request'[b].members = connections /\ request'[b].gone = connections \ connected
           /\ request'[b].visited = {} /\ request'[b].failed = {}
<1> DEFINE x == request[b]
           y == [x EXCEPT !.pc = IF connections = {} THEN "commit" ELSE "send",
                          !.odds = @ \cup {b}, !.members = connections, !.gone = connections \ connected]
<1>1. x \in Request /\ x.pc = "write" /\ x.visited = {} /\ x.failed = {} /\ connections \subseteq Sockets
    BY DEF TypeOK, WriteBet, OwnBets
<1>2. request' = [request EXCEPT ![b] = y] /\ UNCHANGED <<sockets, placed>>
    BY DEF WriteBet, TypeOK
<1> HIDE DEF x
<1>3. /\ y \in Request
      /\ y.pc = IF connections = {} THEN "commit" ELSE "send"
      /\ y.odds = x.odds \cup {b} /\ y.met = x.met
      /\ y.members = connections /\ y.gone = connections \ connected
      /\ y.visited = {} /\ y.failed = {}
    BY <1>1 DEF Request
<1> HIDE DEF y
<1>4. request'[b] = y /\ (\A c \in Bets \ {b} : request'[c] = request[c]) /\ request' \in [Bets -> Request]
    BY <1>2, <1>3 DEF TypeOK
<1>5. TypeOK'
    BY <1>2, <1>3, <1>4 DEF TypeOK, sockets
<1> QED BY <1>1, <1>2, <1>3, <1>4, <1>5 DEF Same, Like, x

LEMMA SendEffect ==
    ASSUME TypeOK, NEW b \in Bets, NEW s \in Sockets, Send(b, s)
    PROVE  LET r == request[b] IN
           /\ TypeOK' /\ Same(Bets \ {b})
           /\ UNCHANGED <<connections, handler, connected, greeting, placed>>
           /\ s \in connections
           /\ request'[b].pc = "send" /\ request[b].pc = "send"
           /\ request'[b].odds = r.odds /\ request'[b].met = r.met /\ request'[b].members = r.members
           /\ request'[b].gone = r.gone /\ request'[b].grown = r.grown
           /\ request'[b].visited = r.visited \cup {s}
           /\ request'[b].failed = r.failed \cup (IF s \in connected THEN {} ELSE {s})
           /\ \A t \in Sockets : IF t = s /\ s \in connected
                                 THEN shown'[t].odds = r.odds /\ shown'[t].met = r.met
                                 ELSE shown'[t] = shown[t]
<1> DEFINE x == request[b]
           y == [x EXCEPT !.visited = @ \cup {s}]
           z == [x EXCEPT !.visited = @ \cup {s}, !.failed = @ \cup {s}]
           m == [odds |-> x.odds, met |-> x.met]
<1>1. x \in Request /\ x.pc = "send" /\ s \in connections /\ x.members # {}
    BY DEF TypeOK, Send, IsNext
<1>2. UNCHANGED <<connections, handler, connected, greeting, placed>>
    BY DEF Send
<1>3. /\ s \in connected => /\ shown' = [shown EXCEPT ![s] = m]
                            /\ request' = [request EXCEPT ![b] = y]
      /\ s \notin connected => /\ shown' = shown
                               /\ request' = [request EXCEPT ![b] = z]
    BY DEF Send, TypeOK
<1> HIDE DEF x
<1>4. y \in Request /\ z \in Request /\ m \in Message
    BY <1>1 DEF Request, Message
<1>5. /\ Like([y EXCEPT !.visited = x.visited], x) /\ y.visited = x.visited \cup {s}
      /\ Like([z EXCEPT !.visited = x.visited, !.failed = x.failed], x)
      /\ z.visited = x.visited \cup {s} /\ z.failed = x.failed \cup {s}
      /\ y.pc = "send" /\ z.pc = "send" /\ y.odds = x.odds /\ z.odds = x.odds /\ y.met = x.met /\ z.met = x.met
      /\ y.members = x.members /\ z.members = x.members /\ y.failed = x.failed
      /\ y.gone = x.gone /\ z.gone = x.gone /\ y.grown = x.grown /\ z.grown = x.grown
    BY <1>1 DEF Request, Like
<1>6. m.odds = x.odds /\ m.met = x.met
    OBVIOUS
<1> HIDE DEF y, z, m
<1>7. /\ request'[b] = IF s \in connected THEN y ELSE z
      /\ \A c \in Bets \ {b} : request'[c] = request[c]
      /\ request' \in [Bets -> Request]
      /\ shown' \in [Sockets -> Message \cup {NoMessage}]
      /\ \A t \in Sockets : shown'[t] = IF t = s /\ s \in connected THEN m ELSE shown[t]
    BY <1>3, <1>4 DEF TypeOK
<1>8. TypeOK'
    <2>1. \A c \in Bets : request'[c].pc = "send" => request'[c].members # {}
        BY <1>1, <1>5, <1>7 DEF TypeOK
    <2> QED BY <1>2, <1>7, <2>1 DEF TypeOK
<1> QED BY <1>1, <1>2, <1>5, <1>6, <1>7, <1>8 DEF Same, Like, x

LEMMA FinishEffect ==
    ASSUME TypeOK, NEW b \in Bets, Finish(b)
    PROVE  LET r == request[b] IN
           /\ TypeOK' /\ Same(Bets \ {b})
           /\ UNCHANGED <<handler, connected, greeting, shown, placed>>
           /\ connections' = connections \ r.failed
           /\ r.pc = "send" /\ (r.members \cap connections \subseteq r.visited \/ r.grown)
           /\ request'[b].pc = "commit"
           /\ request'[b].odds = r.odds /\ request'[b].met = r.met
           /\ request'[b].members = r.members /\ request'[b].failed = r.failed /\ request'[b].gone = r.gone
           /\ r.grown => request'[b].grown
<1> DEFINE x == request[b]
           y == [x EXCEPT !.pc = "commit"]
           q == [request EXCEPT ![b] = y]
<1>1. /\ x \in Request /\ x.pc = "send" /\ (x.members \cap connections \subseteq x.visited \/ x.grown)
      /\ connections' = connections \ x.failed
      /\ UNCHANGED <<handler, connected, greeting, shown, placed>>
      /\ request' = Orphaned(q, connections')
    BY DEF TypeOK, Finish, Disconnect
<1>2. /\ y \in Request /\ y.pc = "commit" /\ y.odds = x.odds /\ y.met = x.met
      /\ y.members = x.members /\ y.visited = x.visited /\ y.failed = x.failed
      /\ y.gone = x.gone /\ y.grown = x.grown
    <2> HIDE DEF x
    <2> QED BY <1>1 DEF Request
<1> HIDE DEF y
<1>3. q \in [Bets -> Request] /\ q[b] = y /\ \A c \in Bets \ {b} : q[c] = request[c]
    BY <1>2 DEF TypeOK
<1>4. request' \in [Bets -> Request] /\ \A c \in Bets : Like(request'[c], q[c])
    BY <1>1, <1>3, OrphanedRequests
<1>5. TypeOK'
    <2>1. \A c \in Bets : request'[c].pc = "send" => request'[c].members # {}
        BY <1>2, <1>3, <1>4 DEF TypeOK, Like
    <2> QED BY <1>1, <1>4, <2>1 DEF TypeOK
<1>6. Same(Bets \ {b}) /\ Like(request'[b], y)
    BY <1>3, <1>4 DEF Same
<1> QED BY <1>1, <1>2, <1>5, <1>6 DEF Like

LEMMA EndBetEffect ==
    ASSUME TypeOK, NEW b \in Bets, CommitBet(b) \/ Raise(b) \/ FailBet(b)
    PROVE  /\ TypeOK' /\ Same(Bets \ {b}) /\ UNCHANGED sockets
           /\ placed' = placed \/ (request[b].pc = "commit" /\ placed' = placed \cup {b})
           /\ request'[b].pc \in {"done", "failed"}
           /\ request'[b].visited = {} /\ request'[b].failed = {} /\ request'[b].gone = {}
           /\ request[b].pc \in {"write", "send", "commit"}
           /\ placed' # placed => request'[b].pc = "done" /\ request'[b].grown = request[b].grown
<1> DEFINE done == [Ended("done") EXCEPT !.grown = request[b].grown]
<1>1. PICK e \in {done, Ended("failed")} : /\ request' = [request EXCEPT ![b] = e]
                                           /\ placed' # placed => e = done
    <2>1. CASE CommitBet(b)
        BY <2>1 DEF CommitBet
    <2>2. CASE Raise(b) \/ FailBet(b)
        BY <2>2 DEF Raise, FailBet
    <2> QED BY <2>1, <2>2
<1>2. /\ UNCHANGED sockets
      /\ placed' = placed \/ (request[b].pc = "commit" /\ placed' = placed \cup {b})
    <2>1. CASE CommitBet(b)
        BY <2>1 DEF CommitBet
    <2>2. CASE Raise(b) \/ FailBet(b)
        BY <2>2 DEF Raise, FailBet
    <2> QED BY <2>1, <2>2
<1>3. /\ e \in Request /\ e.pc \in {"done", "failed"}
      /\ e.visited = {} /\ e.failed = {} /\ e.gone = {}
      /\ e = done => e.pc = "done" /\ e.grown = request[b].grown
    <2>1. request[b].grown \in BOOLEAN
        BY DEF TypeOK, Request
    <2> QED BY <2>1 DEF Ended, NewRequest, Request
<1> HIDE DEF done
<1>4. /\ request'[b] = e /\ \A c \in Bets \ {b} : request'[c] = request[c]
      /\ request' \in [Bets -> Request]
    BY <1>1, <1>3 DEF TypeOK
<1>5. TypeOK'
    BY <1>2, <1>3, <1>4 DEF TypeOK, sockets
<1>6. request[b].pc \in {"write", "send", "commit"}
    BY DEF CommitBet, Raise, FailBet
<1> QED BY <1>1, <1>2, <1>3, <1>4, <1>5, <1>6 DEF Same, Like

-----------------------------------------------------------------------------
(* The invariant *)

LEMMA SocketStepsKeep ==
    ASSUME IInv, NEW s \in Sockets, Connect(s) \/ GoAway(s) \/ Handle(s)
    PROVE  IInv'
<1> USE DEF IInv
<1>1. TypeOK' /\ TypeOK /\ Same(Bets) /\ placed' = placed
    BY SocketTypes
<1>2. \A b \in Bets : Like(request'[b], request[b])
    BY <1>1 DEF Same
<1>3. InFlight' = InFlight
    BY <1>2 DEF InFlight, Like
<1>4. Meetings' /\ Snapshots' /\ OwnBets'
    BY <1>1, <1>2, <1>3 DEF Meetings, Snapshots, OwnBets, Like, InFlight
<1>5. \A t \in Sockets \ {s} : /\ handler'[t] = handler[t]
                               /\ t \in connected' <=> t \in connected
                               /\ t \in connections' <=> t \in connections
                               /\ greeting'[t] = greeting[t] /\ shown'[t] = shown[t]
    BY DEF TypeOK, Connect, GoAway, Handle, ReadDetails, SendInitial, Reject, End, Disconnect
<1>6. \/ handler[s] = "off" /\ handler'[s] = "validate" /\ s \in connections' /\ s \in connected'
      \/ /\ handler'[s] = handler[s]
         /\ s \in connections' <=> s \in connections
         /\ s \notin connected' /\ greeting'[s] = greeting[s]
      \/ /\ handler[s] = "validate" /\ handler'[s] = "greet"
         /\ s \in connections' <=> s \in connections
         /\ s \in connected' <=> s \in connected
         /\ greeting'[s] = [odds |-> placed, met |-> InFlight]
      \/ /\ handler[s] = "greet" /\ handler'[s] = "receive"
         /\ s \in connections' <=> s \in connections
         /\ s \in connected' <=> s \in connected
         /\ shown'[s] = greeting[s]
      \/ handler'[s] = "closed" /\ s \notin connections' /\ s \notin connected' /\ handler[s] # "off"
      \/ /\ handler[s] = "validate" /\ handler'[s] = "raised"
         /\ s \in connections' <=> s \in connections
         /\ s \notin connected /\ s \notin connected'
    BY DEF TypeOK, Connect, GoAway, Handle, ReadDetails, SendInitial, Reject, End, Disconnect
<1>7. LeftoversLastUntilBroadcast'
    <2>1. \A t \in connections' :
              handler'[t] \in {"validate", "greet", "receive"} \/ (handler'[t] = "raised" /\ t \notin connected')
        BY <1>1, <1>5, <1>6 DEF LeftoversLastUntilBroadcast, TypeOK
    <2>2. ASSUME NEW b \in Bets, request'[b].pc = "commit", ~request'[b].grown,
                 NEW t \in request'[b].gone \cap connections'
          PROVE  FALSE
        <3>1. /\ request[b].pc = "commit" /\ ~request[b].grown /\ t \in request[b].gone
              /\ handler[t] # "off" /\ t \in Sockets
            BY <1>1, <1>2, <2>2 DEF Like, Gone, TypeOK, Request
        <3>2. t \in connections
            BY <1>5, <1>6, <2>2, <3>1
        <3> QED BY <3>1, <3>2 DEF LeftoversLastUntilBroadcast
    <2> QED BY <2>1, <2>2 DEF LeftoversLastUntilBroadcast
<1>8. Linked' /\ Gone'
    BY <1>1, <1>2, <1>5, <1>6 DEF Linked, Gone, Like, TypeOK, Request
<1>9. Greetings'
    <2>1. [odds |-> placed, met |-> InFlight] \in Message
        BY DEF Message, InFlight, TypeOK
    <2> QED BY <1>1, <1>3, <1>5, <1>6, <2>1 DEF Greetings
<1>10. Told'
    <2> SUFFICES ASSUME NEW b \in Bets, NEW t \in connected', handler'[t] = "receive", HasTold(b, t)'
                 PROVE  Knows(t, b)'
        BY DEF Told
    <2>1. HasTold(b, t) /\ b \in InFlight
        BY <1>2 DEF HasTold, Like, InFlight
    <2>2. CASE t # s
        BY <1>1, <1>5, <2>1, <2>2 DEF Told, Knows, TypeOK
    <2>3. CASE t = s
        <3>1. handler[s] = "greet" /\ shown'[s] = greeting[s]
            BY <1>6, <2>3
        <3> QED BY <2>1, <2>3, <3>1 DEF Greetings, Knows
    <2> QED BY <2>2, <2>3
<1>11. OddsLackOnlyOverlaps'
    <2> SUFFICES ASSUME NEW t \in connected', handler'[t] = "receive",
                        NEW b \in placed' \ (shown'[t].odds \cup shown'[t].met)
                 PROVE  request'[b].grown
        BY DEF OddsLackOnlyOverlaps
    <2>1. CASE t # s
        <3>1. request[b].grown
            BY <1>1, <1>5, <2>1 DEF OddsLackOnlyOverlaps, TypeOK
        <3> QED BY <1>1, <1>2, <3>1 DEF Like, TypeOK
    <2>2. CASE t = s
        <3>1. handler[s] = "greet" /\ shown'[s] = greeting[s]
            BY <1>6, <2>2
        <3> QED BY <1>1, <2>2, <3>1 DEF Greetings
    <2> QED BY <2>1, <2>2
<1> QED BY <1>1, <1>4, <1>7, <1>8, <1>9, <1>10, <1>11

LEMMA BeginBetKeeps ==
    ASSUME IInv, NEW b \in Bets, NEW o \in Options, BeginBet(b, o)
    PROVE  IInv'
<1> USE DEF IInv
<1>1. UNCHANGED <<connections, handler, connected, shown, placed>>
    BY DEF BeginBet
<1>2. TypeOK'
    BY BeginBetEffect
<1>3. /\ request'[b].pc = "write" /\ request'[b].odds = placed /\ request'[b].met = InFlight
      /\ request'[b].visited = {} /\ request'[b].failed = {} /\ request'[b].gone = {}
      /\ InFlight' = InFlight \cup {b} /\ b \notin InFlight /\ request[b].pc = "new"
    BY BeginBetEffect
<1>4. \A c \in Bets \ {b} :
          /\ request'[c].pc = request[c].pc /\ request'[c].odds = request[c].odds
          /\ request'[c].met = request[c].met \cup (IF c \in InFlight THEN {b} ELSE {})
          /\ request'[c].members = request[c].members
          /\ request'[c].visited = request[c].visited /\ request'[c].failed = request[c].failed
          /\ request'[c].gone = request[c].gone /\ request'[c].grown = request[c].grown
    BY BeginBetEffect
<1>5. \A s \in Sockets : handler[s] = "greet" =>
          /\ greeting'[s] \in Message
          /\ greeting'[s].odds = greeting[s].odds
          /\ greeting'[s].met = greeting[s].met \cup {b}
    BY BeginBetEffect
<1>6. LeftoversLastUntilBroadcast' /\ OddsLackOnlyOverlaps'
    <2>1. LeftoversLastUntilBroadcast'
        BY <1>1, <1>3, <1>4 DEF LeftoversLastUntilBroadcast
    <2>2. b \notin placed
        BY <1>3 DEF OwnBets
    <2> QED BY <1>1, <1>4, <2>1, <2>2 DEF OddsLackOnlyOverlaps, TypeOK
<1>7. Linked' /\ OwnBets' /\ Gone'
    <2>1. b \notin placed
        BY <1>3 DEF OwnBets
    <2> QED BY <1>1, <1>3, <1>4, <2>1 DEF Linked, OwnBets, Gone
<1>8. Meetings'
    <2>1. \A c \in InFlight : c \in Bets
        BY DEF InFlight
    <2> QED BY <1>3, <1>4, <2>1 DEF Meetings
<1>9. Snapshots'
    <2>1. \A c \in InFlight : c \in Bets
        BY DEF InFlight
    <2> QED BY <1>1, <1>3, <1>4, <2>1 DEF Snapshots
<1>10. Greetings'
    BY <1>1, <1>3, <1>5 DEF Greetings
<1>11. Told'
    <2>1. \A s \in connected : ~HasTold(b, s)'
        BY <1>3 DEF HasTold
    <2>2. \A c \in Bets \ {b} : \A s \in connected : HasTold(c, s)' => HasTold(c, s)
        BY <1>4 DEF HasTold
    <2> QED BY <1>1, <2>1, <2>2 DEF Told, Knows
<1> QED BY <1>2, <1>6, <1>7, <1>8, <1>9, <1>10, <1>11

LEMMA WriteBetKeeps ==
    ASSUME IInv, NEW b \in Bets, WriteBet(b)
    PROVE  IInv'
<1> USE DEF IInv
<1>1. TypeOK' /\ UNCHANGED <<connections, handler, connected, greeting, shown, placed>>
    BY WriteBetEffect DEF sockets
<1>2. /\ request[b].pc = "write"
      /\ request'[b].pc = IF connections = {} THEN "commit" ELSE "send"
      /\ request'[b].odds = request[b].odds \cup {b} /\ request'[b].met = request[b].met
      /\ request'[b].members = connections /\ request'[b].gone = connections \ connected
      /\ request'[b].visited = {} /\ request'[b].failed = {}
    BY WriteBetEffect
<1>3. \A c \in Bets \ {b} : Like(request'[c], request[c])
    BY WriteBetEffect DEF Same
<1>4. InFlight' = InFlight
    BY <1>2, <1>3 DEF InFlight, Like
<1>5. LeftoversLastUntilBroadcast' /\ OddsLackOnlyOverlaps' /\ Greetings'
    <2>1. LeftoversLastUntilBroadcast'
        BY <1>1, <1>2, <1>3 DEF LeftoversLastUntilBroadcast, Like
    <2>2. b \notin placed
        BY <1>2 DEF OwnBets
    <2> QED BY <1>1, <1>3, <1>4, <2>1, <2>2 DEF OddsLackOnlyOverlaps, Greetings, Like, TypeOK
<1>6. Linked' /\ OwnBets' /\ Gone'
    <2>1. \A s \in connections : handler[s] # "off"
        BY DEF LeftoversLastUntilBroadcast
    <2>2. b \notin placed
        BY <1>2 DEF OwnBets
    <2> QED BY <1>1, <1>2, <1>3, <2>1, <2>2 DEF Linked, OwnBets, Gone, Like
<1>7. Meetings' /\ Snapshots'
    BY <1>1, <1>2, <1>3, <1>4 DEF Meetings, Snapshots, Like, InFlight
<1>8. Told'
    <2>1. \A s \in connected : ~HasTold(b, s)'
        BY <1>2 DEF HasTold, Linked
    <2>2. \A c \in Bets \ {b} : \A s \in connected : HasTold(c, s)' => HasTold(c, s)
        BY <1>3 DEF HasTold, Like
    <2> QED BY <1>1, <2>1, <2>2 DEF Told, Knows
<1> QED BY <1>1, <1>5, <1>6, <1>7, <1>8

LEMMA SendKeeps ==
    ASSUME IInv, NEW b \in Bets, NEW s \in Sockets, Send(b, s)
    PROVE  IInv'
<1> USE DEF IInv
<1>1. TypeOK' /\ UNCHANGED <<connections, handler, connected, greeting, placed>>
    BY SendEffect
<1>2. /\ request[b].pc = "send" /\ request'[b].pc = "send" /\ s \in connections
      /\ request'[b].odds = request[b].odds /\ request'[b].met = request[b].met
      /\ request'[b].members = request[b].members
      /\ request'[b].visited = request[b].visited \cup {s}
      /\ request'[b].failed = request[b].failed \cup (IF s \in connected THEN {} ELSE {s})
      /\ request'[b].gone = request[b].gone /\ request'[b].grown = request[b].grown
    BY SendEffect
<1>3. \A t \in Sockets : IF t = s /\ s \in connected
                         THEN shown'[t].odds = request[b].odds /\ shown'[t].met = request[b].met
                         ELSE shown'[t] = shown[t]
    BY SendEffect
<1>4. \A c \in Bets \ {b} : Like(request'[c], request[c])
    BY SendEffect DEF Same
<1>5. InFlight' = InFlight /\ b \in InFlight
    BY <1>2, <1>4 DEF InFlight, Like
<1>6. LeftoversLastUntilBroadcast' /\ Greetings'
    BY <1>1, <1>2, <1>4, <1>5 DEF LeftoversLastUntilBroadcast, Greetings, Like
<1>7. Linked' /\ OwnBets' /\ Gone'
    <2>1. handler[s] # "off"
        BY <1>2 DEF LeftoversLastUntilBroadcast
    <2>2. b \notin placed
        BY <1>2 DEF OwnBets
    <2> QED BY <1>1, <1>2, <1>4, <2>1, <2>2 DEF Linked, OwnBets, Gone, Like
<1>8. Meetings' /\ Snapshots'
    BY <1>1, <1>2, <1>4, <1>5 DEF Meetings, Snapshots, Like, InFlight
<1>9. Told'
    <2> SUFFICES ASSUME NEW c \in Bets, NEW t \in connected, handler[t] = "receive", HasTold(c, t)'
                 PROVE  Knows(t, c)'
        BY <1>1 DEF Told
    <2>1. t \in Sockets
        BY DEF TypeOK
    <2>2. CASE t = s
        <3>1. shown'[t].odds = request[b].odds /\ shown'[t].met = request[b].met
            BY <1>3, <2>1, <2>2
        <3>2. c = b \/ c \in request[b].met
            <4>1. c \in InFlight
                BY <1>2, <1>4 DEF HasTold, Like, InFlight
            <4> QED BY <1>5, <4>1 DEF Meetings
        <3> QED BY <1>2, <3>1, <3>2 DEF Knows, OwnBets
    <2>3. CASE t # s
        <3>1. shown'[t] = shown[t]
            BY <1>3, <2>1, <2>3
        <3>2. HasTold(c, t)
            BY <1>2, <1>4, <2>3 DEF HasTold, Like
        <3> QED BY <3>1, <3>2 DEF Told, Knows
    <2> QED BY <2>2, <2>3
<1>10. OddsLackOnlyOverlaps'
    <2> SUFFICES ASSUME NEW t \in connected, handler[t] = "receive",
                        NEW c \in placed \ (shown'[t].odds \cup shown'[t].met)
                 PROVE  request'[c].grown
        BY <1>1 DEF OddsLackOnlyOverlaps
    <2>1. t \in Sockets /\ c \in Bets
        BY DEF TypeOK
    <2>2. t # s
        BY <1>3, <1>5, <2>1 DEF Snapshots
    <2>3. request[c].grown
        BY <1>3, <2>1, <2>2 DEF OddsLackOnlyOverlaps
    <2> QED BY <1>2, <1>4, <2>1, <2>3 DEF Like
<1> QED BY <1>1, <1>6, <1>7, <1>8, <1>9, <1>10

LEMMA FinishKeeps ==
    ASSUME IInv, NEW b \in Bets, Finish(b)
    PROVE  IInv'
<1> USE DEF IInv
<1>1. TypeOK' /\ UNCHANGED <<handler, connected, greeting, shown, placed>>
    BY FinishEffect
<1>2. /\ connections' = connections \ request[b].failed
      /\ request[b].pc = "send"
      /\ request[b].members \cap connections \subseteq request[b].visited \/ request[b].grown
      /\ request'[b].pc = "commit" /\ request'[b].members = request[b].members
      /\ request'[b].odds = request[b].odds /\ request'[b].met = request[b].met
      /\ request'[b].failed = request[b].failed /\ request'[b].gone = request[b].gone
      /\ request[b].grown => request'[b].grown
    BY FinishEffect
<1>3. \A c \in Bets \ {b} : Like(request'[c], request[c])
    BY FinishEffect DEF Same
<1>4. InFlight' = InFlight
    BY <1>2, <1>3 DEF InFlight, Like
<1>5. LeftoversLastUntilBroadcast' /\ OddsLackOnlyOverlaps' /\ Greetings'
    <2>1. ~request'[b].grown => request'[b].gone \cap connections' = {}
        BY <1>2 DEF Gone
    <2>2. LeftoversLastUntilBroadcast'
        BY <1>1, <1>2, <1>3, <2>1 DEF LeftoversLastUntilBroadcast, Like
    <2>3. \A c \in Bets : request[c].grown => request'[c].grown
        BY <1>2, <1>3 DEF Like
    <2> QED BY <1>1, <1>4, <2>2, <2>3 DEF OddsLackOnlyOverlaps, Greetings, TypeOK
<1>6. Linked' /\ OwnBets' /\ Gone'
    <2>1. b \notin placed
        BY <1>2 DEF OwnBets
    <2> QED BY <1>1, <1>2, <1>3, <2>1 DEF Linked, OwnBets, Gone, Like
<1>7. Meetings' /\ Snapshots'
    BY <1>1, <1>2, <1>3, <1>4 DEF Meetings, Snapshots, Like, InFlight
<1>8. Told'
    <2>1. \A s \in connected : HasTold(b, s)' => HasTold(b, s)
        BY <1>2 DEF HasTold, Linked
    <2>2. \A c \in Bets \ {b} : \A s \in connected : HasTold(c, s)' => HasTold(c, s)
        BY <1>3 DEF HasTold, Like
    <2> QED BY <1>1, <2>1, <2>2 DEF Told, Knows
<1> QED BY <1>1, <1>5, <1>6, <1>7, <1>8

LEMMA EndBetKeeps ==
    ASSUME IInv, NEW b \in Bets, CommitBet(b) \/ Raise(b) \/ FailBet(b)
    PROVE  IInv'
<1> USE DEF IInv
<1>1. TypeOK' /\ UNCHANGED <<connections, handler, connected, greeting, shown>>
    BY EndBetEffect DEF sockets
<1>2. /\ placed' = placed \/ (request[b].pc = "commit" /\ placed' = placed \cup {b})
      /\ request'[b].pc \in {"done", "failed"}
      /\ request'[b].visited = {} /\ request'[b].failed = {} /\ request'[b].gone = {}
      /\ request[b].pc \in {"write", "send", "commit"}
      /\ placed' # placed => request'[b].pc = "done" /\ request'[b].grown = request[b].grown
    BY EndBetEffect
<1>3. \A c \in Bets \ {b} : Like(request'[c], request[c])
    BY EndBetEffect DEF Same
<1>4. InFlight' = InFlight \ {b} /\ (request[b].pc = "commit" => b \in InFlight)
    BY <1>2, <1>3 DEF InFlight, Like
<1>5. LeftoversLastUntilBroadcast' /\ Linked' /\ OwnBets' /\ Gone'
    <2>1. LeftoversLastUntilBroadcast' /\ Linked' /\ Gone'
        BY <1>1, <1>2, <1>3 DEF LeftoversLastUntilBroadcast, Linked, Gone, Like
    <2>2. b \notin placed
        BY <1>2 DEF OwnBets
    <2> QED BY <1>2, <1>3, <2>1, <2>2 DEF OwnBets, Like
<1>6. Greetings'
    BY <1>1, <1>2, <1>4 DEF Greetings
<1>7. Meetings' /\ Snapshots'
    <2>1. \A c \in InFlight' : /\ c \in InFlight
                               /\ request'[c].odds = request[c].odds /\ request'[c].met = request[c].met
        BY <1>3, <1>4 DEF InFlight, Like
    <2>2. Meetings'
        BY <1>4, <2>1 DEF Meetings
    <2>3. Snapshots'
        BY <1>2, <1>4, <2>1 DEF Snapshots, Meetings
    <2> QED BY <2>2, <2>3
<1>8. Told'
    <2>1. \A s \in connected : ~HasTold(b, s)'
        BY <1>2 DEF HasTold
    <2>2. \A c \in Bets \ {b} : \A s \in connected : HasTold(c, s)' => HasTold(c, s)
        BY <1>3 DEF HasTold, Like
    <2> QED BY <1>1, <2>1, <2>2 DEF Told, Knows
<1>9. OddsLackOnlyOverlaps'
    <2> SUFFICES ASSUME NEW s \in connected, handler[s] = "receive",
                        NEW c \in placed' \ (shown[s].odds \cup shown[s].met)
                 PROVE  request'[c].grown
        BY <1>1 DEF OddsLackOnlyOverlaps
    <2>1. CASE c \in placed
        <3>1. c # b /\ request[c].grown
            BY <1>2, <2>1 DEF OwnBets, OddsLackOnlyOverlaps
        <3> QED BY <1>3, <2>1, <3>1 DEF Like, TypeOK
    <2>2. CASE c \notin placed
        <3>1. c = b /\ request[b].pc = "commit" /\ request'[b].grown = request[b].grown
            BY <1>2, <2>2
        <3> QED BY <3>1 DEF Told, HasTold, Knows
    <2> QED BY <2>1, <2>2
<1> QED BY <1>1, <1>5, <1>6, <1>7, <1>8, <1>9

LEMMA NextInvariant == IInv /\ [Next]_vars => IInv'
<1> SUFFICES ASSUME IInv, [Next]_vars PROVE IInv'
    OBVIOUS
<1>1. ASSUME NEW s \in Sockets, Connect(s) \/ GoAway(s) \/ Handle(s) PROVE IInv'
    BY <1>1, SocketStepsKeep
<1>2. ASSUME NEW b \in Bets, Place(b) PROVE IInv'
    BY <1>2, WriteBetKeeps, SendKeeps, FinishKeeps, EndBetKeeps DEF Place, Broadcast
<1>3. ASSUME NEW b \in Bets, NEW o \in Options, BeginBet(b, o) PROVE IInv'
    BY <1>3, BeginBetKeeps
<1>4. CASE UNCHANGED vars
    BY <1>4 DEF vars, sockets, IInv, TypeOK, LeftoversLastUntilBroadcast, Linked, Meetings, Snapshots, OwnBets, Gone,
        Greetings, Told, HasTold, Knows, OddsLackOnlyOverlaps, InFlight
<1> QED BY <1>1, <1>2, <1>3, <1>4 DEF Next

-----------------------------------------------------------------------------
THEOREM Invariance == Spec => []IInv
<1> QED BY InitInvariant, NextInvariant, PTL DEF Spec

(* Every set, message and request has its type, and no broadcast iterates   *)
(* an empty set (broadcast_to_event returns at once where the key is absent). *)
THEOREM TypeCorrect == Spec => []TypeOK
<1>1. IInv => TypeOK
    BY DEF IInv
<1> QED BY <1>1, Invariance, PTL

(* A socket may outlast its handler in active_connections, for              *)
(* websocket_endpoint awaits close before it disconnects; but its client    *)
(* has gone, and no broadcast to a set that nobody joins meanwhile leaves   *)
(* behind a socket whose client had gone when it began, whatever handlers   *)
(* and other broadcasts take out of the set in between.                     *)
THEOREM Leftovers == Spec => []LeftoversLastUntilBroadcast
<1>1. IInv => LeftoversLastUntilBroadcast
    BY DEF IInv
<1> QED BY <1>1, Invariance, PTL

(* However broadcasts, greetings and disconnections interleave, the odds of *)
(* a subscriber lack a committed bet only if its request overlapped the     *)
(* request or greeting that sent those odds, or a socket joined the set     *)
(* during its own broadcast.                                                *)
THEOREM Overlaps == Spec => []OddsLackOnlyOverlaps
<1>1. IInv => OddsLackOnlyOverlaps
    BY DEF IInv
<1> QED BY <1>1, Invariance, PTL
=============================================================================
