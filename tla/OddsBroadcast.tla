--------------------------- MODULE OddsBroadcast ---------------------------
(***************************************************************************)
(* The odds of one event on the web sockets of its subscribers:             *)
(* ConnectionManager, the socket's handler, and create_bet's router, which  *)
(* sends the new odds to every subscriber before the bet is committed.      *)
(*                                                                         *)
(* The odds are a function of the bets counted in the options' statistics,  *)
(* so that a message holds that set of bets: what the sender's snapshot     *)
(* saw and, in a broadcast, its own bet.  The checks of create_bet and its  *)
(* other writes are in Betting.                                             *)
(***************************************************************************)
EXTENDS FiniteSets

CONSTANTS
    Sockets,        \* connections that clients may open, each once
    Bets,           \* requests that place a bet on the event
    Options,
    NoOption, NoMessage

ASSUME BroadcastAssumption ==
    /\ IsFiniteSet(Sockets)
    /\ NoOption \notin Options

VARIABLES
    connections,    \* active_connections[event_id], {} when the key is absent
    handler,        \* where each socket's handler is
    connected,      \* the sockets whose client is still there
    greeting,       \* the initial data each handler has read
    shown,          \* the last message each client has received
    placed,         \* the committed bets
    request         \* the request of each bet

sockets == <<connections, handler, connected, greeting, shown>>
vars == <<sockets, placed, request>>

-----------------------------------------------------------------------------
(* met is for the properties only: the bets whose requests have been in     *)
(* flight since the snapshot of the message was taken.                      *)
Message == [odds : SUBSET Bets, met : SUBSET Bets]

(* The request and, in members, visited and failed, its iteration of        *)
(* the set of connections.  The set is orphaned when its last member leaves *)
(* and the key is deleted: later subscribers are in another set.  It has    *)
(* grown if anybody joined it since.  gone is for the properties only: the  *)
(* members whose client had left when the iteration began.                  *)
Request == [pc : {"new", "write", "send", "commit", "done", "failed"},
            option : Options \cup {NoOption}, odds : SUBSET Bets, met : SUBSET Bets,
            members : SUBSET Sockets, visited : SUBSET Sockets, failed : SUBSET Sockets,
            orphaned : BOOLEAN, grown : BOOLEAN, gone : SUBSET Sockets]

NewRequest == [pc |-> "new", option |-> NoOption, odds |-> {}, met |-> {},
               members |-> {}, visited |-> {}, failed |-> {},
               orphaned |-> FALSE, grown |-> FALSE, gone |-> {}]

(* A request that has ended keeps nothing (but what CommitBet says). *)
Ended(pc) == [NewRequest EXCEPT !.pc = pc]

(* The key of an empty set is deleted: whatever is iterated has members. *)
TypeOK ==
    /\ connections \subseteq Sockets
    /\ handler \in [Sockets -> {"off", "validate", "greet", "receive", "closed", "raised"}]
    /\ connected \subseteq Sockets
    /\ greeting \in [Sockets -> Message \cup {NoMessage}]
    /\ shown \in [Sockets -> Message \cup {NoMessage}]
    /\ placed \subseteq Bets
    /\ request \in [Bets -> Request]
    /\ \A b \in Bets : request[b].pc = "send" => request[b].members # {}

InFlight == {b \in Bets : request[b].pc \in {"write", "send", "commit"}}

-----------------------------------------------------------------------------
(* ConnectionManager *)

(* Iterations of a set that has lost its last member. *)
Orphaned(r, members) ==
    IF members # {} THEN r
    ELSE [b \in Bets |-> IF r[b].pc = "send" THEN [r[b] EXCEPT !.orphaned = TRUE] ELSE r[b]]

(* disconnect, for one socket or several in a row *)
Disconnect(S, r) ==
    /\ connections' = connections \ S
    /\ request' = Orphaned(r, connections')

(* Iterations of a set that gets another member. *)
Grown(r) == [b \in Bets |-> IF r[b].pc = "send" THEN [r[b] EXCEPT !.grown = TRUE] ELSE r[b]]

(* connect.  An accept that fails leaves no trace. *)
Connect(s) ==
    /\ handler[s] = "off"
    /\ connections' = connections \cup {s}
    /\ handler' = [handler EXCEPT ![s] = "validate"]
    /\ connected' = connected \cup {s}
    /\ request' = Grown(request)
    /\ UNCHANGED <<greeting, shown, placed>>

(* The client goes away; the server has yet to notice. *)
GoAway(s) ==
    /\ s \in connected
    /\ connected' = connected \ {s}
    /\ UNCHANGED <<connections, handler, greeting, shown, placed, request>>

-----------------------------------------------------------------------------
(* websocket_endpoint *)

ReadDetails(s) ==
    /\ handler[s] = "validate"
    /\ handler' = [handler EXCEPT ![s] = "greet"]
    /\ greeting' = [greeting EXCEPT ![s] = [odds |-> placed, met |-> InFlight]]
    /\ UNCHANGED <<connections, connected, shown, placed, request>>

SendInitial(s) ==
    /\ handler[s] = "greet"
    /\ s \in connected
    /\ handler' = [handler EXCEPT ![s] = "receive"]
    /\ shown' = [shown EXCEPT ![s] = greeting[s]]
    /\ greeting' = [greeting EXCEPT ![s] = NoMessage]
    /\ UNCHANGED <<connections, connected, placed, request>>

(* get_event_details fails: close, then disconnect.  If the client has gone, *)
(* close may raise, always so once a send has failed, and the handler ends   *)
(* before it comes to disconnect.                                            *)
Reject(s) ==
    /\ handler[s] = "validate"
    /\ \/ /\ handler' = [handler EXCEPT ![s] = "closed"]
          /\ connected' = connected \ {s}
          /\ Disconnect({s}, request)
       \/ /\ s \notin connected
          /\ handler' = [handler EXCEPT ![s] = "raised"]
          /\ UNCHANGED <<connections, connected, request>>
    /\ UNCHANGED <<greeting, shown, placed>>

(* Faulty: the handler sleeps instead of receiving, and does not notice. *)
EndAtGreeting(s) ==
    /\ handler[s] = "greet"
    /\ s \notin connected
    /\ handler' = [handler EXCEPT ![s] = "closed"]
    /\ greeting' = [greeting EXCEPT ![s] = NoMessage]
    /\ shown' = [shown EXCEPT ![s] = NoMessage]
    /\ Disconnect({s}, request)
    /\ UNCHANGED <<connected, placed>>

(* send_json or receive_text raises, and the finally clause runs. *)
End(s) ==
    /\ handler[s] \in {"greet", "receive"}
    /\ s \notin connected
    /\ handler' = [handler EXCEPT ![s] = "closed"]
    /\ greeting' = [greeting EXCEPT ![s] = NoMessage]
    /\ shown' = [shown EXCEPT ![s] = NoMessage]
    /\ Disconnect({s}, request)
    /\ UNCHANGED <<connected, placed>>

-----------------------------------------------------------------------------
(* create_bet and update_odds_and_broadcast *)

(* The first SELECT takes the snapshot.  (The request meets those in flight *)
(* and is met by them and by the handlers about to greet.)                  *)
BeginBet(b, o) ==
    LET meet(m) == [m EXCEPT !.met = @ \cup {b}] IN
    /\ request[b].pc = "new"
    /\ request' = [c \in Bets |->
          IF c = b THEN [NewRequest EXCEPT !.pc = "write", !.option = o, !.odds = placed, !.met = InFlight]
          ELSE IF c \in InFlight THEN meet(request[c]) ELSE request[c]]
    /\ greeting' = [s \in Sockets |-> IF handler[s] = "greet" THEN meet(greeting[s]) ELSE greeting[s]]
    /\ UNCHANGED <<connections, handler, connected, shown, placed>>

(* The row of the option stays locked from its update to the commit. *)
Locked(o) == \E b \in Bets : request[b].pc \in {"send", "commit"} /\ request[b].option = o

(* The statistics are updated, which this session sees on top of its        *)
(* snapshot, and broadcast_to_event begins.                                 *)
WriteBet(b) ==
    /\ request[b].pc = "write"
    /\ ~Locked(request[b].option)
    /\ request' = [request EXCEPT ![b].pc = IF connections = {} THEN "commit" ELSE "send",
                                  ![b].odds = @ \cup {b},
                                  ![b].members = connections,
                                  ![b].gone = connections \ connected]
    /\ UNCHANGED <<sockets, placed>>

(* The set still has the size it had: otherwise its iterator raises. *)
SameSize(b) ==
    /\ ~request[b].orphaned
    /\ Cardinality(connections) = Cardinality(request[b].members)

(* The next element of the iterator: once the set has grown its table may   *)
(* have been rebuilt, and a member come twice, or not at all.               *)
IsNext(b, s) == s \in connections /\ (s \notin request[b].visited \/ request[b].grown)

(* Faulty: a failed send is passed over. *)
SendPassingOver(b, s) ==
    LET r == request[b] IN
    /\ r.pc = "send" /\ SameSize(b) /\ IsNext(b, s)
    /\ request' = [request EXCEPT ![b].visited = @ \cup {s}]
    /\ shown' = IF s \in connected THEN [shown EXCEPT ![s] = [odds |-> r.odds, met |-> r.met]] ELSE shown
    /\ UNCHANGED <<connections, handler, connected, greeting, placed>>

(* send_json to the next member, which may suspend the request.  A member   *)
(* whose client has gone is remembered.                                     *)
Send(b, s) ==
    LET r == request[b] IN
    /\ r.pc = "send" /\ SameSize(b) /\ IsNext(b, s)
    /\ IF s \in connected
       THEN /\ shown' = [shown EXCEPT ![s] = [odds |-> r.odds, met |-> r.met]]
            /\ request' = [request EXCEPT ![b].visited = @ \cup {s}]
       ELSE /\ request' = [request EXCEPT ![b].visited = @ \cup {s}, ![b].failed = @ \cup {s}]
            /\ UNCHANGED shown
    /\ UNCHANGED <<connections, handler, connected, greeting, placed>>

(* Faulty: the first failure ends the loop. *)
FinishAtFailure(b) ==
    LET r == request[b] IN
    /\ r.pc = "send" /\ SameSize(b)
    /\ r.members \cap connections \subseteq r.visited \/ r.grown \/ r.failed # {}
    /\ Disconnect(r.failed, [request EXCEPT ![b].pc = "commit"])
    /\ UNCHANGED <<handler, connected, greeting, shown, placed>>

(* The end of the loop.  A socket that took the place of another may or may *)
(* not have been visited, nor may any other be then.                        *)
Finish(b) ==
    LET r == request[b] IN
    /\ r.pc = "send" /\ SameSize(b)
    /\ r.members \cap connections \subseteq r.visited \/ r.grown
    /\ Disconnect(r.failed, [request EXCEPT ![b].pc = "commit"])
    /\ UNCHANGED <<handler, connected, greeting, shown, placed>>

CommitBet(b) ==
    /\ request[b].pc = "commit"
    /\ placed' = placed \cup {b}
    /\ request' = [request EXCEPT ![b] = [Ended("done") EXCEPT !.grown = request[b].grown]]
    /\ UNCHANGED sockets

(* The iterator raises "Set changed size during iteration". *)
Raise(b) ==
    /\ request[b].pc = "send" /\ ~SameSize(b)
    /\ request' = [request EXCEPT ![b] = Ended("failed")]
    /\ UNCHANGED <<sockets, placed>>

(* A check, a constraint or the commit fails, or a deadlock is found. *)
FailBet(b) ==
    /\ request[b].pc \in {"write", "commit"}
    /\ request' = [request EXCEPT ![b] = Ended("failed")]
    /\ UNCHANGED <<sockets, placed>>

-----------------------------------------------------------------------------
Init ==
    /\ connections = {}
    /\ handler = [s \in Sockets |-> "off"]
    /\ connected = {}
    /\ greeting = [s \in Sockets |-> NoMessage]
    /\ shown = [s \in Sockets |-> NoMessage]
    /\ placed = {}
    /\ request = [b \in Bets |-> NewRequest]

Handle(s) ==
    \/ ReadDetails(s) \/ SendInitial(s)
    \/ Reject(s) \/ End(s)

Broadcast(b) == Finish(b) \/ Raise(b) \/ \E s \in Sockets : Send(b, s)

Place(b) == WriteBet(b) \/ Broadcast(b) \/ CommitBet(b) \/ FailBet(b)

Next ==
    \/ \E s \in Sockets : Connect(s) \/ GoAway(s) \/ Handle(s)
    \/ \E b \in Bets : Place(b) \/ \E o \in Options : BeginBet(b, o)

(* Handlers and requests go on; clients come and go as they like. *)
Fairness ==
    /\ \A s \in Sockets : WF_vars(Handle(s))
    /\ \A b \in Bets : WF_vars(Place(b))

Spec == Init /\ [][Next]_vars /\ Fairness
-----------------------------------------------------------------------------
(* Properties *)

(* A socket that is in the set without a handler is one whose close raised, *)
(* and its client has gone.  It stays until a broadcast next gets to its    *)
(* end, for this one finds and removes everybody who had gone before,       *)
(* whoever else goes or is removed meanwhile, unless somebody joined.       *)
LeftoversLastUntilBroadcast ==
    /\ \A s \in connections :
          handler[s] \in {"validate", "greet", "receive"} \/ (handler[s] = "raised" /\ s \notin connected)
    /\ \A b \in Bets : request[b].pc = "commit" /\ ~request[b].grown => request[b].gone \cap connections = {}

(* A client that goes away leaves the set, whether a broadcast or its own   *)
(* handler notices, unless its handler cannot close it; then it is enough   *)
(* that one more bet is not rolled back and nobody joins while it is told.  *)
GoneClientsAreForgotten ==
    \A s \in Sockets :
        /\ (handler[s] # "off" /\ s \notin connected) ~> (s \notin connections \/ handler[s] = "raised")
        /\ \A b \in Bets :
              (handler[s] = "raised" /\ request[b].pc = "write")
                  ~> (s \notin connections \/ request[b].pc = "failed" \/ request[b].grown)

(* The odds that a subscriber sees lack a committed bet only if its request *)
(* and the request (or greeting) that sent those odds were in flight        *)
(* together, or a socket joined the set while the bet was being broadcast.  *)
(* So otherwise a bet is committed only after every subscriber has its      *)
(* odds, and what overtakes them was under way when the bet was.            *)
OddsLackOnlyOverlaps ==
    \A s \in connected : handler[s] = "receive" =>
        \A b \in placed \ (shown[s].odds \cup shown[s].met) : request[b].grown
=============================================================================
