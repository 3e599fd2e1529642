--------------------------------- MODULE Chat ---------------------------------
(***************************************************************************)
(* The chat of realtime-demo.html over STOMP: pages connect, subscribe to  *)
(* /topic/chat in the callback of the connection, and send to              *)
(* /app/chat.send; the server sends each message to every subscription.    *)
(* WebSocketConfig leaves the channels of the server as they are: pools of *)
(* threads that take the frames of one session in any order.               *)
(***************************************************************************)
EXTENDS Integers, FiniteSets

CONSTANTS
    Page,
    Connection,   \* bound: clicks on Connect
    Message,      \* bound: messages sent
    Nobody        \* stompClient is null, or the connection is not used yet

ASSUME NobodyAssumption == Nobody \notin Page \cup Connection
ASSUME ConnectionAssumption == IsFiniteSet(Connection)

VARIABLES
    stompClient,   \* the global variable of each page
    owner, phase,  \* of each connection
    subscribing,   \* SUBSCRIBE frames on their way, per connection
    subscribed,    \* subscriptions the broker knows, per connection
    sent,          \* SEND frames on their way
    unsent,        \* messages nobody has typed yet
    outbound,      \* MESSAGE frames on their way: connection -> message -> how many
    shown          \* page -> message -> how often it has been shown

connections == << owner, phase >>
broker      == << subscribing, subscribed, outbound >>
vars == << stompClient, connections, broker, sent, unsent, shown >>

Connected(c) == phase[c] \in {"open", "closing"}
Of(p) == {c \in Connection : owner[c] = p}

\* No number of frames exceeds the clicks on Connect.
Count == 0..Cardinality(Connection)

TypeOK ==
    /\ stompClient \in [Page -> Connection \cup {Nobody}]
    /\ owner \in [Connection -> Page \cup {Nobody}]
    /\ phase \in [Connection -> {"unused", "connecting", "open", "closing", "gone"}]
    /\ subscribing \in [Connection -> Count]
    /\ subscribed \in [Connection -> Count]
    /\ sent \subseteq Connection \X Message
    /\ unsent \subseteq Message
    /\ outbound \in [Connection -> [Message -> Count]]
    /\ shown \in [Page -> [Message -> Count]]
    /\ \A c \in Connection : ~Connected(c) =>
          subscribing[c] + subscribed[c] = 0 /\ \A m \in Message : outbound[c][m] = 0

Init ==
    /\ stompClient = [p \in Page |-> Nobody]
    /\ owner = [c \in Connection |-> Nobody]
    /\ phase = [c \in Connection |-> "unused"]
    /\ subscribing = [c \in Connection |-> 0]
    /\ subscribed = [c \in Connection |-> 0]
    /\ sent = {}
    /\ unsent = Message
    /\ outbound = [c \in Connection |-> [m \in Message |-> 0]]
    /\ shown = [p \in Page |-> [m \in Message |-> 0]]

-----------------------------------------------------------------------------
(* The page: the callbacks and the clicks run there one at a time.         *)

\* A click on Connect: a new socket each time; the one before stays open.
Connect(p, c) ==
    /\ phase[c] = "unused"
    /\ stompClient' = [stompClient EXCEPT ![p] = c]
    /\ owner' = [owner EXCEPT ![c] = p]
    /\ phase' = [phase EXCEPT ![c] = "connecting"]
    /\ UNCHANGED << broker, sent, unsent, shown >>

\* Mutant: the callback subscribes only if the page has no subscription.
TargetOnce(c) ==
    {d \in {stompClient[owner[c]]} : \A e \in Of(owner[c]) : subscribing[e] + subscribed[e] = 0}

\* Mutant: it subscribes every connection of the page.
TargetAll(c) == Of(owner[c])

\* The callback uses the variable, not the client it was given to.
Target(c) == {stompClient[owner[c]]}

\* CONNECTED arrives and the callback runs.  A client that is not connected
\* yet, or no longer, throws, and nothing is subscribed.
Opened(c) ==
    /\ phase[c] = "connecting"
    /\ phase' = [phase EXCEPT ![c] = "open"]
    /\ subscribing' = [d \in Connection |->
          IF d \in Target(c) /\ Connected(d)' THEN subscribing[d] + 1 ELSE subscribing[d]]
    /\ UNCHANGED << stompClient, owner, subscribed, outbound, sent, unsent, shown >>

\* Mutant: frames for a connection that has ended stay in the pool.
OutboundKept(S) == outbound

OutboundWithout(S) ==
    [c \in Connection |-> IF c \in S THEN [m \in Message |-> 0] ELSE outbound[c]]

\* The end of connections: what is under way to them is dropped; frames they
\* have sent may or may not have reached the server.
Drop(S) ==
    /\ phase' = [c \in Connection |-> IF c \in S THEN "gone" ELSE phase[c]]
    /\ subscribing' = [c \in Connection |-> IF c \in S THEN 0 ELSE subscribing[c]]
    /\ subscribed' = [c \in Connection |-> IF c \in S THEN 0 ELSE subscribed[c]]
    /\ outbound' = OutboundWithout(S)
    /\ UNCHANGED << stompClient, owner, unsent, shown >>

\* The handshake fails, the network does, or the receipt of DISCONNECT is there.
Lost(c) ==
    /\ phase[c] \in {"connecting", "open", "closing"}
    /\ Drop({c})
    /\ sent' \in {sent, {f \in sent : f[1] # c}}

\* The container is recreated.
AppStops ==
    /\ \E c \in Connection : Connected(c)
    /\ Drop({c \in Connection : phase[c] # "unused"})
    /\ sent' = {}

\* A click on Disconnect: of the last connection only.
Disconnect(p) ==
    \E c \in Connection :
        /\ stompClient[p] = c
        /\ \/ phase[c] = "open" /\ phase' = [phase EXCEPT ![c] = "closing"]
           \/ phase[c] = "connecting" /\ phase' = [phase EXCEPT ![c] = "gone"]
        /\ UNCHANGED << stompClient, owner, broker, sent, unsent, shown >>

\* A click on Send, while stompClient.connected.
Send(p, m) ==
    /\ stompClient[p] # Nobody /\ Connected(stompClient[p])
    /\ m \in unsent
    /\ unsent' = unsent \ {m}
    /\ sent' = sent \cup {<< stompClient[p], m >>}
    /\ UNCHANGED << stompClient, connections, broker, shown >>

-----------------------------------------------------------------------------
(* The server                                                              *)

Register(c) ==
    /\ subscribing[c] > 0
    /\ subscribing' = [subscribing EXCEPT ![c] = @ - 1]
    /\ subscribed' = [subscribed EXCEPT ![c] = @ + 1]
    /\ UNCHANGED << stompClient, connections, outbound, sent, unsent, shown >>

\* Mutant: the sender is left out.
CopiesToOthers(c, d) == IF c = d THEN 0 ELSE subscribed[d]

\* @SendTo("/topic/chat"): a copy for each subscription.
Copies(c, d) == subscribed[d]

Broadcast(c, m) ==
    /\ << c, m >> \in sent
    /\ sent' = sent \ {<< c, m >>}
    /\ outbound' = [d \in Connection |-> [outbound[d] EXCEPT ![m] = @ + Copies(c, d)]]
    /\ UNCHANGED << stompClient, connections, subscribing, subscribed, unsent, shown >>

\* The page shows a message that has arrived.
Deliver(c, m) ==
    /\ outbound[c][m] > 0
    /\ outbound' = [outbound EXCEPT ![c][m] = @ - 1]
    /\ shown' = [shown EXCEPT ![owner[c]][m] = @ + 1]
    /\ UNCHANGED << stompClient, connections, subscribing, subscribed, sent, unsent >>

Server ==
    \E c \in Connection :
        Register(c) \/ \E m \in Message : Broadcast(c, m) \/ Deliver(c, m)

Next ==
    \/ \E p \in Page :
          \/ \E c \in Connection : Connect(p, c)
          \/ Disconnect(p)
          \/ \E m \in Message : Send(p, m)
    \/ \E c \in Connection : Opened(c) \/ Lost(c)
    \/ AppStops
    \/ Server

Spec == Init /\ [][Next]_vars

\* The threads of the pools take every frame in the end.
TakesFrames(c, m) == WF_vars(Broadcast(c, m)) /\ WF_vars(Deliver(c, m))

Registers(c) == WF_vars(Register(c))

Fairness ==
    \A c \in Connection : Registers(c) /\ \A m \in Message : TakesFrames(c, m)

FairSpec == Spec /\ Fairness

-----------------------------------------------------------------------------
(* Whatever the order in which connections open, the one the page would    *)
(* send on has asked for the topic once it is open.                        *)
CurrentSubscribed ==
    \A p \in Page : \A c \in Of(p) :
        stompClient[p] = c /\ phase[c] = "open" => subscribing[c] + subscribed[c] > 0

(* A page shows a message at most as often as Connect was clicked in it.   *)
ShownByClicks ==
    \A p \in Page, m \in Message : shown[p][m] <= Cardinality(Of(p))

(* A message that is on its way while a page's subscription is known to    *)
(* the broker is shown there, unless one of the two connections is lost.   *)
Heard ==
    \A c, d \in Connection, p \in Page, m \in Message :
        (<< c, m >> \in sent /\ owner[d] = p /\ subscribed[d] > 0)
            ~> (shown[p][m] > 0 \/ ~Connected(c) \/ ~Connected(d))
=============================================================================
