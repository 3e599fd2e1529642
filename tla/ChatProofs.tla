------------------------------ MODULE ChatProofs ------------------------------
(***************************************************************************)
(* Proofs about Chat for any number of pages, connections and messages:    *)
(* first that a page sends only where it is subscribed, then how often a   *)
(* page shows a message, for which subscriptions and copies are counted,   *)
(* and last that a message is heard.                                       *)
(***************************************************************************)
EXTENDS Chat, FiniteSetTheorems, TLAPS

(***************************************************************************)
(* The variable of a page names a connection the page has opened itself,   *)
(* so the callback of one page never subscribes a connection of another.   *)
(***************************************************************************)
Counters ==
    /\ subscribing \in [Connection -> Nat]
    /\ subscribed \in [Connection -> Nat]

OwnClient ==
    \A p \in Page : stompClient[p] # Nobody =>
        /\ owner[stompClient[p]] = p
        /\ phase[stompClient[p]] # "unused"

Owned == \A c \in Connection : phase[c] # "unused" => owner[c] \in Page

IInv ==
    /\ stompClient \in [Page -> Connection \cup {Nobody}]
    /\ owner \in [Connection -> Page \cup {Nobody}]
    /\ phase \in [Connection -> {"unused", "connecting", "open", "closing", "gone"}]
    /\ Counters
    /\ OwnClient
    /\ Owned
    /\ CurrentSubscribed

LEMMA TypesStep ==
    ASSUME IInv, [Next]_vars
    PROVE  /\ stompClient' \in [Page -> Connection \cup {Nobody}]
           /\ owner' \in [Connection -> Page \cup {Nobody}]
           /\ phase' \in [Connection -> {"unused", "connecting", "open", "closing", "gone"}]
           /\ Counters'
<1> USE DEF IInv, Counters, connections, broker
<1>1. ASSUME NEW p \in Page, NEW c \in Connection, Connect(p, c)
      PROVE  /\ stompClient' \in [Page -> Connection \cup {Nobody}]
             /\ owner' \in [Connection -> Page \cup {Nobody}]
             /\ phase' \in [Connection -> {"unused", "connecting", "open", "closing", "gone"}]
             /\ UNCHANGED << subscribing, subscribed >>
  BY <1>1 DEF Connect
<1>2. ASSUME NEW p \in Page, Disconnect(p)
      PROVE  /\ phase' \in [Connection -> {"unused", "connecting", "open", "closing", "gone"}]
             /\ UNCHANGED << stompClient, owner, subscribing, subscribed >>
  BY <1>2 DEF Disconnect
<1>3. ASSUME NEW c \in Connection, Opened(c)
      PROVE  /\ phase' \in [Connection -> {"unused", "connecting", "open", "closing", "gone"}]
             /\ Counters'
             /\ UNCHANGED << stompClient, owner >>
  BY <1>3 DEF Opened
<1>4. ASSUME NEW S \in SUBSET Connection, Drop(S)
      PROVE  /\ phase' \in [Connection -> {"unused", "connecting", "open", "closing", "gone"}]
             /\ Counters'
             /\ UNCHANGED << stompClient, owner >>
  BY <1>4 DEF Drop
<1>5. ASSUME NEW c \in Connection, Lost(c)
      PROVE  Drop({c})
  BY <1>5 DEF Lost
<1>6. ASSUME AppStops
      PROVE  Drop({c \in Connection : phase[c] # "unused"})
  BY <1>6 DEF AppStops
<1>7. ASSUME NEW c \in Connection, Register(c)
      PROVE  Counters' /\ UNCHANGED << stompClient, owner, phase >>
  BY <1>7 DEF Register
<1>8. ASSUME NEW c \in Connection, NEW m \in Message, Broadcast(c, m) \/ Deliver(c, m)
      PROVE  UNCHANGED << stompClient, owner, phase, subscribing, subscribed >>
  BY <1>8 DEF Broadcast, Deliver
<1>9. ASSUME NEW p \in Page, NEW m \in Message, Send(p, m)
      PROVE  UNCHANGED << stompClient, owner, phase, subscribing, subscribed >>
  BY <1>9 DEF Send
<1>. QED
  BY <1>1, <1>2, <1>3, <1>4, <1>5, <1>6, <1>7, <1>8, <1>9 DEF Next, Server, vars

LEMMA OwnClientStep == IInv /\ [Next]_vars => OwnClient' /\ Owned'
<1> SUFFICES ASSUME IInv, [Next]_vars PROVE OwnClient' /\ Owned'
  OBVIOUS
<1> USE NobodyAssumption DEF IInv, OwnClient, Owned, connections, broker
<1>1. ASSUME NEW p \in Page, NEW c \in Connection, Connect(p, c)
      PROVE  OwnClient' /\ Owned'
  <2>1. \A q \in Page : stompClient[q] # c
    BY <1>1 DEF Connect
  <2>. QED
    BY <1>1, <2>1 DEF Connect
<1>2. ASSUME UNCHANGED << stompClient, owner >>,
             \A c \in Connection : phase'[c] = "unused" <=> phase[c] = "unused"
      PROVE  OwnClient' /\ Owned'
  BY <1>2
<1>3. ASSUME NEW S \in SUBSET Connection, Drop(S), \A c \in S : phase[c] # "unused"
      PROVE  OwnClient' /\ Owned'
  BY <1>2, <1>3 DEF Drop
<1>4. ASSUME NEW c \in Connection, Lost(c)
      PROVE  OwnClient' /\ Owned'
  BY <1>3, <1>4 DEF Lost
<1>5. ASSUME AppStops
      PROVE  OwnClient' /\ Owned'
  BY <1>3, <1>5 DEF AppStops
<1>6. ASSUME NEW c \in Connection, Opened(c)
      PROVE  OwnClient' /\ Owned'
  BY <1>2, <1>6 DEF Opened
<1>7. ASSUME NEW p \in Page, Disconnect(p)
      PROVE  OwnClient' /\ Owned'
  BY <1>2, <1>7 DEF Disconnect
<1>8. ASSUME UNCHANGED << stompClient, owner, phase >>
      PROVE  OwnClient' /\ Owned'
  BY <1>2, <1>8
<1>. QED
  BY <1>1, <1>4, <1>5, <1>6, <1>7, <1>8
  DEF Next, Server, vars, Send, Register, Broadcast, Deliver

LEMMA SubscribedStep == IInv /\ [Next]_vars => CurrentSubscribed'
<1> SUFFICES ASSUME IInv, [Next]_vars PROVE CurrentSubscribed'
  OBVIOUS
<1> USE DEF IInv, CurrentSubscribed, Counters, Of, connections, broker
<1>1. ASSUME NEW p \in Page, NEW c \in Connection, Connect(p, c)
      PROVE  CurrentSubscribed'
  BY <1>1 DEF Connect
\* The callback that opens the connection runs in the page that owns it.
<1>2. ASSUME NEW c \in Connection, Opened(c)
      PROVE  CurrentSubscribed'
  <2> SUFFICES ASSUME NEW p \in Page, NEW d \in Connection, owner'[d] = p,
                      stompClient'[p] = d, phase'[d] = "open"
               PROVE  subscribing'[d] + subscribed'[d] > 0
    OBVIOUS
  <2>1. UNCHANGED << stompClient, owner, subscribed >>
        /\ subscribing'[d] \in Nat /\ subscribing'[d] >= subscribing[d]
    BY <1>2 DEF Opened
  <2>2. CASE d # c
    BY <1>2, <2>1, <2>2 DEF Opened
  <2>3. CASE d = c
    <3>1. d \in Target(c) /\ Connected(d)'
      BY <2>1, <2>3 DEF Target, Connected
    <3>2. subscribing'[d] = subscribing[d] + 1
      BY <1>2, <3>1 DEF Opened
    <3>. QED
      BY <2>1, <3>2
  <2>. QED
    BY <2>2, <2>3
<1>3. ASSUME NEW S \in SUBSET Connection, Drop(S)
      PROVE  CurrentSubscribed'
  BY <1>3 DEF Drop
<1>4. ASSUME NEW c \in Connection, Lost(c)
      PROVE  CurrentSubscribed'
  BY <1>3, <1>4 DEF Lost
<1>5. ASSUME AppStops
      PROVE  CurrentSubscribed'
  BY <1>3, <1>5 DEF AppStops
<1>6. ASSUME NEW p \in Page, Disconnect(p)
      PROVE  CurrentSubscribed'
  BY <1>6 DEF Disconnect
<1>7. ASSUME NEW c \in Connection, Register(c)
      PROVE  CurrentSubscribed'
  <2>1. \A d \in Connection :
            subscribing'[d] + subscribed'[d] = subscribing[d] + subscribed[d]
    BY <1>7 DEF Register
  <2>. QED
    BY <1>7, <2>1 DEF Register
<1>8. ASSUME UNCHANGED << stompClient, owner, phase, subscribing, subscribed >>
      PROVE  CurrentSubscribed'
  BY <1>8
<1>. QED
  BY <1>1, <1>2, <1>4, <1>5, <1>6, <1>7, <1>8
  DEF Next, Server, vars, Send, Broadcast, Deliver

\* However many clicks on Connect, openings, losses and restarts race: the open
\* connection a page sends on has asked for /topic/chat
\* (realtime-demo.html, the callback of connect).
THEOREM SenderSubscribed == Spec => []CurrentSubscribed
<1>1. Init => IInv
  BY NobodyAssumption DEF Init, IInv, Counters, OwnClient, Owned, CurrentSubscribed, Of
<1>2. IInv /\ [Next]_vars => IInv'
  BY TypesStep, OwnClientStep, SubscribedStep DEF IInv
<1>3. IInv => CurrentSubscribed
  BY DEF IInv
<1>. QED
  BY <1>1, <1>2, <1>3, PTL DEF Spec

-----------------------------------------------------------------------------
(***************************************************************************)
(* How often a message is shown.  Sums are counted as sets: a number n     *)
(* that belongs to a connection c stands for the pairs << c, 1 >> to       *)
(* << c, n >>, so that a step adds or removes single pairs.                *)
(***************************************************************************)
Counted == Nat \ {0}

\* The subscriptions of a page, asked for or known to the broker.
SubsOf(p) ==
    {e \in Of(p) \X Counted : e[2] <= subscribing[e[1]] + subscribed[e[1]]}

\* The copies of a message on their way to a page.
CopiesOf(p, m) == {e \in Of(p) \X Counted : e[2] <= outbound[e[1]][m]}

\* The connections of a page whose callback has run, or cannot run any more.
OpenedOf(p) == {c \in Of(p) : phase[c] \notin {"unused", "connecting"}}

Data ==
    /\ sent \subseteq Connection \X Message
    /\ unsent \subseteq Message
    /\ outbound \in [Connection -> [Message -> Nat]]
    /\ shown \in [Page -> [Message -> Nat]]

Quiet ==
    \A c \in Connection : ~Connected(c) =>
        subscribing[c] + subscribed[c] = 0 /\ \A m \in Message : outbound[c][m] = 0

Unowned == \A c \in Connection : phase[c] = "unused" => owner[c] = Nobody

\* A message is sent once, and nothing is shown of it before it is broadcast.
Untold(m) ==
    /\ \A c \in Connection : outbound[c][m] = 0
    /\ \A p \in Page : shown[p][m] = 0

OnceSent ==
    \A m \in Message :
        /\ m \in unsent => Untold(m) /\ \A c \in Connection : << c, m >> \notin sent
        /\ \A c \in Connection : << c, m >> \in sent =>
              Untold(m) /\ \A d \in Connection : << d, m >> \in sent => c = d

\* Each callback subscribes once at most.
SubscribedOnce ==
    \A p \in Page : /\ IsFiniteSet(SubsOf(p))
                    /\ Cardinality(SubsOf(p)) <= Cardinality(OpenedOf(p))

ShownOnce ==
    \A p \in Page, m \in Message :
        /\ IsFiniteSet(CopiesOf(p, m))
        /\ shown[p][m] + Cardinality(CopiesOf(p, m)) <= Cardinality(Of(p))

MInv ==
    /\ IInv /\ Data /\ Quiet /\ Unowned
    /\ OnceSent /\ SubscribedOnce /\ ShownOnce

\* The connections of a page are finitely many.
LEMMA OfFinite ==
    ASSUME NEW p \in Page
    PROVE  /\ IsFiniteSet(Of(p)) /\ Cardinality(Of(p)) \in Nat
           /\ Cardinality(Of(p)) <= Cardinality(Connection)
           /\ IsFiniteSet(OpenedOf(p)) /\ Cardinality(OpenedOf(p)) \in Nat
           /\ Cardinality(OpenedOf(p)) <= Cardinality(Of(p))
<1>1. Of(p) \subseteq Connection /\ OpenedOf(p) \subseteq Of(p)
  BY DEF Of, OpenedOf
<1>2. IsFiniteSet(Of(p)) /\ Cardinality(Of(p)) <= Cardinality(Connection)
  BY <1>1, ConnectionAssumption, FS_Subset
<1>3. IsFiniteSet(OpenedOf(p)) /\ Cardinality(OpenedOf(p)) <= Cardinality(Of(p))
  BY <1>1, <1>2, FS_Subset
<1>. QED
  BY <1>2, <1>3, FS_CardinalityType

\* A number is at most the number of pairs it stands for.
LEMMA Column ==
    ASSUME NEW S, IsFiniteSet(S), NEW c, NEW n \in Nat,
           \A i \in Counted : i <= n => << c, i >> \in S
    PROVE  n <= Cardinality(S)
<1> DEFINE T == {c} \X (1..n)
<1>1. T \subseteq S
  BY DEF Counted
<1>2. IsFiniteSet(1..n) /\ Cardinality(1..n) = n
  BY FS_Interval
<1>3. IsFiniteSet({c}) /\ Cardinality({c}) = 1
  BY FS_Singleton
<1>4. Cardinality(T) = 1 * n
  BY <1>2, <1>3, FS_Product
<1>5. Cardinality(T) <= Cardinality(S)
  BY <1>1, FS_Subset
<1>. QED
  BY <1>4, <1>5

\* A frame that arrives has come over an open connection of some page.
LEMMA Delivered ==
    ASSUME MInv, NEW c \in Connection, NEW m \in Message, Deliver(c, m)
    PROVE  Connected(c) /\ owner[c] \in Page
<1>1. outbound[c][m] > 0 /\ outbound \in [Connection -> [Message -> Nat]]
  BY DEF Deliver, MInv, Data
<1>2. Connected(c)
  BY <1>1 DEF MInv, Quiet
<1>. QED
  BY <1>2 DEF MInv, IInv, Owned, Connected

LEMMA DataStep ==
    ASSUME MInv, [Next]_vars
    PROVE  Data' /\ Unowned'
<1> USE DEF MInv, IInv, Counters, Data, connections, broker
<1>1. ASSUME NEW p \in Page, NEW c \in Connection, Connect(p, c)
      PROVE  Data' /\ Unowned'
  BY <1>1 DEF Connect, Unowned
<1>2. ASSUME NEW p \in Page, Disconnect(p)
      PROVE  Data' /\ Unowned'
  BY <1>2 DEF Disconnect, Unowned
<1>3. ASSUME NEW c \in Connection, Opened(c)
      PROVE  Data' /\ Unowned'
  BY <1>3 DEF Opened, Unowned
<1>4. ASSUME NEW S \in SUBSET Connection, Drop(S), sent' \subseteq sent
      PROVE  Data' /\ Unowned'
  BY <1>4 DEF Drop, OutboundWithout, Unowned
<1>5. ASSUME NEW c \in Connection, Lost(c)
      PROVE  Data' /\ Unowned'
  BY <1>4, <1>5 DEF Lost
<1>6. ASSUME AppStops
      PROVE  Data' /\ Unowned'
  BY <1>4, <1>6 DEF AppStops
<1>7. ASSUME NEW c \in Connection, Register(c)
      PROVE  Data' /\ Unowned'
  BY <1>7 DEF Register, Unowned
<1>8. ASSUME NEW c \in Connection, NEW m \in Message, Broadcast(c, m)
      PROVE  Data' /\ Unowned'
  BY <1>8 DEF Broadcast, Copies, Unowned
<1>9. ASSUME NEW c \in Connection, NEW m \in Message, Deliver(c, m)
      PROVE  Data' /\ Unowned'
  <2>1. /\ outbound' = [outbound EXCEPT ![c][m] = @ - 1] /\ outbound[c][m] - 1 \in Nat
        /\ shown' = [shown EXCEPT ![owner[c]][m] = @ + 1]
        /\ UNCHANGED << phase, owner, sent, unsent >>
    BY <1>9 DEF Deliver
  <2>2. outbound' \in [Connection -> [Message -> Nat]]
    BY <2>1
  <2>3. shown' \in [Page -> [Message -> Nat]]
    BY <1>9, <2>1, Delivered
  <2>. QED
    BY <2>1, <2>2, <2>3 DEF Unowned
<1>10. ASSUME NEW p \in Page, NEW m \in Message, Send(p, m)
       PROVE  Data' /\ Unowned'
  BY <1>10 DEF Send, Unowned
<1>11. CASE UNCHANGED vars
  BY <1>11 DEF vars, Unowned
<1>. QED
  BY <1>1, <1>2, <1>3, <1>5, <1>6, <1>7, <1>8, <1>9, <1>10, <1>11 DEF Next, Server

LEMMA QuietStep ==
    ASSUME MInv, [Next]_vars
    PROVE  Quiet'
<1> USE DEF MInv, IInv, Counters, Data, Quiet, Connected, connections, broker
<1>1. ASSUME NEW p \in Page, NEW c \in Connection, Connect(p, c)
      PROVE  Quiet'
  BY <1>1 DEF Connect
<1>2. ASSUME NEW p \in Page, Disconnect(p)
      PROVE  Quiet'
  BY <1>2 DEF Disconnect
<1>3. ASSUME NEW c \in Connection, Opened(c)
      PROVE  Quiet'
  BY <1>3 DEF Opened
<1>4. ASSUME NEW S \in SUBSET Connection, Drop(S)
      PROVE  Quiet'
  BY <1>4 DEF Drop, OutboundWithout
<1>5. ASSUME NEW c \in Connection, Lost(c)
      PROVE  Quiet'
  BY <1>4, <1>5 DEF Lost
<1>6. ASSUME AppStops
      PROVE  Quiet'
  BY <1>4, <1>6 DEF AppStops
<1>7. ASSUME NEW c \in Connection, Register(c)
      PROVE  Quiet'
  <2>1. \A d \in Connection :
            subscribing'[d] + subscribed'[d] = subscribing[d] + subscribed[d]
    BY <1>7 DEF Register
  <2>. QED
    BY <1>7, <2>1 DEF Register
<1>8. ASSUME NEW c \in Connection, NEW m \in Message, Broadcast(c, m)
      PROVE  Quiet'
  <2>1. \A d \in Connection : ~Connected(d) => subscribed[d] = 0
    OBVIOUS
  <2>. QED
    BY <1>8, <2>1 DEF Broadcast, Copies
<1>9. ASSUME NEW c \in Connection, NEW m \in Message, Deliver(c, m)
      PROVE  Quiet'
  BY <1>9 DEF Deliver
<1>10. ASSUME UNCHANGED << phase, subscribing, subscribed, outbound >>
       PROVE  Quiet'
  BY <1>10
<1>. QED
  BY <1>1, <1>2, <1>3, <1>5, <1>6, <1>7, <1>8, <1>9, <1>10
  DEF Next, Server, Send, vars

\* A step that neither adds a subscription to a page nor takes back an opening.
LEMMA OnceKept ==
    ASSUME MInv, NEW p \in Page,
           SubsOf(p)' \subseteq SubsOf(p), OpenedOf(p) \subseteq OpenedOf(p)'
    PROVE  /\ IsFiniteSet(SubsOf(p)')
           /\ Cardinality(SubsOf(p)') <= Cardinality(OpenedOf(p)')
<1>1. /\ IsFiniteSet(SubsOf(p)) /\ Cardinality(SubsOf(p)) <= Cardinality(OpenedOf(p))
      /\ Cardinality(SubsOf(p)) \in Nat /\ Cardinality(OpenedOf(p)) \in Nat
  BY OfFinite, FS_CardinalityType DEF MInv, SubscribedOnce
<1>2. IsFiniteSet(SubsOf(p)') /\ Cardinality(SubsOf(p)') <= Cardinality(SubsOf(p))
  BY <1>1, FS_Subset
<1>3. IsFiniteSet(OpenedOf(p)')
  BY ConnectionAssumption, FS_Subset DEF OpenedOf, Of
<1>4. Cardinality(OpenedOf(p)) <= Cardinality(OpenedOf(p)')
  BY <1>3, FS_Subset
<1>. QED
  BY <1>1, <1>2, <1>3, <1>4, FS_CardinalityType

LEMMA SubscribedOnceStep ==
    ASSUME MInv, [Next]_vars
    PROVE  SubscribedOnce'
<1> USE DEF MInv, IInv, Counters, connections, broker
<1>1. ASSUME NEW p \in Page, NEW c \in Connection, Connect(p, c)
      PROVE  SubscribedOnce'
  <2> SUFFICES ASSUME NEW q \in Page
               PROVE  SubsOf(q)' \subseteq SubsOf(q) /\ OpenedOf(q) \subseteq OpenedOf(q)'
    BY OnceKept DEF SubscribedOnce
  <2>1. subscribing[c] + subscribed[c] = 0
    BY <1>1 DEF Connect, Quiet, Connected
  <2>. QED
    BY <1>1, <2>1 DEF Connect, SubsOf, OpenedOf, Of, Counted
<1>2. ASSUME owner' = owner,
             \A c \in Connection :
                subscribing'[c] + subscribed'[c] <= subscribing[c] + subscribed[c],
             \A c \in Connection : phase[c] \notin {"unused", "connecting"} =>
                phase'[c] \notin {"unused", "connecting"}
      PROVE  SubscribedOnce'
  <2> SUFFICES ASSUME NEW q \in Page
               PROVE  SubsOf(q)' \subseteq SubsOf(q) /\ OpenedOf(q) \subseteq OpenedOf(q)'
    BY OnceKept DEF SubscribedOnce
  <2>1. OpenedOf(q) \subseteq OpenedOf(q)'
    BY <1>2 DEF OpenedOf, Of
  <2>2. Counters'
    BY TypesStep
  <2>3. SubsOf(q)' \subseteq SubsOf(q)
    BY <1>2, <2>2 DEF SubsOf, Of, Counted
  <2>. QED
    BY <2>1, <2>3
<1>3. ASSUME NEW p \in Page, Disconnect(p)
      PROVE  SubscribedOnce'
  BY <1>2, <1>3 DEF Disconnect
\* The callback adds one subscription, to a connection of the page it runs in.
<1>4. ASSUME NEW c \in Connection, Opened(c)
      PROVE  SubscribedOnce'
  <2>1. /\ phase[c] = "connecting" /\ owner[c] \in Page
        /\ UNCHANGED << stompClient, owner, subscribed >>
        /\ phase' = [phase EXCEPT ![c] = "open"]
    BY <1>4 DEF Opened, Owned
  <2>0. PICK o \in Page : o = owner[c]
    BY <2>1
  <2> DEFINE d == stompClient[o]
  <2>13. PICK x : x = << d, subscribing[d] + subscribed[d] + 1 >>
    OBVIOUS
  <2>2. \A e \in Connection : e = d => owner[e] = o
    BY <2>0, <2>1, NobodyAssumption DEF OwnClient
  <2>3. \A e \in Connection :
            /\ subscribing'[e] \in {subscribing[e], subscribing[e] + 1}
            /\ e # d => subscribing'[e] = subscribing[e]
    BY <1>4, <2>0, <2>1 DEF Opened, Target
  <2>4. \A q \in Page : OpenedOf(q) \subseteq OpenedOf(q)'
    BY <2>1 DEF OpenedOf, Of
  <2>5. ASSUME NEW q \in Page, q # o
        PROVE  SubsOf(q)' \subseteq SubsOf(q)
    BY <2>1, <2>2, <2>3, <2>5 DEF SubsOf, Of
  <2>6. SubsOf(o)' \subseteq SubsOf(o) \cup {x}
    <3> SUFFICES ASSUME NEW e \in Connection, NEW n \in Counted, owner[e] = o,
                        n <= subscribing'[e] + subscribed'[e],
                        ~(n <= subscribing[e] + subscribed[e])
                 PROVE  << e, n >> = x
      BY <2>1 DEF SubsOf, Of
    <3>1. e = d /\ n = subscribing[e] + subscribed[e] + 1
      BY <2>1, <2>3 DEF Counted
    <3>. QED
      BY <2>13, <3>1
  <2>7. IsFiniteSet(OpenedOf(o)') /\ OpenedOf(o)' = OpenedOf(o) \cup {c} /\ c \notin OpenedOf(o)
    <3>1. OpenedOf(o)' = OpenedOf(o) \cup {c} /\ c \notin OpenedOf(o)
      BY <2>0, <2>1 DEF OpenedOf, Of
    <3>. QED
      BY <2>1, <3>1, OfFinite, FS_AddElement
  <2>8. Cardinality(OpenedOf(o)') = Cardinality(OpenedOf(o)) + 1
    BY <2>1, <2>7, OfFinite, FS_AddElement
  <2>9. IsFiniteSet(SubsOf(o)) /\ Cardinality(SubsOf(o)) <= Cardinality(OpenedOf(o))
        /\ Cardinality(SubsOf(o)) \in Nat /\ Cardinality(OpenedOf(o)) \in Nat
    BY <2>1, OfFinite, FS_CardinalityType DEF SubscribedOnce
  <2>10. /\ IsFiniteSet(SubsOf(o) \cup {x})
         /\ Cardinality(SubsOf(o) \cup {x}) <= Cardinality(SubsOf(o)) + 1
         /\ Cardinality(SubsOf(o) \cup {x}) \in Nat
    <3>1. /\ IsFiniteSet(SubsOf(o) \cup {x})
          /\ \/ Cardinality(SubsOf(o) \cup {x}) = Cardinality(SubsOf(o))
             \/ Cardinality(SubsOf(o) \cup {x}) = Cardinality(SubsOf(o)) + 1
      BY <2>9, FS_AddElement
    <3>. QED
      BY <2>9, <3>1
  <2>11. /\ IsFiniteSet(SubsOf(o)')
         /\ Cardinality(SubsOf(o)') <= Cardinality(SubsOf(o) \cup {x})
         /\ Cardinality(SubsOf(o)') \in Nat
    BY <2>6, <2>10, FS_Subset, FS_CardinalityType
  <2>12. Cardinality(SubsOf(o)') <= Cardinality(OpenedOf(o)')
    BY <2>8, <2>9, <2>10, <2>11
  <2> HIDE DEF d
  <2>. QED
    BY <2>4, <2>5, <2>11, <2>12, OnceKept DEF SubscribedOnce
<1>5. ASSUME NEW S \in SUBSET Connection, Drop(S)
      PROVE  SubscribedOnce'
  BY <1>2, <1>5 DEF Drop
<1>6. ASSUME NEW c \in Connection, Lost(c)
      PROVE  SubscribedOnce'
  BY <1>5, <1>6 DEF Lost
<1>7. ASSUME AppStops
      PROVE  SubscribedOnce'
  BY <1>5, <1>7 DEF AppStops
<1>8. ASSUME NEW c \in Connection, Register(c)
      PROVE  SubscribedOnce'
  <2>1. \A d \in Connection :
            subscribing'[d] + subscribed'[d] = subscribing[d] + subscribed[d]
    BY <1>8 DEF Register
  <2>. QED
    BY <1>2, <1>8, <2>1 DEF Register
<1>9. ASSUME UNCHANGED << connections, subscribing, subscribed >>
      PROVE  SubscribedOnce'
  BY <1>2, <1>9
<1>. QED
  BY <1>1, <1>3, <1>4, <1>6, <1>7, <1>8, <1>9
  DEF Next, Server, vars, Send, Broadcast, Deliver

\* Nobody types a message twice, and a broadcast takes it off the channel.
LEMMA OnceSentStep ==
    ASSUME MInv, [Next]_vars
    PROVE  OnceSent'
<1> USE DEF MInv, IInv, Data, OnceSent, Untold, connections, broker
<1>1. ASSUME sent' \subseteq sent, unsent' = unsent, shown' = shown,
             \A c \in Connection, m \in Message : outbound[c][m] = 0 => outbound'[c][m] = 0
      PROVE  OnceSent'
  BY <1>1
<1>2. ASSUME NEW p \in Page, NEW m \in Message, Send(p, m)
      PROVE  OnceSent'
  BY <1>2 DEF Send
<1>3. ASSUME NEW c \in Connection, NEW m \in Message, Broadcast(c, m)
      PROVE  OnceSent'
  <2>1. /\ << c, m >> \in sent /\ m \notin unsent /\ UNCHANGED << unsent, shown >>
        /\ sent' = sent \ {<< c, m >>}
        /\ \A d \in Connection : << d, m >> \in sent => d = c
    BY <1>3 DEF Broadcast
  <2>2. \A d \in Connection, n \in Message \ {m} : outbound'[d][n] = outbound[d][n]
    BY <1>3 DEF Broadcast
  <2>. QED
    BY <2>1, <2>2
<1>4. ASSUME NEW c \in Connection, NEW m \in Message, Deliver(c, m)
      PROVE  OnceSent'
  <2>1. m \notin unsent /\ \A d \in Connection : << d, m >> \notin sent
    BY <1>4 DEF Deliver
  <2>2. /\ UNCHANGED << sent, unsent >>
        /\ \A d \in Connection, n \in Message \ {m} : outbound'[d][n] = outbound[d][n]
    BY <1>4 DEF Deliver
  <2>3. \A p \in Page, n \in Message \ {m} : shown'[p][n] = shown[p][n]
    BY <1>4, Delivered DEF Deliver
  <2>. QED
    BY <2>1, <2>2, <2>3
<1>5. ASSUME NEW S \in SUBSET Connection, Drop(S), sent' \subseteq sent
      PROVE  OnceSent'
  BY <1>1, <1>5 DEF Drop, OutboundWithout
<1>6. ASSUME NEW c \in Connection, Lost(c)
      PROVE  OnceSent'
  BY <1>5, <1>6 DEF Lost
<1>7. ASSUME AppStops
      PROVE  OnceSent'
  BY <1>5, <1>7 DEF AppStops
<1>8. ASSUME UNCHANGED << sent, unsent, shown, outbound >>
      PROVE  OnceSent'
  BY <1>1, <1>8
<1>. QED
  BY <1>2, <1>3, <1>4, <1>6, <1>7, <1>8
  DEF Next, Server, vars, Connect, Disconnect, Opened, Register

\* A step after which no more of a message is shown or under way than before.
LEMMA ShownKept ==
    ASSUME MInv, NEW p \in Page, NEW m \in Message,
           CopiesOf(p, m)' \subseteq CopiesOf(p, m), Of(p) \subseteq Of(p)',
           shown'[p][m] = shown[p][m]
    PROVE  /\ IsFiniteSet(CopiesOf(p, m)')
           /\ shown'[p][m] + Cardinality(CopiesOf(p, m)') <= Cardinality(Of(p)')
<1>1. /\ IsFiniteSet(CopiesOf(p, m)) /\ Cardinality(CopiesOf(p, m)) \in Nat
      /\ shown[p][m] + Cardinality(CopiesOf(p, m)) <= Cardinality(Of(p))
      /\ shown[p][m] \in Nat
  BY FS_CardinalityType DEF MInv, ShownOnce, Data
<1>2. IsFiniteSet(CopiesOf(p, m)') /\ Cardinality(CopiesOf(p, m)') <= Cardinality(CopiesOf(p, m))
  BY <1>1, FS_Subset
<1>3. IsFiniteSet(Of(p)')
  BY ConnectionAssumption, FS_Subset DEF Of
<1>4. Cardinality(Of(p)) <= Cardinality(Of(p)')
  BY <1>3, FS_Subset
<1>5. /\ Cardinality(CopiesOf(p, m)') \in Nat /\ Cardinality(Of(p)') \in Nat
      /\ Cardinality(Of(p)) \in Nat
  BY <1>2, <1>3, OfFinite, FS_CardinalityType
<1>. QED
  BY <1>1, <1>2, <1>4, <1>5

LEMMA ShownOnceStep ==
    ASSUME MInv, [Next]_vars
    PROVE  ShownOnce'
<1> USE DEF MInv, IInv, Data, connections, broker
<1>0. Data'
  BY DataStep
<1>1. ASSUME NEW p \in Page, NEW c \in Connection, Connect(p, c)
      PROVE  ShownOnce'
  <2> SUFFICES ASSUME NEW q \in Page, NEW m \in Message
               PROVE  CopiesOf(q, m)' \subseteq CopiesOf(q, m) /\ Of(q) \subseteq Of(q)'
    BY <1>1, ShownKept DEF ShownOnce, Connect
  <2>1. outbound[c][m] = 0 /\ owner[c] = Nobody /\ q # Nobody
    BY <1>1, NobodyAssumption DEF Connect, Quiet, Connected, Unowned
  <2>. QED
    BY <1>1, <2>1 DEF Connect, CopiesOf, Of, Counted
<1>2. ASSUME UNCHANGED << owner, shown >>,
             \A c \in Connection, m \in Message : outbound'[c][m] <= outbound[c][m]
      PROVE  ShownOnce'
  <2> SUFFICES ASSUME NEW q \in Page, NEW m \in Message
               PROVE  CopiesOf(q, m)' \subseteq CopiesOf(q, m) /\ Of(q) \subseteq Of(q)'
    BY <1>2, ShownKept DEF ShownOnce
  <2>1. \A c \in Connection : outbound[c][m] \in Nat /\ outbound'[c][m] \in Nat
    BY <1>0
  <2>. QED
    BY <1>2, <2>1 DEF CopiesOf, Of, Counted
\* Nothing of the message was there: one copy for each subscription of a page.
<1>3. ASSUME NEW c \in Connection, NEW m \in Message, Broadcast(c, m)
      PROVE  ShownOnce'
  <2>1. /\ UNCHANGED << owner, shown >> /\ Untold(m)
        /\ \A d \in Connection : outbound'[d][m] = subscribed[d]
        /\ \A d \in Connection, n \in Message \ {m} : outbound'[d][n] = outbound[d][n]
    <3>1. Untold(m) /\ UNCHANGED << owner, shown >>
      BY <1>3 DEF Broadcast, OnceSent
    <3>2. \A d \in Connection : outbound[d] \in [Message -> Nat] /\ outbound[d][m] = 0
      BY <3>1 DEF Untold
    <3>3. \A d \in Connection : outbound'[d] = [outbound[d] EXCEPT ![m] = @ + subscribed[d]]
      BY <1>3 DEF Broadcast, Copies
    <3>4. \A d \in Connection : subscribed[d] \in Nat
      BY DEF Counters
    <3>5. ASSUME NEW d \in Connection
          PROVE  outbound'[d][m] = subscribed[d]
      <4>1. outbound'[d][m] = outbound[d][m] + subscribed[d]
        BY <3>2, <3>3
      <4>2. outbound[d][m] = 0 /\ subscribed[d] \in Nat
        BY <3>2, <3>4
      <4>. QED
        BY <4>1, <4>2
    <3>6. \A d \in Connection, n \in Message \ {m} : outbound'[d][n] = outbound[d][n]
      BY <3>2, <3>3
    <3>. QED
      BY <3>1, <3>5, <3>6
  <2>2. ASSUME NEW q \in Page, NEW n \in Message \ {m}
        PROVE  /\ IsFiniteSet(CopiesOf(q, n)')
               /\ shown'[q][n] + Cardinality(CopiesOf(q, n)') <= Cardinality(Of(q)')
    <3>1. CopiesOf(q, n)' \subseteq CopiesOf(q, n) /\ Of(q) \subseteq Of(q)'
      BY <2>1 DEF CopiesOf, Of
    <3>. QED
      BY <2>1, <3>1, ShownKept
  <2>3. ASSUME NEW q \in Page
        PROVE  /\ IsFiniteSet(CopiesOf(q, m)')
               /\ shown'[q][m] + Cardinality(CopiesOf(q, m)') <= Cardinality(Of(q)')
    <3>1. CopiesOf(q, m)' \subseteq SubsOf(q)
      BY <2>1 DEF CopiesOf, SubsOf, Of, Counters, Counted
    <3>2. /\ IsFiniteSet(SubsOf(q)) /\ Cardinality(SubsOf(q)) <= Cardinality(OpenedOf(q))
          /\ Cardinality(SubsOf(q)) \in Nat
      BY FS_CardinalityType DEF SubscribedOnce
    <3>3. IsFiniteSet(CopiesOf(q, m)') /\ Cardinality(CopiesOf(q, m)') <= Cardinality(SubsOf(q))
      BY <3>1, <3>2, FS_Subset
    <3>4. /\ Cardinality(CopiesOf(q, m)') \in Nat
          /\ Cardinality(OpenedOf(q)) <= Cardinality(Of(q))
          /\ Cardinality(OpenedOf(q)) \in Nat /\ Cardinality(Of(q)) \in Nat
      BY <3>3, OfFinite, FS_CardinalityType
    <3>5. shown'[q][m] = 0 /\ Of(q)' = Of(q)
      BY <2>1 DEF Untold, Of
    <3>. QED
      BY <3>2, <3>3, <3>4, <3>5
  <2>. QED
    BY <2>2, <2>3 DEF ShownOnce
\* What is shown is no longer under way.
<1>4. ASSUME NEW c \in Connection, NEW m \in Message, Deliver(c, m)
      PROVE  ShownOnce'
  <2>1. /\ owner[c] \in Page /\ owner' = owner
        /\ outbound[c][m] \in Nat /\ outbound[c][m] > 0
        /\ outbound' = [outbound EXCEPT ![c][m] = @ - 1]
        /\ shown' = [shown EXCEPT ![owner[c]][m] = @ + 1]
    BY <1>4, Delivered DEF Deliver
  <2>2. PICK o \in Page : o = owner[c]
    BY <2>1
  <2>3. PICK x : x = << c, outbound[c][m] >>
    OBVIOUS
  <2>4. \A q \in Page, n \in Message : shown'[q][n] =
            IF q = o /\ n = m THEN shown[q][n] + 1 ELSE shown[q][n]
    BY <2>1, <2>2
  <2>5. \A d \in Connection, n \in Message : outbound'[d][n] =
            IF d = c /\ n = m THEN outbound[d][n] - 1 ELSE outbound[d][n]
    BY <2>1
  <2>6. ASSUME NEW q \in Page, NEW n \in Message, ~(q = o /\ n = m)
        PROVE  /\ IsFiniteSet(CopiesOf(q, n)')
               /\ shown'[q][n] + Cardinality(CopiesOf(q, n)') <= Cardinality(Of(q)')
    <3>1. CopiesOf(q, n)' \subseteq CopiesOf(q, n) /\ Of(q) \subseteq Of(q)'
      BY <2>1, <2>2, <2>5, <2>6 DEF CopiesOf, Of, Counted
    <3>. QED
      BY <2>4, <2>6, <3>1, ShownKept
  <2>7. CopiesOf(o, m)' \subseteq CopiesOf(o, m) \ {x}
    <3> SUFFICES ASSUME NEW e \in Connection, NEW n \in Counted, owner[e] = o,
                        n <= outbound'[e][m]
                 PROVE  n <= outbound[e][m] /\ << e, n >> # x
      BY <2>1 DEF CopiesOf, Of
    <3>1. CASE e = c
      BY <2>1, <2>3, <2>5, <3>1 DEF Counted
    <3>2. CASE e # c
      BY <2>3, <2>5, <3>2
    <3>. QED
      BY <3>1, <3>2
  <2>8. x \in CopiesOf(o, m)
    BY <2>1, <2>2, <2>3 DEF CopiesOf, Of, Counted
  <2>9. /\ IsFiniteSet(CopiesOf(o, m)) /\ Cardinality(CopiesOf(o, m)) \in Nat
        /\ shown[o][m] + Cardinality(CopiesOf(o, m)) <= Cardinality(Of(o))
        /\ shown[o][m] \in Nat
    BY FS_CardinalityType DEF ShownOnce
  <2>10. /\ IsFiniteSet(CopiesOf(o, m) \ {x})
         /\ Cardinality(CopiesOf(o, m) \ {x}) = Cardinality(CopiesOf(o, m)) - 1
    BY <2>8, <2>9, FS_RemoveElement
  <2>11. /\ IsFiniteSet(CopiesOf(o, m)')
         /\ Cardinality(CopiesOf(o, m)') <= Cardinality(CopiesOf(o, m) \ {x})
         /\ Cardinality(CopiesOf(o, m)') \in Nat
    BY <2>7, <2>10, FS_Subset, FS_CardinalityType
  <2>12. Of(o)' = Of(o) /\ Cardinality(Of(o)) \in Nat
    BY <2>1, OfFinite DEF Of
  <2>13. /\ IsFiniteSet(CopiesOf(o, m)')
         /\ shown'[o][m] + Cardinality(CopiesOf(o, m)') <= Cardinality(Of(o)')
    BY <2>4, <2>9, <2>10, <2>11, <2>12
  <2>. QED
    BY <2>6, <2>13 DEF ShownOnce
<1>5. ASSUME NEW S \in SUBSET Connection, Drop(S)
      PROVE  ShownOnce'
  <2>1. UNCHANGED << owner, shown >>
    BY <1>5 DEF Drop
  <2>2. \A c \in Connection, m \in Message : outbound'[c][m] \in {0, outbound[c][m]}
    BY <1>5 DEF Drop, OutboundWithout
  <2>3. \A c \in Connection, m \in Message : outbound[c][m] \in Nat
    OBVIOUS
  <2>. QED
    BY <1>2, <2>1, <2>2, <2>3
<1>6. ASSUME NEW c \in Connection, Lost(c)
      PROVE  ShownOnce'
  BY <1>5, <1>6 DEF Lost
<1>7. ASSUME AppStops
      PROVE  ShownOnce'
  BY <1>5, <1>7 DEF AppStops
<1>8. ASSUME UNCHANGED << owner, shown, outbound >>
      PROVE  ShownOnce'
  BY <1>2, <1>8
<1>. QED
  BY <1>1, <1>3, <1>4, <1>6, <1>7, <1>8
  DEF Next, Server, vars, Disconnect, Opened, Send, Register

\* None of the sets is larger than Connection, so neither are the numbers.
LEMMA Bounded == MInv => TypeOK
<1> SUFFICES ASSUME MInv PROVE TypeOK
  OBVIOUS
<1> USE DEF MInv, IInv, Counters, Data
<1>1. Cardinality(Connection) \in Nat
  BY ConnectionAssumption, FS_CardinalityType
<1>2. ASSUME NEW c \in Connection, NEW n \in Nat,
             n <= subscribing[c] + subscribed[c]
      PROVE  n \in Count
  <2>1. CASE owner[c] \in Page
    <3>1. PICK p \in Page : p = owner[c]
      BY <2>1
    <3>2. /\ IsFiniteSet(SubsOf(p)) /\ Cardinality(SubsOf(p)) <= Cardinality(OpenedOf(p))
          /\ Cardinality(SubsOf(p)) \in Nat
      BY FS_CardinalityType DEF SubscribedOnce
    <3>3. \A i \in Counted : i <= n => << c, i >> \in SubsOf(p)
      BY <1>2, <3>1 DEF SubsOf, Of, Counted
    <3>4. n <= Cardinality(SubsOf(p))
      BY <3>2, <3>3, Column
    <3>. QED
      BY <1>1, <3>2, <3>4, OfFinite DEF Count
  <2>2. CASE owner[c] \notin Page
    BY <1>1, <1>2, <2>2 DEF Owned, Quiet, Connected, Count
  <2>. QED
    BY <2>1, <2>2
<1>3. ASSUME NEW c \in Connection, NEW m \in Message
      PROVE  outbound[c][m] \in Count
  <2>1. CASE owner[c] \in Page
    <3>1. PICK p \in Page : p = owner[c]
      BY <2>1
    <3>2. /\ IsFiniteSet(CopiesOf(p, m)) /\ Cardinality(CopiesOf(p, m)) \in Nat
          /\ shown[p][m] + Cardinality(CopiesOf(p, m)) <= Cardinality(Of(p))
          /\ shown[p][m] \in Nat /\ outbound[c][m] \in Nat
      BY FS_CardinalityType DEF ShownOnce
    <3>3. \A i \in Counted : i <= outbound[c][m] => << c, i >> \in CopiesOf(p, m)
      BY <3>1 DEF CopiesOf, Of
    <3>4. outbound[c][m] <= Cardinality(CopiesOf(p, m))
      BY <3>2, <3>3, Column
    <3>. QED
      BY <1>1, <3>2, <3>4, OfFinite DEF Count
  <2>2. CASE owner[c] \notin Page
    BY <1>1, <2>2 DEF Owned, Quiet, Connected, Count
  <2>. QED
    BY <2>1, <2>2
<1>4. ASSUME NEW p \in Page, NEW m \in Message
      PROVE  shown[p][m] \in Count
  <2>1. /\ IsFiniteSet(CopiesOf(p, m)) /\ Cardinality(CopiesOf(p, m)) \in Nat
        /\ shown[p][m] + Cardinality(CopiesOf(p, m)) <= Cardinality(Of(p))
        /\ shown[p][m] \in Nat
    BY FS_CardinalityType DEF ShownOnce
  <2>. QED
    BY <1>1, <2>1, OfFinite DEF Count
<1>5. \A c \in Connection : subscribing[c] \in Count /\ subscribed[c] \in Count
  BY <1>2
<1>. QED
  BY <1>3, <1>4, <1>5 DEF TypeOK, Quiet

LEMMA FewShown == MInv => ShownByClicks
<1> SUFFICES ASSUME MInv, NEW p \in Page, NEW m \in Message
             PROVE  shown[p][m] <= Cardinality(Of(p))
  BY DEF ShownByClicks
<1>1. /\ IsFiniteSet(CopiesOf(p, m)) /\ Cardinality(CopiesOf(p, m)) \in Nat
      /\ shown[p][m] + Cardinality(CopiesOf(p, m)) <= Cardinality(Of(p))
      /\ shown[p][m] \in Nat
  BY FS_CardinalityType DEF MInv, ShownOnce, Data
<1>. QED
  BY <1>1, OfFinite

LEMMA InitMInv == Init => MInv
<1> SUFFICES ASSUME Init PROVE MInv
  OBVIOUS
<1> USE NobodyAssumption DEF Init
<1>1. IInv
  BY DEF IInv, Counters, OwnClient, Owned, CurrentSubscribed, Of
<1>2. Data /\ Quiet /\ Unowned /\ OnceSent
  BY DEF Data, Quiet, Unowned, OnceSent, Untold, Connected
<1>3. ASSUME NEW p \in Page
      PROVE  Of(p) = {} /\ OpenedOf(p) = {} /\ SubsOf(p) = {}
             /\ \A m \in Message : CopiesOf(p, m) = {}
  BY DEF Of, OpenedOf, SubsOf, CopiesOf
<1>4. SubscribedOnce
  <2> SUFFICES ASSUME NEW p \in Page
               PROVE  IsFiniteSet(SubsOf(p)) /\ Cardinality(SubsOf(p)) <= Cardinality(OpenedOf(p))
    BY Zenon DEF SubscribedOnce
  <2>1. SubsOf(p) = {} /\ OpenedOf(p) = {}
    BY <1>3
  <2>2. IsFiniteSet({}) /\ Cardinality({}) = 0
    BY FS_EmptySet
  <2>. QED
    BY <2>1, <2>2
<1>5. ASSUME NEW p \in Page, NEW m \in Message
      PROVE  /\ IsFiniteSet(CopiesOf(p, m))
             /\ shown[p][m] + Cardinality(CopiesOf(p, m)) <= Cardinality(Of(p))
  <2>1. shown[p][m] = 0
    OBVIOUS
  <2>2. CopiesOf(p, m) = {} /\ Of(p) = {}
    BY <1>3
  <2>. QED
    BY <2>1, <2>2, FS_EmptySet
<1>6. ShownOnce
  BY <1>5 DEF ShownOnce
<1>. QED
  BY <1>1, <1>2, <1>4, <1>6 DEF MInv

LEMMA MInvStep == MInv /\ [Next]_vars => MInv'
<1> SUFFICES ASSUME MInv, [Next]_vars PROVE MInv'
  OBVIOUS
<1>1. IInv'
  BY TypesStep, OwnClientStep, SubscribedStep DEF MInv, IInv
<1>. QED
  BY <1>1, DataStep, QuietStep, OnceSentStep, SubscribedOnceStep, ShownOnceStep DEF MInv

\* No connection ever holds more subscriptions or copies than there are clicks
\* on Connect, and one that is not open holds none
\* (realtime-demo.html, connect and its callback).
THEOREM TypeCorrect == Spec => []TypeOK
  BY InitMInv, MInvStep, Bounded, PTL DEF Spec

\* In whatever order connections open, close, are lost and are replaced, and
\* however the frames overtake one another: a message appears in a page at most
\* as often as Connect was clicked there
\* (realtime-demo.html, the subscription in the callback of connect).
THEOREM ShownAtMost == Spec => []ShownByClicks
  BY InitMInv, MInvStep, FewShown, PTL DEF Spec

-----------------------------------------------------------------------------
(***************************************************************************)
(* That a message is heard.  Weak fairness helps an action that stays      *)
(* possible.  That Broadcast and Deliver are, for as long as their frame   *)
(* is there, holds by their guards, which ask for nothing else; but it is  *)
(* about ENABLED, which the prover does not know, and so a premise here.   *)
(***************************************************************************)
CanBeTaken(c, m) ==
    /\ << c, m >> \in sent => ENABLED << Broadcast(c, m) >>_vars
    /\ outbound[c][m] > 0 => ENABLED << Deliver(c, m) >>_vars

FramesCanBeTaken == \A c \in Connection, m \in Message : CanBeTaken(c, m)

Known(d, p) == owner[d] = p /\ subscribed[d] > 0

OnItsWay(d, p, m) == owner[d] = p /\ outbound[d][m] > 0

Cut(c, d) == ~Connected(c) \/ ~Connected(d)

\* A subscription of a page is the page's for as long as the connection lasts.
LEMMA KnownStep ==
    ASSUME MInv, [Next]_vars, NEW d \in Connection, NEW p \in Page, Known(d, p)
    PROVE  Known(d, p)' \/ ~Connected(d)'
<1> USE DEF MInv, IInv, Counters, Data, Quiet, Known, Connected, connections, broker
<1>1. Connected(d)
  OBVIOUS
<1>2. ASSUME NEW q \in Page, NEW c \in Connection, Connect(q, c)
      PROVE  Known(d, p)'
  BY <1>1, <1>2 DEF Connect
<1>3. ASSUME NEW S \in SUBSET Connection, Drop(S)
      PROVE  Known(d, p)' \/ ~Connected(d)'
  BY <1>3 DEF Drop
<1>4. ASSUME NEW c \in Connection, Lost(c)
      PROVE  Known(d, p)' \/ ~Connected(d)'
  BY <1>3, <1>4 DEF Lost
<1>5. CASE AppStops
  BY <1>3, <1>5 DEF AppStops
<1>6. ASSUME NEW c \in Connection, Register(c)
      PROVE  Known(d, p)'
  BY <1>6 DEF Register
<1>7. ASSUME UNCHANGED << owner, subscribed >>
      PROVE  Known(d, p)'
  BY <1>7
<1>. QED
  BY <1>2, <1>4, <1>5, <1>6, <1>7
  DEF Next, Server, Disconnect, Send, Opened, Broadcast, Deliver, vars

\* A message that is sent stays so until it is broadcast to the page.
LEMMA SentStep ==
    ASSUME MInv, [Next]_vars, NEW c \in Connection, NEW d \in Connection,
           NEW p \in Page, NEW m \in Message, << c, m >> \in sent, Known(d, p)
    PROVE  << c, m >> \in sent' \/ OnItsWay(d, p, m)' \/ Cut(c, d)'
<1> USE DEF MInv, IInv, Counters, Data, Known, Cut, Connected, connections, broker
<1>1. ASSUME NEW e \in Connection, NEW n \in Message, Broadcast(e, n)
      PROVE  << c, m >> \in sent' \/ OnItsWay(d, p, m)'
  <2>1. CASE << e, n >> = << c, m >>
    <3>1. outbound'[d][m] = outbound[d][m] + subscribed[d] /\ owner' = owner
      BY <1>1, <2>1 DEF Broadcast, Copies
    <3>. QED
      BY <3>1 DEF OnItsWay
  <2>. QED
    BY <1>1, <2>1 DEF Broadcast
<1>2. ASSUME NEW e \in Connection, Lost(e)
      PROVE  << c, m >> \in sent' \/ Cut(c, d)'
  BY <1>2 DEF Lost, Drop
<1>3. CASE AppStops
  BY <1>3 DEF AppStops, Drop, Quiet
<1>4. ASSUME sent \subseteq sent'
      PROVE  << c, m >> \in sent'
  BY <1>4
<1>. QED
  BY <1>1, <1>2, <1>3, <1>4
  DEF Next, Server, Connect, Disconnect, Send, Opened, Register, Deliver, vars

\* A copy stays on its way until the page shows it.
LEMMA WayStep ==
    ASSUME MInv, [Next]_vars, NEW d \in Connection, NEW p \in Page,
           NEW m \in Message, OnItsWay(d, p, m)
    PROVE  /\ OnItsWay(d, p, m)' \/ shown'[p][m] > 0 \/ ~Connected(d)'
           /\ Deliver(d, m) => shown'[p][m] > 0
<1> USE DEF MInv, IInv, Counters, Data, Quiet, OnItsWay, Connected, connections, broker
<1>1. Connected(d)
  OBVIOUS
<1>2. Deliver(d, m) => shown'[p][m] > 0
  BY DEF Deliver
<1>3. ASSUME NEW q \in Page, NEW c \in Connection, Connect(q, c)
      PROVE  OnItsWay(d, p, m)'
  BY <1>1, <1>3 DEF Connect
<1>4. ASSUME NEW S \in SUBSET Connection, Drop(S)
      PROVE  OnItsWay(d, p, m)' \/ ~Connected(d)'
  BY <1>4 DEF Drop, OutboundWithout
<1>5. ASSUME NEW c \in Connection, Lost(c)
      PROVE  OnItsWay(d, p, m)' \/ ~Connected(d)'
  BY <1>4, <1>5 DEF Lost
<1>6. ASSUME AppStops
      PROVE  OnItsWay(d, p, m)' \/ ~Connected(d)'
  BY <1>4, <1>6 DEF AppStops
<1>7. ASSUME NEW c \in Connection, NEW n \in Message, Broadcast(c, n)
      PROVE  OnItsWay(d, p, m)'
  BY <1>7 DEF Broadcast, Copies
<1>8. ASSUME NEW c \in Connection, NEW n \in Message, Deliver(c, n)
      PROVE  OnItsWay(d, p, m)' \/ shown'[p][m] > 0
  <2>1. CASE c = d /\ n = m
    BY <1>2, <1>8, <2>1
  <2>. QED
    BY <1>8, <2>1 DEF Deliver
<1>9. ASSUME UNCHANGED << owner, outbound >>
      PROVE  OnItsWay(d, p, m)'
  BY <1>9
<1>. QED
  BY <1>2, <1>3, <1>5, <1>6, <1>7, <1>8, <1>9
  DEF Next, Server, Disconnect, Send, Opened, Register, vars

\* A message that finds the subscription of a page is shown there in the end, or
\* one of the two connections is lost, whatever else is sent, opened and lost
\* meanwhile.  The premise FramesCanBeTaken only spells out the guards of the
\* two actions that weak fairness is about.
THEOREM AllHeard == FairSpec /\ []FramesCanBeTaken => Heard
<1> SUFFICES ASSUME NEW c \in Connection, NEW d \in Connection,
                    NEW p \in Page, NEW m \in Message
             PROVE  FairSpec /\ []FramesCanBeTaken =>
                      ((<< c, m >> \in sent /\ owner[d] = p /\ subscribed[d] > 0)
                         ~> (shown[p][m] > 0 \/ ~Connected(c) \/ ~Connected(d)))
  BY DEF Heard
<1>1. Fairness => TakesFrames(c, m) /\ TakesFrames(d, m)
  BY DEF Fairness
<1>2. FramesCanBeTaken => CanBeTaken(c, m) /\ CanBeTaken(d, m)
  BY DEF FramesCanBeTaken
<1>3. MInv /\ << c, m >> \in sent /\ Known(d, p) /\ [Next]_vars
          => \/ (<< c, m >> \in sent /\ Known(d, p))'
             \/ OnItsWay(d, p, m)' \/ Cut(c, d)'
  BY KnownStep, SentStep DEF Cut
<1>4. MInv /\ << c, m >> \in sent /\ Known(d, p) /\ [Next]_vars /\ << Broadcast(c, m) >>_vars
          => OnItsWay(d, p, m)' \/ Cut(c, d)'
  <2>1. Broadcast(c, m) => << c, m >> \notin sent'
    BY DEF Broadcast
  <2>. QED
    BY <2>1, SentStep
<1>5. MInv /\ OnItsWay(d, p, m) /\ [Next]_vars
          => OnItsWay(d, p, m)' \/ (shown[p][m] > 0)' \/ Cut(c, d)'
  BY WayStep DEF Cut
<1>6. MInv /\ OnItsWay(d, p, m) /\ [Next]_vars /\ << Deliver(d, m) >>_vars
          => (shown[p][m] > 0)'
  BY WayStep
<1>7. FairSpec /\ []FramesCanBeTaken
          => (<< c, m >> \in sent /\ Known(d, p)) ~> (OnItsWay(d, p, m) \/ Cut(c, d))
  BY <1>1, <1>2, <1>3, <1>4, InitMInv, MInvStep, PTL
  DEF FairSpec, Spec, TakesFrames, CanBeTaken, OnItsWay
<1>8. FairSpec /\ []FramesCanBeTaken
          => OnItsWay(d, p, m) ~> (shown[p][m] > 0 \/ Cut(c, d))
  BY <1>1, <1>2, <1>5, <1>6, InitMInv, MInvStep, PTL
  DEF FairSpec, Spec, TakesFrames, CanBeTaken, OnItsWay
<1>. QED
  BY <1>7, <1>8, PTL DEF Known, Cut
===============================================================================
