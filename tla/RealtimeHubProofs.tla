-------------------------- MODULE RealtimeHubProofs --------------------------
(***************************************************************************)
(* The lock discipline of the WebSocket hub, for any number of battles,    *)
(* clients and publishers, any buffer size and any schedule: the map of    *)
(* connections and the connections agree, and no closed channel is used;   *)
(* the events of a battle reach each of its clients in the order they were *)
(* emitted, and none vanishes.                                             *)
(*                                                                         *)
(* The invariant that carries it is what the read lock is for: while a     *)
(* broadcast is under way, the connections it has still to come to are all *)
(* being served, because unsubscribe has to wait for the lock.  For the    *)
(* order, the places an event passes hold sets of events, each emitted     *)
(* before the next, and an event moves from the end of one to the other.   *)
(***************************************************************************)
EXTENDS RealtimeHub, TLAPS

USE RealtimeAssumption

-----------------------------------------------------------------------------
(* Types *)

LEMMA ChannelParts ==
    \A ch \in Channels : ch[1] \in Battles
BY DEF Channels, BattleChannel, MemberChannel

\* A function on the positions of a sequence is one.
LEMMA Mapped ==
    ASSUME NEW S, NEW T, NEW s \in Seq(S), NEW f \in [DOMAIN s -> T]
    PROVE  f \in Seq(T)
OBVIOUS

LEMMA PublicationTypes ==
    \A b \in Battles : Publications(b) \subseteq Seq(Channels)
<1> SUFFICES ASSUME NEW b \in Battles
             PROVE  Publications(b) \subseteq Seq(Channels)
    OBVIOUS
<1>1. BattleChannel(b) \in Channels /\ \A s \in Students : MemberChannel(b, s) \in Channels
      BY DEF Channels
<1>2. PublishBattle(b) \in Seq(Channels)
  <2> DEFINE ch == BattleChannel(b)
  <2>1. ch \in Channels
        BY <1>1
  <2> HIDE DEF ch
  <2>2. <<ch>> \in Seq(Channels)
        BY <2>1
  <2> QED BY <2>2 DEF PublishBattle, ch
<1>3. \A s \in Students : PublishMember(b, s) \in Seq(Channels)
      BY <1>1 DEF PublishMember
<1>4. ASSUME NEW ms \in MemberLists
      PROVE  PublishBattleWithMembers(b, ms) \in Seq(Channels)
  <2>1. ms \in Seq(Students)
        BY DEF RealtimeAssumption
  <2>2. [i \in DOMAIN ms |-> MemberChannel(b, ms[i])] \in Seq(Channels)
        BY <1>1, <2>1
  <2> QED BY <1>2, <2>2 DEF PublishBattleWithMembers
<1> QED BY <1>2, <1>3, <1>4 DEF Publications

LEMMA NextEventType ==
    ASSUME TypeOK, NEW p \in Publishers, publisher[p] # <<>>
    PROVE  NextEvent(p) \in Event
<1>1. Head(publisher[p]) \in Channels
      BY DEF TypeOK
<1> QED BY <1>1, ChannelParts DEF NextEvent, Event, TypeOK

LEMMA IdsAreNumbers == \A events \in Seq(Event) : Ids(events) \subseteq Nat
<1> SUFFICES ASSUME NEW events \in Seq(Event), NEW i \in DOMAIN events
             PROVE  events[i].id \in Nat
    BY DEF Ids
<1>1. events[i] \in Event
      OBVIOUS
<1> QED BY <1>1 DEF Event

\* The fields of a connection, and how they are updated.
LEMMA ConnFields ==
    ASSUME NEW r \in ConnState
    PROVE  /\ r.send \in Seq(Event) /\ r.out \in Seq(Event) /\ r.got \in Seq(Event)
           /\ r.missed \subseteq Nat /\ r.closed \in BOOLEAN
BY DEF ConnState

LEMMA WithGot ==
    ASSUME NEW r \in ConnState, NEW got \in Seq(Event)
    PROVE  [r EXCEPT !.got = got] \in ConnState
BY DEF ConnState

LEMMA WithSend ==
    ASSUME NEW r \in ConnState, NEW send \in Seq(Event)
    PROVE  [r EXCEPT !.send = send] \in ConnState
BY DEF ConnState

LEMMA WithMissed ==
    ASSUME NEW r \in ConnState, NEW missed \in SUBSET Nat
    PROVE  [r EXCEPT !.missed = missed] \in ConnState
BY DEF ConnState

LEMMA WithWriter ==
    ASSUME NEW r \in ConnState, NEW out \in Seq(Event), NEW w \in {"idle", "writing", "done"}
    PROVE  [r EXCEPT !.out = out, !.writer = w] \in ConnState
BY DEF ConnState

LEMMA WithWriterOnly ==
    ASSUME NEW r \in ConnState, NEW w \in {"idle", "writing", "done"}
    PROVE  [r EXCEPT !.writer = w] \in ConnState
BY DEF ConnState

LEMMA WithLink ==
    ASSUME NEW r \in ConnState
    PROVE  [r EXCEPT !.link = "gone"] \in ConnState
BY DEF ConnState

LEMMA WithAt ==
    ASSUME NEW r \in ConnState, NEW a \in {"attached", "left"}
    PROVE  [r EXCEPT !.at = a] \in ConnState
BY DEF ConnState

LEMMA EmptyEvents == <<>> \in Seq(Event)
OBVIOUS

LEMMA FreshTypes == NewConn \in ConnState
BY EmptyEvents DEF NewConn, ConnState

LEMMA ServedType ==
    ASSUME TypeOK
    PROVE  Served \in ConnState
<1>1. Len(published) \in Nat
      BY DEF TypeOK
<1> QED BY <1>1, EmptyEvents DEF Served, NewConn, ConnState

LEMMA ClosedType ==
    ASSUME NEW r \in ConnState
    PROVE  Closed(r) \in ConnState
BY EmptyEvents DEF Closed, ConnState

LEMMA OfferedType ==
    ASSUME NEW r \in ConnState, NEW e \in Event
    PROVE  Offered(r, e) \in ConnState
<1>1. Append(r.send, e) \in Seq(Event)
      BY ConnFields
<1>2. r.missed \cup {e.id} \in SUBSET Nat
      BY ConnFields DEF Event
<1>3. /\ [r EXCEPT !.send = Append(@, e)] = [r EXCEPT !.send = Append(r.send, e)]
      /\ [r EXCEPT !.missed = @ \cup {e.id}] = [r EXCEPT !.missed = r.missed \cup {e.id}]
      OBVIOUS
<1> QED BY <1>1, <1>2, <1>3, WithSend, WithMissed DEF Offered

LEMMA EmitTypes ==
    ASSUME TypeOK, NEW p \in Publishers, Emit(p)
    PROVE  TypeOK'
<1> DEFINE e == NextEvent(p)
<1>1. e \in Event /\ e.id \in Nat
      BY NextEventType DEF Emit, Event
<1> HIDE DEF e
<1>2. AblyDelivered(e) \in [Conns -> ConnState]
  <2> SUFFICES ASSUME NEW c \in Conns
               PROVE  [conn[c] EXCEPT !.got = Append(@, e)] \in ConnState
      BY DEF AblyDelivered, TypeOK
  <2>1. conn[c] \in ConnState
        BY DEF TypeOK
  <2>2. Append(conn[c].got, e) \in Seq(Event)
        BY <1>1, <2>1, ConnFields
  <2> QED BY <2>1, <2>2, WithGot
<1>3. publisher' \in [Publishers -> Seq(Channels)]
      BY DEF Emit, TypeOK
<1>4. published' = Append(published, e) /\ published' \in Seq(Event)
      BY <1>1 DEF Emit, TypeOK, e
<1>5. pending' \in Seq(Event) /\ lost' \subseteq Nat
  <2>1. pending' \in {pending, Append(pending, e)} /\ lost' \in {lost, lost \cup {e.id}}
        BY DEF Emit, e
  <2>2. pending \in Seq(Event) /\ lost \subseteq Nat
        BY DEF TypeOK
  <2>3. Append(pending, e) \in Seq(Event)
        BY <1>1, <2>2
  <2> QED BY <1>1, <2>1, <2>2, <2>3
<1>6. conn' \in [Conns -> ConnState]
  <2>1. conn' = conn \/ conn' = AblyDelivered(e)
        BY DEF Emit, e
  <2> QED BY <1>2, <2>1 DEF TypeOK
<1>7. UNCHANGED <<driver, listener, subs, panicked>>
      BY DEF Emit
<1> QED BY <1>3, <1>4, <1>5, <1>6, <1>7 DEF TypeOK

LEMMA ReceiveTypes ==
    ASSUME TypeOK, Receive
    PROVE  TypeOK'
<1>1. Head(pending) \in Event /\ Tail(pending) \in Seq(Event)
      BY DEF TypeOK, Receive
<1>2. \A b : Subscribers(b) \subseteq Conns
      BY DEF Subscribers, TypeOK
<1>3. Waiting \in ListenerState
      BY EmptyEvents DEF Waiting, ListenerState
<1>4. listener' \in ListenerState
  <2> DEFINE e == Head(pending)
  <2> HIDE DEF e
  <2>1. <<e>> \in Seq(Event)
        BY <1>1 DEF e
  <2>2. listener' = Waiting
        \/ listener' = [at |-> "broadcast", event |-> <<e>>, todo |-> Subscribers(e.battle)]
        BY DEF Receive, e
  <2>3. Subscribers(e.battle) \in SUBSET Conns
        BY <1>2
  <2>4. ASSUME NEW event \in Seq(Event), NEW todo \in SUBSET Conns
        PROVE  [at |-> "broadcast", event |-> event, todo |-> todo] \in ListenerState
        BY DEF ListenerState
  <2> QED BY <1>3, <2>1, <2>2, <2>3, <2>4
<1> QED BY <1>1, <1>4 DEF Receive, TypeOK

LEMMA SendTypes ==
    ASSUME TypeOK, NEW c \in Conns, SendTo(c), listener.event # <<>>
    PROVE  TypeOK'
<1> DEFINE e == listener.event[1]
<1>1. e \in Event
  <2>1. listener.event \in Seq(Event)
        BY DEF TypeOK, ListenerState
  <2> QED BY <2>1
<1> HIDE DEF e
<1>2. Offered(conn[c], e) \in ConnState
      BY <1>1, OfferedType DEF TypeOK
<1>3. conn' \in [Conns -> ConnState]
  <2>1. conn' = conn \/ conn' = [conn EXCEPT ![c] = Offered(conn[c], e)]
        BY DEF SendTo, e
  <2> QED BY <1>2, <2>1 DEF TypeOK
<1>4. listener' \in ListenerState
      BY EmptyEvents DEF SendTo, TypeOK, ListenerState, Waiting
<1>5. panicked' \in BOOLEAN
      BY DEF SendTo, TypeOK
<1> QED BY <1>3, <1>4, <1>5 DEF SendTo, TypeOK, wireVars

\* A broadcast has an event to send.
EventHeld == listener.at = "broadcast" => listener.event # <<>>

LEMMA ServeTypes ==
    ASSUME TypeOK, NEW c \in Conns,
           Attach(c) \/ Subscribe(c) \/ Unsubscribe(c) \/ ClientLeaves(c)
    PROVE  TypeOK'
<1>1. conn[c] \in ConnState
      BY DEF TypeOK
<1>2. CASE Attach(c)
  <2>1. conn' = [conn EXCEPT ![c] = [conn[c] EXCEPT !.at = "attached"]]
        BY <1>2 DEF Attach
  <2>2. conn' \in [Conns -> ConnState]
        BY <1>1, <2>1, WithAt DEF TypeOK
  <2> QED BY <1>2, <2>2 DEF Attach, TypeOK, wireVars
<1>3. CASE Subscribe(c)
  <2>1. conn' \in [Conns -> ConnState]
        BY <1>3, ServedType DEF Subscribe, TypeOK
  <2>2. DOMAIN subs' \subseteq Battles /\ \A b \in DOMAIN subs' : subs'[b] \subseteq Conns
        BY <1>3 DEF Subscribe, Subscribers, TypeOK, RealtimeAssumption
  <2> QED BY <1>3, <2>1, <2>2 DEF Subscribe, TypeOK, wireVars
<1>4. CASE Unsubscribe(c)
  <2>1. \/ conn' = [conn EXCEPT ![c] = Closed(conn[c])]
        \/ conn' = [conn EXCEPT ![c] = [conn[c] EXCEPT !.at = "left"]]
        BY <1>4 DEF Unsubscribe
  <2>2. conn' \in [Conns -> ConnState]
        BY <1>1, <2>1, ClosedType, WithAt DEF TypeOK
  <2>3. DOMAIN subs' \subseteq Battles /\ \A b \in DOMAIN subs' : subs'[b] \subseteq Conns
    <3>1. subs' = subs \/ subs' = Removed(c, Watches[c])
          BY <1>4 DEF Unsubscribe
    <3>2. DOMAIN subs \subseteq Battles /\ \A b \in DOMAIN subs : subs[b] \subseteq Conns
          BY DEF TypeOK
    <3>3. CASE subs' = Removed(c, Watches[c])
          BY <3>2, <3>3 DEF Removed
    <3> QED BY <3>1, <3>2, <3>3
  <2>4. panicked' \in BOOLEAN
        BY <1>1, <1>4, ConnFields DEF Unsubscribe, TypeOK
  <2> QED BY <1>4, <2>2, <2>3, <2>4 DEF Unsubscribe, TypeOK, wireVars
<1>5. CASE ClientLeaves(c)
  <2>1. conn' = [conn EXCEPT ![c] = [conn[c] EXCEPT !.link = "gone"]]
        BY <1>5 DEF ClientLeaves
  <2>2. conn' \in [Conns -> ConnState]
        BY <1>1, <2>1, WithLink DEF TypeOK
  <2> QED BY <1>5, <2>2 DEF ClientLeaves, TypeOK, wireVars
<1> QED BY <1>2, <1>3, <1>4, <1>5

LEMMA WriterTypes ==
    ASSUME TypeOK, NEW c \in Conns, WriterStep(c)
    PROVE  TypeOK'
<1> DEFINE cn == conn[c]
<1>1. cn \in ConnState
      BY DEF TypeOK
<1>2. ASSUME NEW r \in ConnState, conn' = [conn EXCEPT ![c] = r]
      PROVE  conn' \in [Conns -> ConnState]
      BY <1>2 DEF TypeOK
<1>3. CASE WriterTake(c) /\ cn.send # <<>>
  <2> DEFINE rest == [cn EXCEPT !.send = Tail(cn.send)]
             r == [rest EXCEPT !.out = <<Head(cn.send)>>, !.writer = "writing"]
  <2>1. Head(cn.send) \in Event /\ Tail(cn.send) \in Seq(Event)
        BY <1>1, <1>3, ConnFields
  <2>2. rest \in ConnState
        BY <1>1, <2>1, WithSend
  <2>3. <<Head(cn.send)>> \in Seq(Event)
        BY <2>1
  <2>4. r \in ConnState
    <3> HIDE DEF rest
    <3> QED BY <2>2, <2>3, WithWriter
  <2>5. conn' = [conn EXCEPT ![c] = r]
        BY <1>3 DEF WriterTake
  <2> QED BY <1>2, <1>3, <2>4, <2>5 DEF WriterTake, TypeOK, wireVars
<1>4. CASE WriterTake(c) /\ cn.send = <<>>
  <2>1. conn' = [conn EXCEPT ![c] = [cn EXCEPT !.writer = "done"]]
        BY <1>4 DEF WriterTake
  <2>2. [cn EXCEPT !.writer = "done"] \in ConnState
        BY <1>1, WithWriterOnly
  <2> QED BY <1>2, <1>4, <2>1, <2>2 DEF WriterTake, TypeOK, wireVars
<1>5. CASE Write(c)
  <2> DEFINE more == [cn EXCEPT !.got = cn.got \o cn.out]
             r == [more EXCEPT !.out = <<>>, !.writer = "idle"]
  <2>1. cn.got \o cn.out \in Seq(Event)
        BY <1>1, ConnFields
  <2>2. more \in ConnState
        BY <1>1, <2>1, WithGot
  <2>3. r \in ConnState
    <3> HIDE DEF more
    <3> QED BY <2>2, WithWriter, EmptyEvents
  <2>4. conn' = [conn EXCEPT ![c] = r]
        BY <1>5 DEF Write
  <2> QED BY <1>2, <1>5, <2>3, <2>4 DEF Write, TypeOK, wireVars
<1>6. CASE WriteFails(c)
  <2> DEFINE less == [cn EXCEPT !.missed = cn.missed \cup Ids(cn.out)]
             done == [less EXCEPT !.out = <<>>, !.writer = "done"]
             r == [done EXCEPT !.link = "gone"]
  <2>1. cn.missed \cup Ids(cn.out) \in SUBSET Nat
        BY <1>1, ConnFields, IdsAreNumbers
  <2>2. less \in ConnState
        BY <1>1, <2>1, WithMissed
  <2>3. done \in ConnState
    <3> HIDE DEF less
    <3> QED BY <2>2, WithWriter, EmptyEvents
  <2>4. r \in ConnState
    <3> HIDE DEF done
    <3> QED BY <2>3, WithLink
  <2>5. conn' = [conn EXCEPT ![c] = r]
        BY <1>6 DEF WriteFails
  <2> QED BY <1>2, <1>6, <2>4, <2>5 DEF WriteFails, TypeOK, wireVars
<1> QED BY <1>3, <1>4, <1>5, <1>6 DEF WriterStep

LEMMA NextTypes ==
    ASSUME TypeOK, EventHeld, [Next]_vars
    PROVE  TypeOK' /\ EventHeld'
<1>1. ASSUME NEW p \in Publishers, BeginPublish(p)
      PROVE  TypeOK' /\ EventHeld'
  <2>1. publisher' \in [Publishers -> Seq(Channels)]
        BY <1>1, PublicationTypes DEF BeginPublish, TypeOK
  <2> QED BY <1>1, <2>1 DEF BeginPublish, TypeOK, EventHeld, hubVars
<1>2. ASSUME NEW p \in Publishers, Emit(p)
      PROVE  TypeOK' /\ EventHeld'
      BY <1>2, EmitTypes DEF Emit, EventHeld
<1>3. ASSUME NEW p \in Publishers, EmitFails(p)
      PROVE  TypeOK' /\ EventHeld'
  <2>1. publisher' \in [Publishers -> Seq(Channels)]
        BY <1>3 DEF EmitFails, TypeOK
  <2> QED BY <1>3, <2>1 DEF EmitFails, TypeOK, EventHeld, hubVars
<1>4. CASE Listen
      BY <1>4 DEF Listen, TypeOK, EventHeld, Waiting, ListenerState, wireVars
<1>5. CASE ListenError
      BY <1>5, IdsAreNumbers DEF ListenError, TypeOK, EventHeld, ListenerState
<1>6. CASE Receive
  <2>1. EventHeld'
        BY <1>6 DEF Receive, EventHeld, Waiting
  <2> QED BY <1>6, <2>1, ReceiveTypes
<1>7. ASSUME NEW c \in Conns, SendTo(c)
      PROVE  TypeOK' /\ EventHeld'
  <2>1. listener.event # <<>>
        BY <1>7 DEF SendTo, EventHeld
  <2>2. EventHeld'
        BY <1>7, <2>1 DEF SendTo, EventHeld, Waiting, TypeOK, ListenerState
  <2> QED BY <1>7, <2>1, <2>2, SendTypes
<1>8. ASSUME NEW c \in Conns,
             Attach(c) \/ Subscribe(c) \/ Unsubscribe(c) \/ ClientLeaves(c)
      PROVE  TypeOK' /\ EventHeld'
      BY <1>8, ServeTypes DEF Attach, Subscribe, Unsubscribe, ClientLeaves, EventHeld
<1>9. ASSUME NEW c \in Conns, WriterStep(c)
      PROVE  TypeOK' /\ EventHeld'
      BY <1>9, WriterTypes DEF WriterStep, WriterTake, Write, WriteFails, EventHeld
<1>10. CASE UNCHANGED vars
       BY <1>10 DEF vars, wireVars, hubVars, TypeOK, EventHeld
<1> QED BY <1>1, <1>2, <1>3, <1>4, <1>5, <1>6, <1>7, <1>8, <1>9, <1>10
        DEF Next, Broadcast

LEMMA InitTypes == Init => TypeOK /\ EventHeld
<1> SUFFICES ASSUME Init
             PROVE  TypeOK /\ EventHeld
    OBVIOUS
<1>1. [Waiting EXCEPT !.at = "down"] \in ListenerState
      BY EmptyEvents DEF Waiting, ListenerState
<1>2. conn \in [Conns -> ConnState]
      BY FreshTypes DEF Init
<1>3. publisher \in [Publishers -> Seq(Channels)]
      BY DEF Init
<1>4. DOMAIN subs = {}
      BY DEF Init
<1>5. published \in Seq(Event) /\ pending \in Seq(Event)
      BY EmptyEvents DEF Init
<1>6. listener \in ListenerState /\ EventHeld
      BY <1>1 DEF Init, EventHeld, Waiting
<1> QED BY <1>2, <1>3, <1>4, <1>5, <1>6 DEF Init, TypeOK

LEMMA TypeInvariant == Spec => [](TypeOK /\ EventHeld)
BY InitTypes, NextTypes, PTL DEF Spec

\* Every variable keeps its type.
THEOREM HubTypeCorrect == Spec => []TypeOK
BY TypeInvariant, PTL

-----------------------------------------------------------------------------
(* The lock *)

\* Why a broadcast may send: what it has still to come to is in the hub.
BroadcastSafe ==
    listener.at = "broadcast" => \A c \in listener.todo : InHub(c)

HubInv == NoPanic /\ HubMatchesConnections /\ BroadcastSafe

\* A connection in the hub has an open channel.
LEMMA OpenInHub ==
    ASSUME TypeOK, HubInv, NEW c \in Conns, InHub(c)
    PROVE  ~conn[c].closed
BY DEF HubInv, HubMatchesConnections, Subscribers

\* What the hub looks at in a connection.
SameForHub(c) == conn'[c].at = conn[c].at /\ conn'[c].closed = conn[c].closed

\* The invariant looks at nothing else.
LEMMA HubInvKept ==
    ASSUME HubInv, \A c \in Conns : SameForHub(c), UNCHANGED <<subs, panicked>>,
           BroadcastSafe', DOMAIN subs \subseteq Battles,
           \A b \in DOMAIN subs : subs[b] \subseteq Conns
    PROVE  HubInv'
BY DEF HubInv, NoPanic, HubMatchesConnections, InHub, Subscribers, SameForHub

\* The same when the listener does not begin a broadcast.
LEMMA QuietStep ==
    ASSUME TypeOK, HubInv, \A c \in Conns : SameForHub(c),
           UNCHANGED <<subs, panicked>>,
           \/ UNCHANGED listener
           \/ listener'.at # "broadcast"
           \/ (listener.at = "broadcast" /\ listener'.todo \subseteq listener.todo)
    PROVE  HubInv'
<1>1. DOMAIN subs \subseteq Battles /\ \A b \in DOMAIN subs : subs[b] \subseteq Conns
      BY DEF TypeOK
<1>2. listener.todo \subseteq Conns
      BY DEF TypeOK, ListenerState
<1>3. BroadcastSafe'
      BY <1>2 DEF HubInv, BroadcastSafe, InHub, SameForHub
<1> QED BY <1>1, <1>3, HubInvKept

\* An update of one connection that leaves the two fields alone.
LEMMA OneConnection ==
    ASSUME TypeOK, NEW c \in Conns, NEW r, conn' = [conn EXCEPT ![c] = r],
           r.at = conn[c].at, r.closed = conn[c].closed
    PROVE  \A d \in Conns : SameForHub(d)
BY DEF TypeOK, SameForHub

LEMMA EmitKeeps ==
    ASSUME TypeOK, HubInv, NEW p \in Publishers, Emit(p)
    PROVE  HubInv'
<1>1. conn' = conn \/ conn' = AblyDelivered(NextEvent(p))
      BY DEF Emit
<1>2. ASSUME NEW c \in Conns, NEW got
      PROVE  /\ [conn[c] EXCEPT !.got = got].at = conn[c].at
             /\ [conn[c] EXCEPT !.got = got].closed = conn[c].closed
      BY DEF TypeOK, ConnState
<1>3. ASSUME NEW c \in Conns
      PROVE  SameForHub(c)
  <2>1. conn'[c] = conn[c]
          \/ conn'[c] = [conn[c] EXCEPT !.got = Append(conn[c].got, NextEvent(p))]
        BY <1>1 DEF AblyDelivered
  <2> QED BY <1>2, <2>1 DEF SameForHub
<1> QED BY <1>3, QuietStep DEF Emit

\* A broadcast starts with the connections the map has for its battle.
LEMMA ReceiveKeeps ==
    ASSUME TypeOK, HubInv, Receive
    PROVE  HubInv'
<1>1. \A b : \A c \in Subscribers(b) : InHub(c)
      BY DEF HubInv, HubMatchesConnections, Subscribers
<1>2. UNCHANGED <<subs, panicked, conn>>
      BY DEF Receive
<1>3. listener' = Waiting \/ \E b : listener'.todo = Subscribers(b)
      BY DEF Receive
<1>4. BroadcastSafe'
      BY <1>1, <1>2, <1>3 DEF BroadcastSafe, InHub, Waiting
<1>5. DOMAIN subs \subseteq Battles /\ \A b \in DOMAIN subs : subs[b] \subseteq Conns
      BY DEF TypeOK
<1> QED BY <1>2, <1>4, <1>5, HubInvKept DEF SameForHub

LEMMA SendKeeps ==
    ASSUME TypeOK, HubInv, NEW c \in Conns, SendTo(c)
    PROVE  HubInv'
<1>1. InHub(c)
      BY DEF SendTo, HubInv, BroadcastSafe
<1>2. ~conn[c].closed
      BY <1>1, OpenInHub
<1>3. conn' = [conn EXCEPT ![c] = Offered(conn[c], listener.event[1])] /\ UNCHANGED panicked
      BY <1>2 DEF SendTo
<1>4. /\ Offered(conn[c], listener.event[1]).at = conn[c].at
      /\ Offered(conn[c], listener.event[1]).closed = conn[c].closed
  <2>1. conn[c] \in ConnState
        BY DEF TypeOK
  <2> QED BY <2>1 DEF Offered, ConnState
<1>5. \A d \in Conns : SameForHub(d)
      BY <1>3, <1>4, OneConnection
<1>6. listener'.at # "broadcast"
        \/ (listener.at = "broadcast" /\ listener'.todo \subseteq listener.todo)
      BY DEF SendTo, Waiting, TypeOK, ListenerState
<1> QED BY <1>3, <1>5, <1>6, QuietStep DEF SendTo

LEMMA SubscribeKeeps ==
    ASSUME TypeOK, HubInv, NEW c \in Conns, Subscribe(c)
    PROVE  HubInv'
<1> DEFINE b == Watches[c]
<1>1. /\ subs' = [x \in DOMAIN subs \cup {b} |->
                    IF x = b THEN Subscribers(b) \cup {c} ELSE subs[x]]
      /\ conn' = [conn EXCEPT ![c] = Served]
      /\ UNCHANGED <<listener, panicked>> /\ Lockable
      BY DEF Subscribe
<1>2. Served.at = "reading" /\ ~Served.closed
      BY DEF Served, NewConn
<1>3. /\ conn'[c].at = "reading" /\ ~conn'[c].closed
      /\ \A d \in Conns : d # c => conn'[d] = conn[d]
      BY <1>1, <1>2 DEF TypeOK
<1>4. ASSUME NEW x \in DOMAIN subs'
      PROVE  /\ subs'[x] # {}
             /\ \A d \in subs'[x] : conn'[d].at = "reading" /\ Watches[d] = x /\ ~conn'[d].closed
  <2>1. \A y \in DOMAIN subs : subs[y] \subseteq Conns
        BY DEF TypeOK
  <2>2. \A y \in DOMAIN subs : subs[y] # {} /\ \A d \in subs[y] :
             conn[d].at = "reading" /\ Watches[d] = y /\ ~conn[d].closed
        BY DEF HubInv, HubMatchesConnections, InHub
  <2>3. CASE x = b
        BY <1>1, <1>3, <2>1, <2>2, <2>3 DEF Subscribers
  <2>4. CASE x # b
        BY <1>1, <1>3, <2>1, <2>2, <2>4
  <2> QED BY <2>3, <2>4
<1>5. ASSUME NEW d \in Conns, conn'[d].at = "reading"
      PROVE  Watches[d] \in DOMAIN subs' /\ d \in subs'[Watches[d]]
  <2>1. CASE d = c
        BY <1>1, <2>1
  <2>2. CASE d # c
    <3>1. Watches[d] \in DOMAIN subs /\ d \in subs[Watches[d]]
          BY <1>3, <1>5, <2>2 DEF HubInv, HubMatchesConnections, InHub, Subscribers
    <3> QED BY <1>1, <3>1 DEF Subscribers
  <2> QED BY <2>1, <2>2
<1>6. HubMatchesConnections'
      BY <1>4, <1>5 DEF HubMatchesConnections, InHub, Subscribers
<1> QED BY <1>1, <1>6 DEF HubInv, NoPanic, BroadcastSafe, Lockable

LEMMA UnsubscribeKeeps ==
    ASSUME TypeOK, HubInv, NEW c \in Conns, Unsubscribe(c)
    PROVE  HubInv'
<1> DEFINE b == Watches[c]
<1>1. InHub(c) /\ Lockable /\ UNCHANGED listener
      BY DEF Unsubscribe, InHub
<1>2. b \in DOMAIN subs /\ c \in subs[b] /\ ~conn[c].closed
      BY <1>1, OpenInHub DEF HubInv, HubMatchesConnections, Subscribers
<1>3. subs' = Removed(c, b) /\ conn' = [conn EXCEPT ![c] = Closed(conn[c])] /\ ~panicked'
      BY <1>2 DEF Unsubscribe, HubInv, NoPanic, Subscribers
<1>4. conn'[c].at = "left" /\ \A d \in Conns : d # c => conn'[d] = conn[d]
  <2>1. Closed(conn[c]).at = "left"
    <3>1. conn[c] \in ConnState
          BY DEF TypeOK
    <3> QED BY <3>1 DEF Closed, ConnState
  <2> QED BY <1>3, <2>1 DEF TypeOK
<1>5. \A y \in DOMAIN subs : subs[y] \subseteq Conns /\ subs[y] # {} /\ \A d \in subs[y] :
           conn[d].at = "reading" /\ Watches[d] = y /\ ~conn[d].closed
      BY DEF TypeOK, HubInv, HubMatchesConnections, InHub
<1>6. \A x : x \in DOMAIN subs' <=> x \in DOMAIN subs /\ (x # b \/ subs[x] # {c})
      BY <1>3 DEF Removed
<1>7. \A x \in DOMAIN subs' : subs'[x] = subs[x] \ {c}
      BY <1>3 DEF Removed
<1>8. ASSUME NEW x \in DOMAIN subs'
      PROVE  /\ subs'[x] # {}
             /\ \A d \in subs'[x] : conn'[d].at = "reading" /\ Watches[d] = x /\ ~conn'[d].closed
  <2>1. x \in DOMAIN subs /\ subs'[x] = subs[x] \ {c} /\ (x # b \/ subs[x] # {c})
        BY <1>6, <1>7
  <2>2. subs[x] # {c}
        BY <1>5, <2>1
  <2> QED BY <1>4, <1>5, <2>1, <2>2
<1>9. ASSUME NEW d \in Conns, conn'[d].at = "reading"
      PROVE  Watches[d] \in DOMAIN subs' /\ d \in subs'[Watches[d]]
  <2>1. d # c
        BY <1>4, <1>9
  <2>2. Watches[d] \in DOMAIN subs /\ d \in subs[Watches[d]]
        BY <1>4, <1>9, <2>1 DEF HubInv, HubMatchesConnections, InHub, Subscribers
  <2> QED BY <1>6, <1>7, <2>1, <2>2
<1>10. HubMatchesConnections'
       BY <1>8, <1>9 DEF HubMatchesConnections, InHub, Subscribers
<1> QED BY <1>1, <1>3, <1>10 DEF HubInv, NoPanic, BroadcastSafe, Lockable

\* Attach needs a connection that is not in the hub.
LEMMA AttachKeeps ==
    ASSUME TypeOK, HubInv, NEW c \in Conns, Attach(c)
    PROVE  HubInv'
<1>1. ~InHub(c) /\ \A b \in DOMAIN subs : c \notin subs[b]
  <2>1. ~InHub(c)
        BY DEF Attach, MayConnect, InHub
  <2> QED BY <2>1 DEF HubInv, HubMatchesConnections
<1>2. /\ conn' = [conn EXCEPT ![c] = [conn[c] EXCEPT !.at = "attached"]]
      /\ UNCHANGED <<subs, panicked, listener>>
      BY DEF Attach
<1>3. conn'[c].at = "attached" /\ \A d \in Conns : d # c => conn'[d] = conn[d]
      BY <1>2 DEF TypeOK, ConnState
<1>4. \A d \in Conns : InHub(d)' <=> InHub(d)
      BY <1>1, <1>3 DEF InHub
<1>5. DOMAIN subs \subseteq Battles /\ \A b \in DOMAIN subs : subs[b] \subseteq Conns
      BY DEF TypeOK
<1>6. HubMatchesConnections'
      BY <1>1, <1>2, <1>3, <1>4, <1>5 DEF HubInv, HubMatchesConnections, Subscribers
<1>7. listener.todo \subseteq Conns
      BY DEF TypeOK, ListenerState
<1> QED BY <1>2, <1>4, <1>6, <1>7 DEF HubInv, NoPanic, BroadcastSafe

\* The writer and the client touch neither field.
LEMMA OtherConnStep ==
    ASSUME TypeOK, HubInv, NEW c \in Conns, ClientLeaves(c) \/ WriterStep(c)
    PROVE  HubInv'
<1>1. conn[c] \in ConnState
      BY DEF TypeOK
<1>2. UNCHANGED <<listener, subs, panicked>>
      BY DEF ClientLeaves, WriterStep, WriterTake, Write, WriteFails
<1>3. \A d \in Conns : d # c => conn'[d] = conn[d]
      BY DEF ClientLeaves, WriterStep, WriterTake, Write, WriteFails, TypeOK
<1>4. conn'[c].at = conn[c].at /\ conn'[c].closed = conn[c].closed
  <2>1. CASE ClientLeaves(c)
        BY <1>1, <2>1 DEF ClientLeaves, TypeOK, ConnState
  <2>2. CASE WriterTake(c)
        BY <1>1, <2>2 DEF WriterTake, TypeOK, ConnState
  <2>3. CASE Write(c)
        BY <1>1, <2>3 DEF Write, TypeOK, ConnState
  <2>4. CASE WriteFails(c)
        BY <1>1, <2>4 DEF WriteFails, TypeOK, ConnState
  <2> QED BY <2>1, <2>2, <2>3, <2>4 DEF WriterStep
<1> QED BY <1>2, <1>3, <1>4, QuietStep DEF SameForHub

LEMMA HubInvNext ==
    ASSUME TypeOK, HubInv, [Next]_vars
    PROVE  HubInv'
<1>1. ASSUME NEW p \in Publishers, BeginPublish(p) \/ EmitFails(p)
      PROVE  HubInv'
      BY <1>1, QuietStep DEF BeginPublish, EmitFails, hubVars, SameForHub
<1>2. CASE Listen \/ ListenError
  <2>1. listener'.at # "broadcast" /\ UNCHANGED <<subs, panicked, conn>>
        BY <1>2 DEF Listen, ListenError, Waiting, TypeOK, ListenerState
  <2> QED BY <2>1, QuietStep DEF SameForHub
<1>3. CASE UNCHANGED vars
      BY <1>3, QuietStep DEF vars, hubVars, SameForHub
<1> QED BY <1>1, <1>2, <1>3, EmitKeeps, ReceiveKeeps, SendKeeps, SubscribeKeeps,
           UnsubscribeKeeps, AttachKeeps, OtherConnStep
        DEF Next, Broadcast

LEMMA HubInvInit == Init => HubInv
BY DEF Init, HubInv, NoPanic, HubMatchesConnections, BroadcastSafe, InHub, NewConn,
       Subscribers, Waiting

LEMMA HubInvariant == Spec => []HubInv
<1>1. TypeOK /\ HubInv /\ [Next]_vars => HubInv'
      BY HubInvNext
<1> QED BY <1>1, HubInvInit, HubTypeCorrect, PTL DEF Spec

\* No goroutine sends on a closed channel or closes one twice, whatever the order
\* in which clients come, go and reconnect and events arrive.
THEOREM NoClosedChannelUsed == Spec => []NoPanic
<1>1. HubInv => NoPanic
      BY DEF HubInv
<1> QED BY <1>1, HubInvariant, PTL

\* The map and the connections agree: no client is served without being in the map
\* and the map keeps nobody who has left.
THEOREM HubIsConsistent == Spec => []HubMatchesConnections
<1>1. HubInv => HubMatchesConnections
      BY DEF HubInv
<1> QED BY <1>1, HubInvariant, PTL

-----------------------------------------------------------------------------
(* The order of events *)

\* Every event of A was emitted before every event of B.
Below(A, B) == \A a \in A, b \in B : a.id < b.id

\* The places an event passes on its way to a client, the one nearest to it first.
InLine(got, out, send, event, coming) ==
    /\ Below(got, out) /\ Below(got, send) /\ Below(got, event) /\ Below(got, coming)
    /\ Below(out, send) /\ Below(out, event) /\ Below(out, coming)
    /\ Below(send, event) /\ Below(send, coming)
    /\ Below(event, coming)

\* An event that has been emitted.
Sent(e) == e.id \in DOMAIN published /\ published[e.id] = e

\* The event the listener has for connection c.
Offer(c) == IF c \in listener.todo THEN Range(listener.event) ELSE {}

\* What has come as far as connection c.
Passed(c) ==
    Range(conn[c].got) \cup Range(conn[c].out) \cup Range(conn[c].send) \cup Offer(c)

ListenerInv ==
    /\ \A i \in DOMAIN published : published[i].id = i
    /\ Ascending(pending)
    /\ \A e \in Range(pending) : Sent(e)
    /\ IF listener.at = "broadcast" THEN listener.event = <<listener.event[1]>>
                                    ELSE listener.todo = {}
    /\ driver = "ably" => listener.at = "down" /\ pending = <<>>

ConnInv(c) ==
    /\ driver = "ably" => /\ conn[c].at \in {"new", "attached"}
                          /\ conn[c].send = <<>> /\ conn[c].out = <<>>
    /\ conn[c].writer # "writing" => conn[c].out = <<>>
    /\ Ascending(conn[c].got) /\ Ascending(conn[c].out) /\ Ascending(conn[c].send)
    /\ \A e \in Passed(c) : Sent(e) /\ e.battle = Watches[c]
    /\ InLine(Range(conn[c].got), Range(conn[c].out), Range(conn[c].send), Offer(c),
              Range(pending))

\* Where an event of the battle is that was emitted while the client was served.
Accounted(c) ==
    conn[c].at = "reading" =>
        /\ conn[c].since <= Len(published)
        /\ \A i \in DOMAIN published :
            i > conn[c].since /\ published[i].battle = Watches[c] =>
                \/ i \in lost \cup conn[c].missed
                \/ published[i] \in Passed(c) \cup Range(pending)

StreamInv == ListenerInv /\ \A c \in Conns : ConnInv(c) /\ Accounted(c)

\* Sequences, as the sets of their elements and the order of their ids.
LEMMA RangeEmpty == Range(<<>>) = {}
BY DEF Range

LEMMA RangeOne == \A e : Range(<<e>>) = {e}
BY DEF Range

LEMMA RangeAppend ==
    ASSUME NEW s \in Seq(Event), NEW e \in Event
    PROVE  Range(Append(s, e)) = Range(s) \cup {e}
<1> DEFINE t == Append(s, e)
<1>1. /\ DOMAIN t = 1..(Len(s) + 1) /\ DOMAIN s = 1..Len(s) /\ Len(s) \in Nat
      /\ \A i \in DOMAIN s : t[i] = s[i]
      /\ t[Len(s) + 1] = e
      OBVIOUS
<1> HIDE DEF t
<1> QED BY <1>1 DEF Range

LEMMA RangeTail ==
    ASSUME NEW s \in Seq(Event), s # <<>>
    PROVE  Range(s) = {Head(s)} \cup Range(Tail(s)) /\ Head(s) \in Event
<1> DEFINE t == Tail(s)
           h == Head(s)
<1>1. /\ Len(s) \in Nat /\ Len(s) > 0 /\ h = s[1]
      /\ DOMAIN t = 1..(Len(s) - 1) /\ DOMAIN s = 1..Len(s)
      /\ \A i \in DOMAIN t : t[i] = s[i + 1]
      OBVIOUS
<1>2. \A i \in DOMAIN s : i = 1 \/ (i - 1 \in DOMAIN t /\ s[i] = t[i - 1])
      BY <1>1
<1>3. \A i \in DOMAIN t : i + 1 \in DOMAIN s
      BY <1>1
<1>4. 1 \in DOMAIN s /\ h \in Event
      BY <1>1
<1> HIDE DEF t, h
<1>5. Range(s) \subseteq {h} \cup Range(t)
      BY <1>1, <1>2 DEF Range
<1>6. {h} \cup Range(t) \subseteq Range(s)
      BY <1>1, <1>3, <1>4 DEF Range
<1> QED BY <1>4, <1>5, <1>6 DEF t, h

LEMMA RangeConcat ==
    ASSUME NEW s \in Seq(Event), NEW t \in Seq(Event)
    PROVE  s \o t \in Seq(Event) /\ Range(s \o t) = Range(s) \cup Range(t)
<1> DEFINE u == s \o t
<1>1. /\ u \in Seq(Event) /\ Len(s) \in Nat /\ Len(t) \in Nat
      /\ DOMAIN u = 1..(Len(s) + Len(t)) /\ DOMAIN s = 1..Len(s) /\ DOMAIN t = 1..Len(t)
      /\ \A i \in DOMAIN u : u[i] = IF i <= Len(s) THEN s[i] ELSE t[i - Len(s)]
      OBVIOUS
<1> HIDE DEF u
<1>2. ASSUME NEW i \in DOMAIN u
      PROVE  u[i] \in Range(s) \cup Range(t)
      BY <1>1 DEF Range
<1>3. ASSUME NEW i \in DOMAIN s
      PROVE  i \in DOMAIN u /\ u[i] = s[i]
      BY <1>1
<1>4. ASSUME NEW i \in DOMAIN t
      PROVE  i + Len(s) \in DOMAIN u /\ u[i + Len(s)] = t[i]
      BY <1>1
<1>5. Range(u) = Range(s) \cup Range(t)
      BY <1>2, <1>3, <1>4 DEF Range
<1> QED BY <1>1, <1>5 DEF u

LEMMA IdsOfRange == \A s : \A e \in Range(s) : e.id \in Ids(s)
BY DEF Ids, Range

LEMMA AscendingEmpty == Ascending(<<>>)
BY DEF Ascending

LEMMA AscendingOne == \A e : Ascending(<<e>>)
BY DEF Ascending

LEMMA AscendingConcat ==
    ASSUME NEW s \in Seq(Event), NEW t \in Seq(Event), Ascending(s), Ascending(t),
           Below(Range(s), Range(t))
    PROVE  Ascending(s \o t)
<1> DEFINE u == s \o t
           n == Len(s)
<1>1. /\ n \in Nat /\ Len(t) \in Nat
      /\ DOMAIN u = 1..(n + Len(t)) /\ DOMAIN s = 1..n /\ DOMAIN t = 1..Len(t)
      /\ \A i \in DOMAIN u : u[i] = IF i <= n THEN s[i] ELSE t[i - n]
      OBVIOUS
<1> HIDE DEF u, n
<1> SUFFICES ASSUME NEW i \in DOMAIN u, NEW j \in DOMAIN u, i < j
             PROVE  u[i].id < u[j].id
    BY DEF Ascending, u
<1>2. CASE j <= n
      BY <1>1, <1>2 DEF Ascending
<1>3. CASE i <= n /\ n < j
  <2>1. u[i] = s[i] /\ i \in DOMAIN s /\ u[j] = t[j - n] /\ j - n \in DOMAIN t
        BY <1>1, <1>3
  <2> QED BY <2>1 DEF Below, Range
<1>4. CASE n < i
  <2>1. /\ u[i] = t[i - n] /\ i - n \in DOMAIN t /\ u[j] = t[j - n] /\ j - n \in DOMAIN t
        /\ i - n < j - n
        BY <1>1, <1>4
  <2> QED BY <2>1 DEF Ascending
<1> QED BY <1>1, <1>2, <1>3, <1>4

LEMMA AscendingAppend ==
    ASSUME NEW s \in Seq(Event), NEW e \in Event, Ascending(s), Below(Range(s), {e})
    PROVE  Ascending(Append(s, e))
<1>1. Append(s, e) = s \o <<e>> /\ <<e>> \in Seq(Event)
      OBVIOUS
<1> DEFINE last == <<e>>
<1>2. Range(last) = {e} /\ Ascending(last)
      BY RangeOne, AscendingOne
<1> HIDE DEF last
<1>3. last \in Seq(Event)
      BY <1>1 DEF last
<1>4. Ascending(s \o last)
      BY <1>2, <1>3, AscendingConcat
<1> QED BY <1>1, <1>4 DEF last

LEMMA AscendingTail ==
    ASSUME NEW s \in Seq(Event), s # <<>>, Ascending(s)
    PROVE  Ascending(Tail(s)) /\ Below({Head(s)}, Range(Tail(s)))
<1> DEFINE t == Tail(s)
           h == Head(s)
<1>1. /\ h = s[1] /\ 1 \in DOMAIN s
      /\ \A i \in DOMAIN t : i \in Nat /\ i > 0 /\ i + 1 \in DOMAIN s /\ t[i] = s[i + 1]
      OBVIOUS
<1> HIDE DEF t, h
<1>2. Ascending(t)
      BY <1>1 DEF Ascending
<1>3. Below({h}, Range(t))
      BY <1>1 DEF Ascending, Below, Range
<1> QED BY <1>2, <1>3 DEF t, h

-----------------------------------------------------------------------------
(* Each step keeps the order *)

\* A connection that keeps what it has, or loses some of it.
LEMMA ConnShrinks ==
    ASSUME NEW c \in Conns, ConnInv(c), UNCHANGED <<driver, published>>,
           driver = "ably" => /\ conn'[c].at \in {"new", "attached"}
                              /\ conn'[c].send = <<>> /\ conn'[c].out = <<>>,
           conn'[c].writer # "writing" => conn'[c].out = <<>>,
           conn'[c].got \in {conn[c].got, <<>>},
           conn'[c].out \in {conn[c].out, <<>>},
           conn'[c].send \in {conn[c].send, <<>>},
           Offer(c)' \subseteq Offer(c),
           Range(pending') \subseteq Range(pending)
    PROVE  ConnInv(c)'
<1>1. /\ Range(conn'[c].got) \subseteq Range(conn[c].got)
      /\ Range(conn'[c].out) \subseteq Range(conn[c].out)
      /\ Range(conn'[c].send) \subseteq Range(conn[c].send)
      BY RangeEmpty
<1>2. /\ Ascending(conn'[c].got) /\ Ascending(conn'[c].out) /\ Ascending(conn'[c].send)
      BY AscendingEmpty DEF ConnInv
<1>3. Passed(c)' \subseteq Passed(c)
      BY <1>1 DEF Passed
<1>4. InLine(Range(conn[c].got), Range(conn[c].out), Range(conn[c].send), Offer(c),
             Range(pending))'
  <2>1. ASSUME NEW got, NEW out, NEW send, NEW event, NEW coming,
               InLine(got, out, send, event, coming),
               NEW got1 \in SUBSET got, NEW out1 \in SUBSET out, NEW send1 \in SUBSET send,
               NEW event1 \in SUBSET event, NEW coming1 \in SUBSET coming
        PROVE  InLine(got1, out1, send1, event1, coming1)
        BY <2>1 DEF InLine, Below
  <2>2. InLine(Range(conn[c].got), Range(conn[c].out), Range(conn[c].send), Offer(c),
               Range(pending))
        BY DEF ConnInv
  <2> QED BY <1>1, <2>1, <2>2
<1>5. \A e \in Passed(c)' : Sent(e)' /\ e.battle = Watches[c]
      BY <1>3 DEF ConnInv, Sent
<1> QED BY <1>2, <1>4, <1>5 DEF ConnInv

\* An event is accounted for as long as it stays on its way or is noted as lost.
LEMMA AccountedKept ==
    ASSUME NEW c \in Conns, ListenerInv, Accounted(c), UNCHANGED published,
           conn'[c].at = "reading" => /\ conn[c].at = "reading"
                                      /\ conn'[c].since = conn[c].since
                                      /\ conn[c].missed \subseteq conn'[c].missed,
           lost \subseteq lost',
           conn'[c].at = "reading" =>
               \A e \in Passed(c) \cup Range(pending) :
                   e.battle = Watches[c] =>
                       \/ e.id \in lost' \cup conn'[c].missed
                       \/ e \in Passed(c)' \cup Range(pending')
    PROVE  Accounted(c)'
<1> SUFFICES ASSUME conn'[c].at = "reading",
                    NEW i \in DOMAIN published, i > conn[c].since,
                    published[i].battle = Watches[c]
             PROVE  \/ i \in lost' \cup conn'[c].missed
                    \/ published[i] \in Passed(c)' \cup Range(pending')
    BY DEF Accounted
<1>1. \/ i \in lost \cup conn[c].missed
      \/ published[i] \in Passed(c) \cup Range(pending)
      BY DEF Accounted
<1>2. published[i].id = i
      BY DEF ListenerInv
<1> QED BY <1>1, <1>2

LEMMA OthersKept ==
    ASSUME NEW c \in Conns, ListenerInv, ConnInv(c), Accounted(c), conn'[c] = conn[c],
           UNCHANGED <<driver, published, pending, lost>>, Offer(c)' = Offer(c)
    PROVE  ConnInv(c)' /\ Accounted(c)'
<1>1. ConnInv(c)'
      BY ConnShrinks DEF ConnInv
<1>2. Passed(c)' = Passed(c)
      BY DEF Passed
<1>3. Accounted(c)'
      BY <1>2, AccountedKept
<1> QED BY <1>1, <1>3

\* A step of one connection, with the listener and its notifications at rest.
LEMMA OneConnectionStep ==
    ASSUME StreamInv, NEW c \in Conns, NEW r, conn' = [conn EXCEPT ![c] = r],
           UNCHANGED <<driver, published, pending, lost, listener>>,
           ConnInv(c)', Accounted(c)'
    PROVE  StreamInv'
<1>1. ListenerInv'
      BY DEF StreamInv, ListenerInv, Sent
<1>2. ASSUME NEW d \in Conns, d # c
      PROVE  ConnInv(d)' /\ Accounted(d)'
  <2>1. conn'[d] = conn[d]
        BY <1>2
  <2>2. Offer(d)' = Offer(d)
        BY DEF Offer
  <2> QED BY <2>1, <2>2, OthersKept DEF StreamInv
<1> QED BY <1>1, <1>2 DEF StreamInv

LEMMA StreamSame ==
    ASSUME StreamInv, UNCHANGED <<driver, published, pending, lost, listener, conn>>
    PROVE  StreamInv'
<1>1. ListenerInv'
      BY DEF StreamInv, ListenerInv, Sent
<1>2. ASSUME NEW d \in Conns
      PROVE  ConnInv(d)' /\ Accounted(d)'
  <2>1. Offer(d)' = Offer(d)
        BY DEF Offer
  <2> QED BY <2>1, OthersKept DEF StreamInv
<1> QED BY <1>1, <1>2 DEF StreamInv

LEMMA StreamInit == Init => StreamInv
<1> SUFFICES ASSUME Init PROVE StreamInv
    OBVIOUS
<1>1. /\ published = <<>> /\ pending = <<>> /\ listener.at = "down" /\ listener.todo = {}
      BY DEF Init, Waiting
<1>2. ListenerInv
      BY <1>1, RangeEmpty, AscendingEmpty DEF ListenerInv
<1>3. ASSUME NEW c \in Conns
      PROVE  ConnInv(c) /\ Accounted(c)
  <2>1. /\ conn[c].at = "new" /\ conn[c].send = <<>> /\ conn[c].out = <<>>
        /\ conn[c].got = <<>> /\ conn[c].writer = "none"
        BY DEF Init, NewConn
  <2>2. Offer(c) = {} /\ Passed(c) = {}
        BY <1>1, <2>1, RangeEmpty DEF Offer, Passed
  <2> QED BY <1>1, <2>1, <2>2, RangeEmpty, AscendingEmpty
          DEF ConnInv, Accounted, InLine, Below
<1> QED BY <1>2, <1>3 DEF StreamInv

-----------------------------------------------------------------------------
(* An event is emitted *)

LEMMA EmittedLast ==
    ASSUME TypeOK, StreamInv, NEW p \in Publishers, Emit(p), NEW e, e = NextEvent(p)
    PROVE  /\ e \in Event /\ e.id = Len(published) + 1
           /\ DOMAIN published' = DOMAIN published \cup {e.id}
           /\ published'[e.id] = e
           /\ \A i \in DOMAIN published : published'[i] = published[i] /\ i < e.id
           /\ \A x : Sent(x) => Sent(x)' /\ x.id < e.id
           /\ Sent(e)'
           /\ Len(published) \in Nat /\ Len(published') = Len(published) + 1
<1>1. e \in Event /\ published' = Append(published, e)
      BY NextEventType DEF Emit
<1>2. e.id = Len(published) + 1
      BY DEF NextEvent
<1>3. published \in Seq(Event)
      BY DEF TypeOK
<1>4. /\ DOMAIN published' = DOMAIN published \cup {e.id}
      /\ published'[e.id] = e
      /\ \A i \in DOMAIN published : published'[i] = published[i] /\ i < e.id
      BY <1>1, <1>2, <1>3
<1>5. Len(published) \in Nat /\ Len(published') = Len(published) + 1
      BY <1>1, <1>3
<1> QED BY <1>1, <1>2, <1>4, <1>5 DEF Sent

LEMMA AccountedEmitted ==
    ASSUME TypeOK, StreamInv, NEW p \in Publishers, Emit(p), NEW c \in Conns,
           UNCHANGED conn, Passed(c)' = Passed(c), lost \subseteq lost',
           Range(pending) \subseteq Range(pending'),
           NextEvent(p).id \in lost' \/ NextEvent(p) \in Range(pending')
    PROVE  Accounted(c)'
<1>1. PICK e : e = NextEvent(p)
      OBVIOUS
<1>2. /\ e.id = Len(published) + 1
      /\ DOMAIN published' = DOMAIN published \cup {e.id}
      /\ published'[e.id] = e
      /\ \A i \in DOMAIN published : published'[i] = published[i]
      /\ Len(published) \in Nat /\ Len(published') = Len(published) + 1
      BY <1>1, EmittedLast
<1>3. conn[c].since \in Nat
      BY DEF TypeOK, ConnState
<1> SUFFICES ASSUME conn[c].at = "reading"
             PROVE  /\ conn[c].since <= Len(published')
                    /\ \A i \in DOMAIN published' :
                          i > conn[c].since /\ published'[i].battle = Watches[c] =>
                              \/ i \in lost' \cup conn[c].missed
                              \/ published'[i] \in Passed(c) \cup Range(pending')
    BY DEF Accounted
<1>4. Accounted(c)
      BY DEF StreamInv
<1>5. conn[c].since <= Len(published')
      BY <1>2, <1>3, <1>4 DEF Accounted
<1>6. ASSUME NEW i \in DOMAIN published', i > conn[c].since,
             published'[i].battle = Watches[c]
      PROVE  \/ i \in lost' \cup conn[c].missed
             \/ published'[i] \in Passed(c) \cup Range(pending')
  <2>1. CASE i = e.id
        BY <1>1, <1>2, <2>1
  <2>2. CASE i \in DOMAIN published
        BY <1>2, <1>4, <1>6, <2>2 DEF Accounted
  <2> QED BY <1>2, <2>1, <2>2
<1> QED BY <1>5, <1>6

LEMMA EmitStream ==
    ASSUME TypeOK, StreamInv, NEW p \in Publishers, Emit(p)
    PROVE  StreamInv'
<1>1. PICK e : e = NextEvent(p)
      OBVIOUS
<1>2. /\ e \in Event /\ e.id = Len(published) + 1
      /\ DOMAIN published' = DOMAIN published \cup {e.id}
      /\ published'[e.id] = e
      /\ \A i \in DOMAIN published : published'[i] = published[i] /\ i < e.id
      /\ \A x : Sent(x) => Sent(x)' /\ x.id < e.id
      /\ Sent(e)'
      BY <1>1, EmittedLast
<1>3. UNCHANGED <<driver, listener>> /\ \A c \in Conns : Offer(c)' = Offer(c)
      BY DEF Emit, Offer
<1>4. \A i \in DOMAIN published' : published'[i].id = i
      BY <1>2 DEF StreamInv, ListenerInv
<1>5. pending \in Seq(Event) /\ \A x \in Range(pending) : Sent(x)' /\ x.id < e.id
      BY <1>2 DEF StreamInv, ListenerInv, TypeOK
<1>6. ASSUME NEW c \in Conns
      PROVE  \A x \in Passed(c) : Sent(x)' /\ x.battle = Watches[c] /\ x.id < e.id
      BY <1>2 DEF StreamInv, ConnInv
<1>7. CASE driver = "ws" /\ listener.at # "down"
  <2>1. pending' = Append(pending, e) /\ UNCHANGED <<lost, conn>>
        BY <1>1, <1>7 DEF Emit
  <2>2. Range(pending') = Range(pending) \cup {e}
        BY <1>2, <1>5, <2>1, RangeAppend
  <2>3. Ascending(pending')
    <3>1. Ascending(pending) /\ Below(Range(pending), {e})
          BY <1>5 DEF StreamInv, ListenerInv, Below
    <3> QED BY <1>2, <1>5, <2>1, <3>1, AscendingAppend
  <2>4. ListenerInv'
        BY <1>2, <1>3, <1>4, <1>5, <1>7, <2>2, <2>3 DEF StreamInv, ListenerInv
  <2>5. ASSUME NEW c \in Conns
        PROVE  ConnInv(c)' /\ Accounted(c)'
    <3>1. Passed(c)' = Passed(c)
          BY <1>3, <2>1 DEF Passed
    <3>2. InLine(Range(conn[c].got), Range(conn[c].out), Range(conn[c].send), Offer(c),
                 Range(pending) \cup {e})
      <4>1. ASSUME NEW X, Below(X, Range(pending)), X \subseteq Passed(c)
            PROVE  Below(X, Range(pending) \cup {e})
            BY <1>6, <4>1 DEF Below
      <4>2. InLine(Range(conn[c].got), Range(conn[c].out), Range(conn[c].send), Offer(c),
                   Range(pending))
            BY DEF StreamInv, ConnInv
      <4>3. /\ Range(conn[c].got) \subseteq Passed(c) /\ Range(conn[c].out) \subseteq Passed(c)
            /\ Range(conn[c].send) \subseteq Passed(c) /\ Offer(c) \subseteq Passed(c)
            BY DEF Passed
      <4> QED BY <4>1, <4>2, <4>3 DEF InLine
    <3>3. ConnInv(c)'
          BY <1>3, <1>6, <2>1, <2>2, <3>1, <3>2 DEF StreamInv, ConnInv
    <3>4. Accounted(c)'
          BY <1>1, <2>1, <2>2, <3>1, AccountedEmitted
    <3> QED BY <3>3, <3>4
  <2> QED BY <2>4, <2>5 DEF StreamInv
<1>8. CASE driver = "ws" /\ listener.at = "down"
  <2>1. lost' = lost \cup {e.id} /\ UNCHANGED <<pending, conn>>
        BY <1>1, <1>8 DEF Emit
  <2>2. ListenerInv'
        BY <1>3, <1>4, <1>5, <2>1 DEF StreamInv, ListenerInv
  <2>3. ASSUME NEW c \in Conns
        PROVE  ConnInv(c)' /\ Accounted(c)'
    <3>1. Passed(c)' = Passed(c)
          BY <1>3, <2>1 DEF Passed
    <3>2. ConnInv(c)'
          BY <1>3, <1>6, <2>1, <3>1 DEF StreamInv, ConnInv
    <3>3. Accounted(c)'
          BY <1>1, <2>1, <3>1, AccountedEmitted
    <3> QED BY <3>2, <3>3
  <2> QED BY <2>2, <2>3 DEF StreamInv
<1>9. CASE driver = "ably"
  <2>1. conn' = AblyDelivered(e) /\ UNCHANGED <<pending, lost>>
        BY <1>1, <1>9 DEF Emit
  <2>2. ListenerInv'
        BY <1>3, <1>4, <1>5, <2>1 DEF StreamInv, ListenerInv
  <2>3. pending = <<>> /\ Range(pending) = {} /\ \A c \in Conns : Offer(c) = {}
        BY <1>9, RangeEmpty DEF StreamInv, ListenerInv, Offer
  <2>4. ASSUME NEW c \in Conns
        PROVE  ConnInv(c)' /\ Accounted(c)'
    <3> DEFINE cn == conn[c]
    <3>1. /\ cn \in ConnState /\ cn.got \in Seq(Event)
          /\ cn.send = <<>> /\ cn.out = <<>> /\ cn.at \in {"new", "attached"}
          BY <1>9 DEF TypeOK, ConnState, StreamInv, ConnInv
    <3>2. \/ conn'[c] = cn
          \/ /\ conn'[c] = [cn EXCEPT !.got = Append(cn.got, e)]
             /\ e.channel \in Capability(Watches[c])
          BY <2>1 DEF AblyDelivered
    <3>3. /\ conn'[c].send = <<>> /\ conn'[c].out = <<>> /\ conn'[c].at = cn.at
          /\ \/ conn'[c].got = cn.got
             \/ conn'[c].got = Append(cn.got, e) /\ e.battle = Watches[c]
      <4>1. e.battle = e.channel[1]
            BY <1>1 DEF NextEvent
      <4> QED BY <3>1, <3>2, <4>1 DEF ConnState, Capability
    <3>4. Accounted(c)'
          BY <3>1, <3>3 DEF Accounted
    <3>5. \A x \in Range(cn.got) : Sent(x)' /\ x.battle = Watches[c] /\ x.id < e.id
          BY <1>6 DEF Passed
    <3>6. Ascending(conn'[c].got)
      <4>1. Ascending(cn.got) /\ Below(Range(cn.got), {e})
            BY <3>5 DEF StreamInv, ConnInv, Below
      <4> QED BY <1>2, <3>1, <3>3, <4>1, AscendingAppend
    <3>7. Range(conn'[c].got) = Range(cn.got)
          \/ (Range(conn'[c].got) = Range(cn.got) \cup {e} /\ e.battle = Watches[c])
      <4>1. Range(Append(cn.got, e)) = Range(cn.got) \cup {e}
            BY <1>2, <3>1, RangeAppend
      <4>2. CASE conn'[c].got = cn.got
            BY <4>2
      <4>3. CASE conn'[c].got = Append(cn.got, e) /\ e.battle = Watches[c]
        <5>1. Range(conn'[c].got) = Range(cn.got) \cup {e}
              BY <4>1, <4>3
        <5> QED BY <4>3, <5>1
      <4> QED BY <3>3, <4>2, <4>3
    <3>8. Passed(c)' = Range(conn'[c].got)
          BY <1>3, <2>3, <3>3, RangeEmpty DEF Passed
    <3>9. \A x \in Passed(c)' : Sent(x)' /\ x.battle = Watches[c]
          BY <1>2, <3>5, <3>7, <3>8
    <3>10. InLine(Range(conn[c].got), Range(conn[c].out), Range(conn[c].send), Offer(c),
                  Range(pending))'
           BY <1>3, <2>1, <2>3, <3>3, RangeEmpty DEF InLine, Below
    <3>11. ConnInv(c)'
           BY <1>9, <3>1, <3>3, <3>6, <3>9, <3>10, AscendingEmpty DEF ConnInv
    <3> QED BY <3>4, <3>11
  <2> QED BY <2>2, <2>4 DEF StreamInv
<1> QED BY <1>7, <1>8, <1>9 DEF TypeOK

-----------------------------------------------------------------------------
(* The listener *)

LEMMA ListenStream ==
    ASSUME TypeOK, StreamInv, Listen \/ ListenError
    PROVE  StreamInv'
<1>1. /\ UNCHANGED <<driver, published, conn>> /\ lost \subseteq lost'
      /\ listener.at # "broadcast" /\ listener'.at # "broadcast" /\ driver # "ably"
      /\ listener'.todo = {}
      /\ \/ pending' = pending
         \/ pending' = <<>> /\ Ids(pending) \subseteq lost'
  <2>1. CASE Listen
        BY <2>1 DEF Listen, Waiting, wireVars
  <2>2. CASE ListenError
    <3>1. listener \in ListenerState
          BY DEF TypeOK
    <3>2. listener'.at = "down" /\ listener'.todo = listener.todo
          BY <2>2, <3>1 DEF ListenError, ListenerState
    <3> QED BY <2>2, <3>2 DEF ListenError, StreamInv, ListenerInv
  <2> QED BY <2>1, <2>2
<1>2. listener.todo = {} /\ listener'.todo = {}
      BY <1>1 DEF StreamInv, ListenerInv
<1>3. pending' = pending \/ (pending' = <<>> /\ Ids(pending) \subseteq lost')
      BY <1>1
<1>4. Range(pending') \subseteq Range(pending)
      BY <1>3, RangeEmpty
<1>5. ListenerInv'
      BY <1>1, <1>2, <1>3, <1>4, AscendingEmpty DEF StreamInv, ListenerInv, Sent
<1>6. ASSUME NEW c \in Conns
      PROVE  ConnInv(c)' /\ Accounted(c)'
  <2>1. Offer(c) = {} /\ Offer(c)' = {} /\ Passed(c)' = Passed(c)
        BY <1>1, <1>2 DEF Offer, Passed
  <2>2. ConnInv(c)'
        BY <1>1, <1>4, <2>1, ConnShrinks DEF StreamInv, ConnInv
  <2>3. \A e \in Passed(c) \cup Range(pending) :
            e.id \in lost' \/ e \in Passed(c)' \cup Range(pending')
        BY <1>3, <2>1, IdsOfRange
  <2>4. Accounted(c)'
        BY <1>1, <2>3, AccountedKept DEF StreamInv
  <2> QED BY <2>2, <2>4
<1> QED BY <1>5, <1>6 DEF StreamInv

\* A connection that a broadcast does not come to is not in the event's battle.
LEMMA ReceiveStream ==
    ASSUME TypeOK, HubInv, StreamInv, Receive
    PROVE  StreamInv'
<1>1. PICK e : e = Head(pending)
      OBVIOUS
<1>2. /\ UNCHANGED <<driver, published, lost, conn>> /\ listener.at = "wait"
      /\ pending \in Seq(Event) /\ pending # <<>> /\ pending' = Tail(pending)
      BY DEF Receive, TypeOK
<1>3. listener' = IF Subscribers(e.battle) = {} THEN Waiting
                  ELSE [at |-> "broadcast", event |-> <<e>>, todo |-> Subscribers(e.battle)]
      BY <1>1 DEF Receive
<1>4. /\ Range(pending) = {e} \cup Range(pending') /\ Below({e}, Range(pending'))
      /\ Ascending(pending')
      BY <1>1, <1>2, RangeTail, AscendingTail DEF StreamInv, ListenerInv
<1>5. listener.todo = {} /\ driver # "ably"
      BY <1>2 DEF StreamInv, ListenerInv
<1>6. IF listener'.at = "broadcast" THEN listener'.event = <<listener'.event[1]>>
                                    ELSE listener'.todo = {}
      BY <1>3 DEF Waiting
<1>7. ListenerInv'
      BY <1>2, <1>4, <1>5, <1>6 DEF StreamInv, ListenerInv, Sent
<1>8. ASSUME NEW c \in Conns
      PROVE  ConnInv(c)' /\ Accounted(c)'
  <2>1. Offer(c) = {} /\ Offer(c)' = IF c \in Subscribers(e.battle) THEN {e} ELSE {}
    <3>1. Offer(c) = {}
          BY <1>5 DEF Offer
    <3>2. CASE Subscribers(e.battle) = {}
          BY <1>3, <3>1, <3>2 DEF Offer, Waiting
    <3>3. CASE Subscribers(e.battle) # {}
      <4>1. listener'.todo = Subscribers(e.battle) /\ listener'.event = <<e>>
            BY <1>3, <3>3
      <4> QED BY <3>1, <4>1, RangeOne DEF Offer
    <3> QED BY <3>2, <3>3
  <2>2. /\ c \in Subscribers(e.battle) => Watches[c] = e.battle
        /\ conn[c].at = "reading" => c \in Subscribers(Watches[c])
        BY DEF HubInv, HubMatchesConnections, Subscribers, InHub
  <2>3. Passed(c)' = Passed(c) \cup Offer(c)'
        BY <1>2, <2>1 DEF Passed
  <2>4. \A x \in Passed(c)' : Sent(x)' /\ x.battle = Watches[c]
    <3>1. ASSUME NEW x, Sent(x) PROVE Sent(x)'
          BY <1>2, <3>1 DEF Sent
    <3>2. \A x \in Passed(c) : Sent(x) /\ x.battle = Watches[c]
          BY DEF StreamInv, ConnInv
    <3>3. Sent(e)
          BY <1>4 DEF StreamInv, ListenerInv
    <3> QED BY <2>1, <2>2, <2>3, <3>1, <3>2, <3>3
  <2>5. InLine(Range(conn[c].got), Range(conn[c].out), Range(conn[c].send), Offer(c),
               Range(pending))'
    <3>1. InLine(Range(conn[c].got), Range(conn[c].out), Range(conn[c].send), Offer(c),
                 Range(pending))
          BY DEF StreamInv, ConnInv
    <3> QED BY <1>2, <1>4, <2>1, <3>1 DEF InLine, Below
  <2>6. ConnInv(c)'
        BY <1>2, <1>5, <2>4, <2>5 DEF StreamInv, ConnInv
  <2>7. conn[c].at = "reading" =>
            \A x \in Passed(c) \cup Range(pending) :
                x.battle = Watches[c] => x \in Passed(c)' \cup Range(pending')
        BY <1>4, <2>1, <2>2, <2>3
  <2>8. Accounted(c)'
        BY <1>2, <2>7, AccountedKept DEF StreamInv
  <2> QED BY <2>6, <2>8
<1> QED BY <1>7, <1>8 DEF StreamInv

\* The event moves into the connection's channel, or is noted as missed.
LEMMA SendStream ==
    ASSUME TypeOK, HubInv, StreamInv, NEW c \in Conns, SendTo(c)
    PROVE  StreamInv'
<1>1. PICK e : e = listener.event[1]
      OBVIOUS
<1>2. /\ UNCHANGED <<driver, published, pending, lost>> /\ listener.at = "broadcast"
      /\ c \in listener.todo
      BY DEF SendTo, wireVars
<1>3. listener.event = <<e>> /\ e \in Event /\ driver # "ably"
  <2>1. listener.event = <<e>> /\ driver # "ably"
        BY <1>1, <1>2 DEF StreamInv, ListenerInv
  <2>2. listener.event \in Seq(Event)
        BY DEF TypeOK, ListenerState
  <2>3. listener.event[1] \in Event
        BY <2>1, <2>2
  <2> QED BY <1>1, <2>1, <2>3
<1>4. ~conn[c].closed
      BY <1>2, OpenInHub DEF HubInv, BroadcastSafe
<1>5. conn' = [conn EXCEPT ![c] = Offered(conn[c], e)]
      BY <1>1, <1>4 DEF SendTo
<1>6. \/ listener' = Waiting /\ listener.todo = {c}
      \/ listener' = [listener EXCEPT !.todo = listener.todo \ {c}]
      BY DEF SendTo
<1>7. /\ c \notin listener'.todo
      /\ \A d \in Conns : d # c => (d \in listener'.todo <=> d \in listener.todo)
      /\ listener'.todo # {} => listener'.event = listener.event
      /\ IF listener'.at = "broadcast" THEN listener'.event = <<listener'.event[1]>>
                                       ELSE listener'.todo = {}
  <2>1. listener \in ListenerState
        BY DEF TypeOK
  <2>2. CASE listener' = Waiting /\ listener.todo = {c}
        BY <2>2 DEF Waiting
  <2>3. CASE listener' = [listener EXCEPT !.todo = listener.todo \ {c}]
    <3>1. /\ listener'.todo = listener.todo \ {c} /\ listener'.event = listener.event
          /\ listener'.at = listener.at
          BY <2>1, <2>3 DEF ListenerState
    <3> QED BY <1>2, <3>1 DEF StreamInv, ListenerInv
  <2> QED BY <1>6, <2>2, <2>3
<1>8. ListenerInv'
      BY <1>2, <1>3, <1>7 DEF StreamInv, ListenerInv, Sent
<1>9. ASSUME NEW d \in Conns, d # c
      PROVE  ConnInv(d)' /\ Accounted(d)'
  <2>1. conn'[d] = conn[d]
        BY <1>5, <1>9
  <2>2. Offer(d)' = Offer(d)
        BY <1>7, <1>9 DEF Offer
  <2> QED BY <1>2, <2>1, <2>2, OthersKept DEF StreamInv
<1>10. Offer(c) = {e} /\ Offer(c)' = {}
       BY <1>2, <1>3, <1>7, RangeOne DEF Offer
<1> DEFINE cn == conn[c]
<1>11. /\ cn \in ConnState /\ cn.send \in Seq(Event) /\ cn.missed \subseteq Nat
       /\ conn'[c] = Offered(cn, e)
       BY <1>5, ConnFields DEF TypeOK
<1>12. /\ conn'[c].got = cn.got /\ conn'[c].out = cn.out /\ conn'[c].writer = cn.writer
       /\ conn'[c].at = cn.at /\ conn'[c].since = cn.since
       /\ \/ conn'[c].send = Append(cn.send, e) /\ conn'[c].missed = cn.missed
          \/ conn'[c].send = cn.send /\ conn'[c].missed = cn.missed \cup {e.id}
       BY <1>11 DEF Offered, ConnState
<1>13. /\ InLine(Range(cn.got), Range(cn.out), Range(cn.send), {e}, Range(pending))
       /\ Ascending(cn.got) /\ Ascending(cn.out) /\ Ascending(cn.send)
       /\ \A x \in Passed(c) : Sent(x) /\ x.battle = Watches[c]
       BY <1>10 DEF StreamInv, ConnInv
<1>14. ConnInv(c)' /\ Accounted(c)'
  <2>1. CASE conn'[c].send = cn.send /\ conn'[c].missed = cn.missed \cup {e.id}
    <3>1. ConnInv(c)'
          BY <1>2, <1>3, <1>10, <1>12, <2>1, ConnShrinks DEF StreamInv, ConnInv
    <3>2. Passed(c) = Passed(c)' \cup {e}
          BY <1>10, <1>12, <2>1 DEF Passed
    <3>3. Accounted(c)'
          BY <1>2, <1>12, <2>1, <3>2, AccountedKept DEF StreamInv
    <3> QED BY <3>1, <3>3
  <2>2. CASE conn'[c].send = Append(cn.send, e) /\ conn'[c].missed = cn.missed
    <3>1. Range(conn'[c].send) = Range(cn.send) \cup {e}
          BY <1>3, <1>11, <2>2, RangeAppend
    <3>2. Ascending(conn'[c].send)
      <4>1. Below(Range(cn.send), {e})
            BY <1>13 DEF InLine
      <4> QED BY <1>3, <1>11, <1>13, <2>2, <4>1, AscendingAppend
    <3>3. Passed(c)' = Passed(c)
          BY <1>10, <1>12, <3>1 DEF Passed
    <3>4. InLine(Range(cn.got), Range(cn.out), Range(cn.send) \cup {e}, {}, Range(pending))
          BY <1>13 DEF InLine, Below
    <3>5. InLine(Range(conn[c].got), Range(conn[c].out), Range(conn[c].send), Offer(c),
                 Range(pending))'
          BY <1>2, <1>10, <1>12, <3>1, <3>4
    <3>6. \A x \in Passed(c)' : Sent(x)' /\ x.battle = Watches[c]
          BY <1>2, <1>13, <3>3 DEF Sent
    <3>7. ConnInv(c)'
          BY <1>2, <1>3, <1>12, <1>13, <3>2, <3>5, <3>6 DEF StreamInv, ConnInv
    <3>8. Accounted(c)'
          BY <1>2, <1>12, <2>2, <3>3, AccountedKept DEF StreamInv
    <3> QED BY <3>7, <3>8
  <2> QED BY <1>12, <2>1, <2>2
<1> QED BY <1>8, <1>9, <1>14 DEF StreamInv

-----------------------------------------------------------------------------
(* One connection *)

LEMMA ServeStream ==
    ASSUME TypeOK, StreamInv, NEW c \in Conns,
           Attach(c) \/ Subscribe(c) \/ Unsubscribe(c) \/ ClientLeaves(c)
    PROVE  StreamInv'
<1> DEFINE cn == conn[c]
<1>1. cn \in ConnState
      BY DEF TypeOK
<1>2. /\ UNCHANGED <<driver, published, pending, lost, listener>>
      /\ Offer(c)' = Offer(c)
      BY DEF Attach, Subscribe, Unsubscribe, ClientLeaves, wireVars, Offer
<1>3. ConnInv(c) /\ Accounted(c) /\ ListenerInv
      BY DEF StreamInv
<1>4. CASE Attach(c)
  <2> DEFINE r == [cn EXCEPT !.at = "attached"]
  <2>1. conn' = [conn EXCEPT ![c] = r]
        BY <1>4 DEF Attach
  <2>2. conn'[c] = r
        BY <2>1 DEF TypeOK
  <2>3. /\ conn'[c].at = "attached" /\ conn'[c].got = cn.got /\ conn'[c].out = cn.out
        /\ conn'[c].send = cn.send /\ conn'[c].writer = cn.writer
        BY <1>1, <2>2 DEF ConnState
  <2>4. ConnInv(c)'
        BY <1>2, <1>3, <2>3, ConnShrinks DEF ConnInv
  <2>5. Accounted(c)'
        BY <2>3 DEF Accounted
  <2> QED BY <1>2, <2>1, <2>4, <2>5, OneConnectionStep
<1>5. CASE Subscribe(c)
  <2>1. conn' = [conn EXCEPT ![c] = Served] /\ driver = "ws" /\ listener.at # "broadcast"
        BY <1>5 DEF Subscribe, Lockable
  <2>2. conn'[c] = Served
        BY <2>1 DEF TypeOK
  <2>3. /\ conn'[c].got = <<>> /\ conn'[c].out = <<>> /\ conn'[c].send = <<>>
        /\ conn'[c].writer = "idle" /\ conn'[c].since = Len(published)
        BY <2>2 DEF Served, NewConn
  <2>4. ConnInv(c)'
        BY <1>2, <1>3, <2>1, <2>3, ConnShrinks
  <2>5. Accounted(c)'
    <3>1. Len(published) \in Nat /\ DOMAIN published = 1..Len(published)
          BY DEF TypeOK
    <3> QED BY <1>2, <2>3, <3>1 DEF Accounted
  <2> QED BY <1>2, <2>1, <2>4, <2>5, OneConnectionStep
<1>6. CASE Unsubscribe(c)
  <2>1. PICK r \in {Closed(cn), [cn EXCEPT !.at = "left"]} : conn' = [conn EXCEPT ![c] = r]
        BY <1>6 DEF Unsubscribe
  <2>2. conn'[c] = r /\ cn.at = "reading"
        BY <1>6, <2>1 DEF Unsubscribe, TypeOK
  <2>3. /\ conn'[c].got \in {cn.got, <<>>} /\ conn'[c].out = cn.out
        /\ conn'[c].send = cn.send /\ conn'[c].writer = cn.writer /\ conn'[c].at = "left"
    <3>1. CASE r = Closed(cn)
          BY <1>1, <2>2, <3>1 DEF Closed, ConnState
    <3>2. CASE r = [cn EXCEPT !.at = "left"]
          BY <1>1, <2>2, <3>2 DEF ConnState
    <3> QED BY <2>1, <3>1, <3>2
  <2>4. driver # "ably"
        BY <1>3, <2>2 DEF ConnInv
  <2>5. ConnInv(c)'
        BY <1>2, <1>3, <2>3, <2>4, ConnShrinks DEF ConnInv
  <2>6. Accounted(c)'
        BY <2>3 DEF Accounted
  <2> QED BY <1>2, <2>1, <2>5, <2>6, OneConnectionStep
<1>7. CASE ClientLeaves(c)
  <2> DEFINE r == [cn EXCEPT !.link = "gone"]
  <2>1. conn' = [conn EXCEPT ![c] = r]
        BY <1>7 DEF ClientLeaves
  <2>2. conn'[c] = r
        BY <2>1 DEF TypeOK
  <2>3. /\ conn'[c].at = cn.at /\ conn'[c].got = cn.got /\ conn'[c].out = cn.out
        /\ conn'[c].send = cn.send /\ conn'[c].writer = cn.writer
        /\ conn'[c].since = cn.since /\ conn'[c].missed = cn.missed
        BY <1>1, <2>2 DEF ConnState
  <2>4. ConnInv(c)'
        BY <1>2, <1>3, <2>3, ConnShrinks DEF ConnInv
  <2>5. Passed(c)' = Passed(c)
        BY <1>2, <2>3 DEF Passed
  <2>6. Accounted(c)'
        BY <1>2, <1>3, <2>3, <2>5, AccountedKept
  <2> QED BY <1>2, <2>1, <2>4, <2>6, OneConnectionStep
<1> QED BY <1>4, <1>5, <1>6, <1>7

\* The writer takes a message, writes it, or fails and drops it.
LEMMA WriterStream ==
    ASSUME TypeOK, StreamInv, NEW c \in Conns, WriterStep(c)
    PROVE  StreamInv'
<1> DEFINE cn == conn[c]
<1>1. /\ cn \in ConnState /\ cn.send \in Seq(Event) /\ cn.out \in Seq(Event)
      /\ cn.got \in Seq(Event)
      BY ConnFields DEF TypeOK
<1>2. /\ UNCHANGED <<driver, published, pending, lost, listener>>
      /\ Offer(c)' = Offer(c)
      BY DEF WriterStep, WriterTake, Write, WriteFails, wireVars, Offer
<1>3. ConnInv(c) /\ Accounted(c) /\ ListenerInv
      BY DEF StreamInv
<1>4. /\ InLine(Range(cn.got), Range(cn.out), Range(cn.send), Offer(c), Range(pending))
      /\ Ascending(cn.got) /\ Ascending(cn.out) /\ Ascending(cn.send)
      /\ \A x \in Passed(c) : Sent(x) /\ x.battle = Watches[c]
      BY <1>3 DEF ConnInv
<1>5. driver = "ably" => /\ cn.send = <<>> /\ cn.out = <<>>
                         /\ cn.at \in {"new", "attached"}
      BY <1>3 DEF ConnInv
<1>6. CASE WriterTake(c) /\ cn.send # <<>>
  <2>1. PICK h, rest : h = Head(cn.send) /\ rest = Tail(cn.send)
        OBVIOUS
  <2> DEFINE r == [cn EXCEPT !.send = rest, !.out = <<h>>, !.writer = "writing"]
  <2>2. conn' = [conn EXCEPT ![c] = r]
        BY <1>6, <2>1 DEF WriterTake
  <2>3. conn'[c] = r
        BY <2>2 DEF TypeOK
  <2>4. /\ conn'[c].at = cn.at /\ conn'[c].got = cn.got /\ conn'[c].out = <<h>>
        /\ conn'[c].send = rest /\ conn'[c].writer = "writing"
        /\ conn'[c].since = cn.since /\ conn'[c].missed = cn.missed
        BY <1>1, <2>3 DEF ConnState
  <2>5. /\ Range(cn.send) = {h} \cup Range(rest)
        /\ Ascending(rest) /\ Below({h}, Range(rest))
        BY <1>1, <1>4, <1>6, <2>1, RangeTail, AscendingTail
  <2>6. cn.out = <<>> /\ Range(cn.out) = {} /\ Range(<<h>>) = {h} /\ Ascending(<<h>>)
        BY <1>3, <1>6, RangeEmpty, RangeOne, AscendingOne DEF WriterTake, ConnInv
  <2>7. Passed(c)' = Passed(c)
        BY <1>2, <2>4, <2>5, <2>6 DEF Passed
  <2>8. InLine(Range(cn.got), {h}, Range(rest), Offer(c), Range(pending))
        BY <1>4, <2>5 DEF InLine, Below
  <2>9. InLine(Range(conn[c].got), Range(conn[c].out), Range(conn[c].send), Offer(c),
               Range(pending))'
        BY <1>2, <2>4, <2>6, <2>8
  <2>10. \A x \in Passed(c)' : Sent(x)' /\ x.battle = Watches[c]
         BY <1>2, <1>4, <2>7 DEF Sent
  <2>11. driver # "ably"
         BY <1>5, <1>6
  <2>12. ConnInv(c)'
         BY <1>2, <1>4, <2>4, <2>5, <2>6, <2>9, <2>10, <2>11 DEF ConnInv
  <2>13. Accounted(c)'
         BY <1>2, <1>3, <2>4, <2>7, AccountedKept
  <2> QED BY <1>2, <2>2, <2>12, <2>13, OneConnectionStep
<1>7. CASE WriterTake(c) /\ cn.send = <<>>
  <2> DEFINE r == [cn EXCEPT !.writer = "done"]
  <2>1. conn' = [conn EXCEPT ![c] = r] /\ cn.writer = "idle"
        BY <1>7 DEF WriterTake
  <2>2. conn'[c] = r
        BY <2>1 DEF TypeOK
  <2>3. /\ conn'[c].at = cn.at /\ conn'[c].got = cn.got /\ conn'[c].out = cn.out
        /\ conn'[c].send = cn.send /\ conn'[c].writer = "done"
        /\ conn'[c].since = cn.since /\ conn'[c].missed = cn.missed
        BY <1>1, <2>2 DEF ConnState
  <2>4. cn.out = <<>>
        BY <1>3, <2>1 DEF ConnInv
  <2>5. ConnInv(c)'
        BY <1>2, <1>3, <1>5, <2>3, <2>4, ConnShrinks
  <2>6. Passed(c)' = Passed(c)
        BY <1>2, <2>3 DEF Passed
  <2>7. Accounted(c)'
        BY <1>2, <1>3, <2>3, <2>6, AccountedKept
  <2> QED BY <1>2, <2>1, <2>5, <2>7, OneConnectionStep
<1>8. CASE Write(c)
  <2>1. PICK all : all = cn.got \o cn.out
        OBVIOUS
  <2> DEFINE r == [cn EXCEPT !.got = all, !.out = <<>>, !.writer = "idle"]
  <2>2. conn' = [conn EXCEPT ![c] = r]
        BY <1>8, <2>1 DEF Write
  <2>3. conn'[c] = r
        BY <2>2 DEF TypeOK
  <2>4. /\ conn'[c].at = cn.at /\ conn'[c].got = all /\ conn'[c].out = <<>>
        /\ conn'[c].send = cn.send
        /\ conn'[c].since = cn.since /\ conn'[c].missed = cn.missed
        BY <1>1, <2>3 DEF ConnState
  <2>5. Range(all) = Range(cn.got) \cup Range(cn.out) /\ Ascending(all)
        BY <1>1, <1>4, <2>1, RangeConcat, AscendingConcat DEF InLine
  <2>6. Passed(c)' = Passed(c)
        BY <1>2, <2>4, <2>5, RangeEmpty DEF Passed
  <2>7. InLine(Range(cn.got) \cup Range(cn.out), {}, Range(cn.send), Offer(c), Range(pending))
        BY <1>4 DEF InLine, Below
  <2>8. InLine(Range(conn[c].got), Range(conn[c].out), Range(conn[c].send), Offer(c),
               Range(pending))'
        BY <1>2, <2>4, <2>5, <2>7, RangeEmpty
  <2>9. \A x \in Passed(c)' : Sent(x)' /\ x.battle = Watches[c]
        BY <1>2, <1>4, <2>6 DEF Sent
  <2>10. ConnInv(c)'
         BY <1>2, <1>4, <1>5, <2>4, <2>5, <2>8, <2>9, AscendingEmpty DEF ConnInv
  <2>11. Accounted(c)'
         BY <1>2, <1>3, <2>4, <2>6, AccountedKept
  <2> QED BY <1>2, <2>2, <2>10, <2>11, OneConnectionStep
<1>9. CASE WriteFails(c)
  <2> DEFINE r == [cn EXCEPT !.missed = cn.missed \cup Ids(cn.out), !.out = <<>>,
                             !.writer = "done", !.link = "gone"]
  <2>1. conn' = [conn EXCEPT ![c] = r]
        BY <1>9 DEF WriteFails
  <2>2. conn'[c] = r
        BY <2>1 DEF TypeOK
  <2>3. /\ conn'[c].at = cn.at /\ conn'[c].got = cn.got /\ conn'[c].out = <<>>
        /\ conn'[c].send = cn.send
        /\ conn'[c].since = cn.since /\ conn'[c].missed = cn.missed \cup Ids(cn.out)
        BY <1>1, <2>2 DEF ConnState
  <2>4. ConnInv(c)'
        BY <1>2, <1>3, <1>5, <2>3, ConnShrinks
  <2>5. \A x \in Passed(c) : x.id \in Ids(cn.out) \/ x \in Passed(c)'
        BY <1>2, <2>3, IdsOfRange DEF Passed
  <2>6. Accounted(c)'
        BY <1>2, <1>3, <2>3, <2>5, AccountedKept
  <2> QED BY <1>2, <2>1, <2>4, <2>6, OneConnectionStep
<1> QED BY <1>6, <1>7, <1>8, <1>9 DEF WriterStep

LEMMA StreamNext ==
    ASSUME TypeOK, HubInv, StreamInv, [Next]_vars
    PROVE  StreamInv'
<1>1. ASSUME NEW p \in Publishers, BeginPublish(p) \/ EmitFails(p)
      PROVE  StreamInv'
      BY <1>1, StreamSame DEF BeginPublish, EmitFails, hubVars
<1>2. CASE UNCHANGED vars
      BY <1>2, StreamSame DEF vars, wireVars, hubVars
<1> QED BY <1>1, <1>2, EmitStream, ListenStream, ReceiveStream, SendStream, ServeStream,
           WriterStream DEF Next, Broadcast

LEMMA StreamInvariant == Spec => [](TypeOK /\ StreamInv)
<1>1. TypeOK /\ HubInv /\ StreamInv /\ [Next]_vars => StreamInv'
      BY StreamNext
<1> QED BY <1>1, StreamInit, HubInvariant, HubTypeCorrect, PTL DEF Spec

\* What is on its way to a connection, as one sequence.
LEMMA ArrivingInOrder ==
    ASSUME TypeOK, StreamInv, NEW c \in Conns
    PROVE  /\ Arriving(c) \in Seq(Event) /\ Range(Arriving(c)) = Passed(c)
           /\ Arriving(c) \o pending \in Seq(Event)
           /\ Range(Arriving(c) \o pending) = Passed(c) \cup Range(pending)
           /\ Ascending(Arriving(c) \o pending)
<1>1. PICK got, out, send, event :
        /\ got = conn[c].got /\ out = conn[c].out /\ send = conn[c].send
        /\ event = IF c \in listener.todo THEN listener.event ELSE <<>>
      OBVIOUS
<1>2. /\ got \in Seq(Event) /\ out \in Seq(Event) /\ send \in Seq(Event)
      /\ pending \in Seq(Event) /\ event \in Seq(Event)
      BY <1>1, ConnFields DEF TypeOK, ListenerState
<1>3. Range(event) = Offer(c) /\ Ascending(event)
  <2>1. CASE c \in listener.todo
    <3>1. listener.event = <<listener.event[1]>>
          BY <2>1 DEF StreamInv, ListenerInv
    <3>2. Ascending(listener.event)
          BY <3>1, AscendingOne
    <3> QED BY <1>1, <2>1, <3>2 DEF Offer
  <2>2. CASE c \notin listener.todo
        BY <1>1, <2>2, RangeEmpty, AscendingEmpty DEF Offer
  <2> QED BY <2>1, <2>2
<1>4. /\ Ascending(got) /\ Ascending(out) /\ Ascending(send) /\ Ascending(pending)
      /\ InLine(Range(got), Range(out), Range(send), Range(event), Range(pending))
      BY <1>1, <1>3 DEF StreamInv, ListenerInv, ConnInv
<1>5. PICK two, three, four :
        two = got \o out /\ three = two \o send /\ four = three \o event
      OBVIOUS
<1>6. two \in Seq(Event) /\ Range(two) = Range(got) \cup Range(out) /\ Ascending(two)
      BY <1>2, <1>4, <1>5, RangeConcat, AscendingConcat DEF InLine
<1>7. three \in Seq(Event) /\ Range(three) = Range(two) \cup Range(send)
      BY <1>2, <1>5, <1>6, RangeConcat
<1>8. Ascending(three)
  <2>1. Below(Range(two), Range(send))
        BY <1>4, <1>6 DEF InLine, Below
  <2> QED BY <1>2, <1>4, <1>5, <1>6, <2>1, AscendingConcat
<1>9. four \in Seq(Event) /\ Range(four) = Range(three) \cup Range(event)
      BY <1>2, <1>5, <1>7, RangeConcat
<1>10. Ascending(four)
  <2>1. Below(Range(three), Range(event))
        BY <1>4, <1>6, <1>7 DEF InLine, Below
  <2> QED BY <1>2, <1>3, <1>5, <1>7, <1>8, <2>1, AscendingConcat
<1>11. four \o pending \in Seq(Event) /\ Range(four \o pending) = Range(four) \cup Range(pending)
       BY <1>2, <1>9, RangeConcat
<1>12. Ascending(four \o pending)
  <2>1. Below(Range(four), Range(pending))
        BY <1>4, <1>6, <1>7, <1>9 DEF InLine, Below
  <2> QED BY <1>2, <1>4, <1>9, <1>10, <2>1, AscendingConcat
<1>13. four = Arriving(c)
       BY <1>1, <1>5 DEF Arriving
<1>14. Range(four) = Passed(c)
       BY <1>1, <1>3, <1>6, <1>7, <1>9 DEF Passed
<1> QED BY <1>9, <1>11, <1>12, <1>13, <1>14

\* A client receives the events of its battle, in the order they were emitted and none
\* twice, however often it and the listener reconnect.
THEOREM EventsComeInOrder == Spec => []InOrder
<1>1. ASSUME TypeOK, StreamInv, NEW c \in Conns
      PROVE  /\ \A i \in DOMAIN Arriving(c) : Arriving(c)[i].battle = Watches[c]
             /\ Ascending(Arriving(c) \o pending)
  <2>1. Range(Arriving(c)) = Passed(c) /\ Ascending(Arriving(c) \o pending)
        BY <1>1, ArrivingInOrder
  <2>2. \A e \in Passed(c) : e.battle = Watches[c]
        BY <1>1 DEF StreamInv, ConnInv
  <2>3. \A i \in DOMAIN Arriving(c) : Arriving(c)[i] \in Passed(c)
        BY <2>1 DEF Range
  <2> QED BY <2>1, <2>2, <2>3
<1>2. TypeOK /\ StreamInv => InOrder
      BY <1>1 DEF InOrder
<1> QED BY <1>2, StreamInvariant, PTL

\* No event is lost but where the code drops one: between two LISTEN sessions, at a full
\* channel, or with a write that failed.
THEOREM NoEventVanishes == Spec => []NothingVanishes
<1>1. ASSUME TypeOK, StreamInv, NEW c \in Conns, conn[c].at = "reading",
             NEW i \in (conn[c].since + 1)..Len(published),
             published[i].battle = Watches[c]
      PROVE  i \in lost \cup conn[c].missed \cup Ids(Arriving(c) \o pending)
  <2>1. conn[c].since \in Nat /\ Len(published) \in Nat
        /\ DOMAIN published = 1..Len(published)
        BY <1>1 DEF TypeOK, ConnState
  <2>2. i \in DOMAIN published /\ i > conn[c].since
        BY <1>1, <2>1
  <2>3. \/ i \in lost \cup conn[c].missed
        \/ published[i] \in Passed(c) \cup Range(pending)
        BY <1>1, <2>2 DEF StreamInv, Accounted
  <2>4. published[i].id = i
        BY <1>1, <2>2 DEF StreamInv, ListenerInv
  <2>5. Range(Arriving(c) \o pending) = Passed(c) \cup Range(pending)
        BY <1>1, ArrivingInOrder
  <2> QED BY <2>3, <2>4, <2>5, IdsOfRange
<1>2. TypeOK /\ StreamInv => NothingVanishes
      BY <1>1 DEF NothingVanishes
<1> QED BY <1>2, StreamInvariant, PTL
=============================================================================
