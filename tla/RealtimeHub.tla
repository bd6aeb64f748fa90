----------------------------- MODULE RealtimeHub -----------------------------
(***************************************************************************)
(* Realtime events (internal/realtime): from a publish call in a handler   *)
(* or in the worker to the clients of a battle.                            *)
(*                                                                         *)
(* With driver "ws" an event is a pg_notify; the API process LISTENs on    *)
(* one connection and broadcasts what arrives to the WebSockets of the     *)
(* battle, each with a bounded channel and a goroutine that writes it out. *)
(* With driver "ably" an event is posted to Ably, an external service that *)
(* passes it to the clients whose token covers its channel.                *)
(*                                                                         *)
(* An event is its position in the order of emission, its battle and its   *)
(* channel; the payload, a copy of a row's status, is left out.            *)
(***************************************************************************)
EXTENDS Integers, Sequences, FiniteSets, Functions

CONSTANTS
    Battles,      \* battle uuids
    Students,     \* ids of the battles' members
    MemberLists,  \* the member lists PublishBattleWithMembers is called with
    Publishers,   \* goroutines of the API and the worker that publish
    Conns,        \* client connections
    Watches,      \* Watches[c]: the battle the client of connection c is in
    Capacity,     \* messages a connection's send channel holds (32)
    MaxEvents,    \* bound: no publish call begins once so many events are out
    Faults        \* TRUE: publishes fail and the LISTEN connection breaks

ASSUME RealtimeAssumption ==
    /\ MemberLists \subseteq Seq(Students)
    /\ Watches \in [Conns -> Battles]
    /\ Capacity \in Nat \ {0}
    /\ MaxEvents \in Nat
    /\ Faults \in BOOLEAN

VARIABLES
    driver,      \* REALTIME_DRIVER, the same in both processes
    publisher,   \* publisher[p]: channels the publish call of p has still to emit on
    published,   \* history: the events emitted, in order
    pending,     \* notifications on their way to the LISTENing connection
    lost,        \* history: ids of events that reached no such connection
    listener,    \* the goroutine of StartListener
    subs,        \* wsHub.subs: battle -> connections, no entry when there are none
    conn,        \* conn[c]: the connection, its goroutines and its client
    panicked     \* a goroutine used a channel that was closed already

wireVars == <<publisher, published, pending, lost>>
hubVars  == <<listener, subs, conn, panicked>>
vars     == <<driver, wireVars, hubVars>>

-----------------------------------------------------------------------------
(* Channels and events *)

BattleChannel(b) == <<b>>
MemberChannel(b, s) == <<b, s>>

Channels == {BattleChannel(b) : b \in Battles}
            \cup {MemberChannel(b, s) : b \in Battles, s \in Students}

Event == [id : Nat, battle : Battles, channel : Channels]

\* The channels a publish call emits on, one event each.  DeleteBattle and
\* DeleteMember emit where PublishBattle and PublishMember do.
PublishBattle(b) == <<BattleChannel(b)>>

\* A member's channel that does not name the battle.
PublishBareMember(b, s) == <<<<s>>>>

PublishMember(b, s) == <<MemberChannel(b, s)>>

PublishBattleWithMembers(b, ms) ==
    PublishBattle(b) \o [i \in DOMAIN ms |-> MemberChannel(b, ms[i])]

Publications(b) ==
    {PublishBattle(b)} \cup {PublishMember(b, s) : s \in Students}
    \cup {PublishBattleWithMembers(b, ms) : ms \in MemberLists}

\* The channels an Ably token of battle b lets its client subscribe to.
Capability(b) == {ch \in Channels : ch[1] = b}

-----------------------------------------------------------------------------
(* State *)

ConnState ==
    [at     : {"new", "attached", "reading", "left"},
     since  : Nat,              \* history: events emitted before it subscribed
     send   : Seq(Event),       \* the buffered messages of its send channel
     closed : BOOLEAN,          \* close(send) was called
     writer : {"none", "idle", "writing", "done"},
     out    : Seq(Event),       \* the message its writer has taken
     link   : {"up", "gone"},
     got    : Seq(Event),       \* what the client received
     missed : SUBSET Nat]       \* history: ids dropped here or not written

NewConn ==
    [at |-> "new", since |-> 0, send |-> <<>>, closed |-> FALSE, writer |-> "none",
     out |-> <<>>, link |-> "up", got |-> <<>>, missed |-> {}]

\* at "broadcast" the listener holds hub.mu for reading; todo: the connections
\* of the battle it has not come to.
ListenerState ==
    [at : {"down", "wait", "broadcast"}, event : Seq(Event), todo : SUBSET Conns]

Waiting == [at |-> "wait", event |-> <<>>, todo |-> {}]

TypeOK ==
    /\ driver \in {"ws", "ably"}
    /\ publisher \in [Publishers -> Seq(Channels)]
    /\ published \in Seq(Event)
    /\ pending \in Seq(Event)
    /\ lost \subseteq Nat
    /\ listener \in ListenerState
    /\ DOMAIN subs \subseteq Battles
    /\ \A b \in DOMAIN subs : subs[b] \subseteq Conns
    /\ conn \in [Conns -> ConnState]
    /\ panicked \in BOOLEAN

Init ==
    /\ driver \in {"ws", "ably"}
    /\ publisher = [p \in Publishers |-> <<>>]
    /\ published = <<>>
    /\ pending = <<>>
    /\ lost = {}
    /\ listener = [Waiting EXCEPT !.at = "down"]
    /\ subs = [b \in {} |-> {}]
    /\ conn = [c \in Conns |-> NewConn]
    /\ panicked = FALSE

Ids(events) == {events[i].id : i \in DOMAIN events}

-----------------------------------------------------------------------------
(* Publishing *)

BeginPublish(p) ==
    /\ publisher[p] = <<>>
    /\ Len(published) < MaxEvents
    /\ \E b \in Battles : \E channels \in Publications(b) :
          publisher' = [publisher EXCEPT ![p] = channels]
    /\ UNCHANGED <<driver, published, pending, lost, hubVars>>

NextEvent(p) ==
    LET ch == Head(publisher[p]) IN
    [id |-> Len(published) + 1, battle |-> ch[1], channel |-> ch]

\* Ably passes an event on to everyone attached with a token that covers it.
AblyDelivered(e) ==
    [c \in Conns |->
        IF conn[c].at = "attached" /\ conn[c].link = "up"
           /\ e.channel \in Capability(Watches[c])
        THEN [conn[c] EXCEPT !.got = Append(@, e)]
        ELSE conn[c]]

\* One event goes out: a NOTIFY, which only a LISTENing session hears of, or a
\* REST call.
Emit(p) ==
    /\ publisher[p] # <<>>
    /\ publisher' = [publisher EXCEPT ![p] = Tail(@)]
    /\ published' = Append(published, NextEvent(p))
    /\ \/ /\ driver = "ws" /\ listener.at # "down"
          /\ pending' = Append(pending, NextEvent(p))
          /\ UNCHANGED <<lost, conn>>
       \/ /\ driver = "ws" /\ listener.at = "down"
          /\ lost' = lost \cup {NextEvent(p).id}
          /\ UNCHANGED <<pending, conn>>
       \/ /\ driver = "ably"
          /\ conn' = AblyDelivered(NextEvent(p))
          /\ UNCHANGED <<pending, lost>>
    /\ UNCHANGED <<driver, listener, subs, panicked>>

\* A publish fails.  WSService goes on with the next event, AblyService returns;
\* the callers ignore the error.
EmitFails(p) ==
    /\ Faults
    /\ publisher[p] # <<>>
    /\ publisher' = [publisher EXCEPT ![p] = IF driver = "ws" THEN Tail(@) ELSE <<>>]
    /\ UNCHANGED <<driver, published, pending, lost, hubVars>>

-----------------------------------------------------------------------------
(* StartListener, listen and wsHub.broadcast: one goroutine of the API *)

\* Acquire a connection and LISTEN; until that succeeds it is tried every 2s.
Listen ==
    /\ driver = "ws"
    /\ listener.at = "down"
    /\ listener' = Waiting
    /\ UNCHANGED <<driver, wireVars, subs, conn, panicked>>

\* The connection broke, with what was on its way, and WaitForNotification
\* returns an error.
ListenError ==
    /\ Faults
    /\ listener.at = "wait"
    /\ listener' = [listener EXCEPT !.at = "down"]
    /\ pending' = <<>>
    /\ lost' = lost \cup Ids(pending)
    /\ UNCHANGED <<driver, publisher, published, subs, conn, panicked>>

Subscribers(b) == IF b \in DOMAIN subs THEN subs[b] ELSE {}

\* WaitForNotification returns one, and broadcast takes the read lock.
Receive ==
    LET e == Head(pending) IN
    /\ listener.at = "wait"
    /\ pending # <<>>
    /\ pending' = Tail(pending)
    /\ listener' = IF Subscribers(e.battle) = {} THEN Waiting
                   ELSE [at |-> "broadcast", event |-> <<e>>,
                         todo |-> Subscribers(e.battle)]
    /\ UNCHANGED <<driver, publisher, published, lost, subs, conn, panicked>>

\* The message goes into one connection's channel, or nowhere when that is full.
Offered(cn, e) ==
    IF Len(cn.send) < Capacity
      THEN [cn EXCEPT !.send = Append(@, e)]
      ELSE [cn EXCEPT !.missed = @ \cup {e.id}]

\* The send without its default branch: it waits for room.
SendToBlocking(c) ==
    /\ listener.at = "broadcast"
    /\ c \in listener.todo
    /\ Len(conn[c].send) < Capacity
    /\ conn' = [conn EXCEPT ![c] = Offered(@, listener.event[1])]
    /\ listener' = IF listener.todo = {c} THEN Waiting
                   ELSE [listener EXCEPT !.todo = @ \ {c}]
    /\ UNCHANGED <<driver, wireVars, subs, panicked>>

SendTo(c) ==
    /\ listener.at = "broadcast"
    /\ c \in listener.todo
    /\ IF conn[c].closed
         THEN panicked' = TRUE /\ UNCHANGED conn
         ELSE /\ conn' = [conn EXCEPT ![c] = Offered(@, listener.event[1])]
              /\ UNCHANGED panicked
    /\ listener' = IF listener.todo = {c} THEN Waiting
                   ELSE [listener EXCEPT !.todo = @ \ {c}]
    /\ UNCHANGED <<driver, wireVars, subs>>

-----------------------------------------------------------------------------
(* ServeWS: a handler goroutine that reads, and a goroutine that writes *)

\* hub.mu can be taken for writing: no broadcast holds it for reading.
Lockable == listener.at # "broadcast"

\* A client may connect, or come back once its last connection is over.  A refused
\* handshake changes nothing.
MayConnect(c) ==
    \/ conn[c].at = "new"
    \/ conn[c].at = "left" /\ conn[c].writer = "done"

\* An Ably client attaches with the token of its battle.
Attach(c) ==
    /\ driver = "ably"
    /\ MayConnect(c)
    /\ conn' = [conn EXCEPT ![c].at = "attached"]
    /\ UNCHANGED <<driver, wireVars, listener, subs, panicked>>

Served == [NewConn EXCEPT !.at = "reading", !.writer = "idle", !.since = Len(published)]

\* subscribe that makes a new set of connections every time.
SubscribeAlone(c) ==
    LET b == Watches[c] IN
    /\ driver = "ws"
    /\ MayConnect(c)
    /\ Lockable
    /\ subs' = [x \in DOMAIN subs \cup {b} |-> IF x = b THEN {c} ELSE subs[x]]
    /\ conn' = [conn EXCEPT ![c] = Served]
    /\ UNCHANGED <<driver, wireVars, listener, panicked>>

\* ServeWS accepts; hub.subscribe under the lock, then the writer starts.
Subscribe(c) ==
    LET b == Watches[c] IN
    /\ driver = "ws"
    /\ MayConnect(c)
    /\ Lockable
    /\ subs' = [x \in DOMAIN subs \cup {b} |->
                  IF x = b THEN Subscribers(b) \cup {c} ELSE subs[x]]
    /\ conn' = [conn EXCEPT ![c] = Served]
    /\ UNCHANGED <<driver, wireVars, listener, panicked>>

\* delete(set, c) alone: the entry of the battle stays.
RemovedOnly(c, b) == [subs EXCEPT ![b] = @ \ {c}]

\* delete(set, c), and the entry of the battle with its last connection.
Removed(c, b) ==
    [x \in {y \in DOMAIN subs : y # b \/ subs[y] # {c}} |-> subs[x] \ {c}]

\* The channel is closed; what it buffers its writer still takes.  The history
\* of the connection ends here.
Closed(cn) ==
    [cn EXCEPT !.at = "left", !.closed = TRUE, !.since = 0, !.got = <<>>,
               !.missed = {}]

\* Read returns an error, and the handler without its deferred function.
UnsubscribeNever(c) ==
    /\ conn[c].at = "reading"
    /\ conn[c].link = "gone"
    /\ conn' = [conn EXCEPT ![c].at = "left"]
    /\ UNCHANGED <<driver, wireVars, listener, subs, panicked>>

\* hub.unsubscribe without the lock.
UnsubscribeUnlocked(c) ==
    LET b == Watches[c] IN
    /\ conn[c].at = "reading"
    /\ conn[c].link = "gone"
    /\ IF c \in Subscribers(b)
         THEN /\ subs' = Removed(c, b)
              /\ panicked' = (panicked \/ conn[c].closed)
              /\ conn' = [conn EXCEPT ![c] = Closed(@)]
         ELSE /\ conn' = [conn EXCEPT ![c].at = "left"]
              /\ UNCHANGED <<subs, panicked>>
    /\ UNCHANGED <<driver, wireVars, listener>>

\* Read returns an error, and the handler runs its deferred function: under the
\* lock, forget the connection and close its channel; then CloseNow.
Unsubscribe(c) ==
    LET b == Watches[c] IN
    /\ conn[c].at = "reading"
    /\ conn[c].link = "gone"
    /\ Lockable
    /\ IF c \in Subscribers(b)
         THEN /\ subs' = Removed(c, b)
              /\ panicked' = (panicked \/ conn[c].closed)
              /\ conn' = [conn EXCEPT ![c] = Closed(@)]
         ELSE /\ conn' = [conn EXCEPT ![c].at = "left"]
              /\ UNCHANGED <<subs, panicked>>
    /\ UNCHANGED <<driver, wireVars, listener>>

\* The writer takes the next message, or ends when the channel is closed and empty.
WriterTake(c) ==
    LET cn == conn[c] IN
    /\ cn.writer = "idle"
    /\ \/ /\ cn.send # <<>>
          /\ conn' = [conn EXCEPT ![c].send = Tail(@), ![c].out = <<Head(cn.send)>>,
                                  ![c].writer = "writing"]
       \/ /\ cn.send = <<>> /\ cn.closed
          /\ conn' = [conn EXCEPT ![c].writer = "done"]
    /\ UNCHANGED <<driver, wireVars, listener, subs, panicked>>

\* A writer that returns after its first message.
WriteOnce(c) ==
    /\ conn[c].writer = "writing"
    /\ conn[c].link = "up"
    /\ conn' = [conn EXCEPT ![c].got = @ \o conn[c].out, ![c].out = <<>>,
                            ![c].writer = "done"]
    /\ UNCHANGED <<driver, wireVars, listener, subs, panicked>>

\* A writer that keeps the message it has written.
WriteAgain(c) ==
    /\ conn[c].writer = "writing"
    /\ conn[c].link = "up"
    /\ conn' = [conn EXCEPT ![c].got = @ \o conn[c].out, ![c].writer = "idle"]
    /\ UNCHANGED <<driver, wireVars, listener, subs, panicked>>

Write(c) ==
    /\ conn[c].writer = "writing"
    /\ conn[c].link = "up"
    /\ conn' = [conn EXCEPT ![c].got = @ \o conn[c].out, ![c].out = <<>>,
                            ![c].writer = "idle"]
    /\ UNCHANGED <<driver, wireVars, listener, subs, panicked>>

\* Write fails, because the client is gone or has not read for 10s, and the writer
\* returns.  The WebSocket library closes a connection whose Write failed.
WriteFails(c) ==
    /\ conn[c].writer = "writing"
    /\ conn[c].link = "gone" \/ Faults
    /\ conn' = [conn EXCEPT ![c].missed = @ \cup Ids(conn[c].out), ![c].out = <<>>,
                            ![c].writer = "done", ![c].link = "gone"]
    /\ UNCHANGED <<driver, wireVars, listener, subs, panicked>>

\* External: the client goes away.
ClientLeaves(c) ==
    /\ conn[c].at \in {"attached", "reading"}
    /\ conn[c].link = "up"
    /\ conn' = [conn EXCEPT ![c].link = "gone"]
    /\ UNCHANGED <<driver, wireVars, listener, subs, panicked>>

-----------------------------------------------------------------------------

Broadcast == Receive \/ \E c \in Conns : SendTo(c)
WriterStep(c) == WriterTake(c) \/ Write(c) \/ WriteFails(c)

Next ==
    \/ \E p \in Publishers : BeginPublish(p) \/ Emit(p) \/ EmitFails(p)
    \/ Listen
    \/ ListenError
    \/ Broadcast
    \/ \E c \in Conns :
          \/ Attach(c)
          \/ Subscribe(c)
          \/ Unsubscribe(c)
          \/ WriterStep(c)
          \/ ClientLeaves(c)

Spec == Init /\ [][Next]_vars

\* Goroutines run on, and a lock that is free is taken; nothing is asked of
\* clients, of publishers or of the network.
FairSpec ==
    /\ Spec
    /\ WF_vars(Broadcast)
    /\ \A c \in Conns : WF_vars(Unsubscribe(c)) /\ WF_vars(WriterStep(c))
-----------------------------------------------------------------------------
(* The hub *)

\* No goroutine sends on a closed channel or closes one twice: either would panic
\* and take the API process down (ws.go:216-239).
NoPanic == ~panicked

InHub(c) == conn[c].at = "reading"

\* The map holds exactly the connections being served, each under its battle with
\* an open channel, and no battle nobody listens to (ws.go:207-228).
HubMatchesConnections ==
    /\ \A b \in DOMAIN subs :
          /\ subs[b] # {}
          /\ \A c \in subs[b] : InHub(c) /\ Watches[c] = b /\ ~conn[c].closed
    /\ \A c \in Conns : InHub(c) => c \in Subscribers(Watches[c])

-----------------------------------------------------------------------------
(* What a client sees *)

OfBattle(events, b) == SelectSeq(events, LAMBDA e : e.battle = b)

\* What the hub has passed to connection c or is about to, in the order it arrives.
Arriving(c) ==
    conn[c].got \o conn[c].out \o conn[c].send
    \o (IF c \in listener.todo THEN listener.event ELSE <<>>)

\* Everything on its way to connection c.
Stream(c) == Arriving(c) \o OfBattle(pending, Watches[c])

\* Each event of the sequence was emitted before those that follow it.
Ascending(events) ==
    \A i, j \in DOMAIN events : i < j => events[i].id < events[j].id

\* A client receives the events of its battle only, in the order they were
\* emitted and none twice, through reconnects of the listener and full buffers;
\* nothing it has or is about to get is overtaken by a pending notification.
InOrder ==
    \A c \in Conns :
        /\ \A i \in DOMAIN Arriving(c) : Arriving(c)[i].battle = Watches[c]
        /\ Ascending(Arriving(c) \o pending)

\* Nothing vanishes on the way: an event emitted since the client subscribed is
\* received, on its way, or was lost in one of the two places where the code drops
\* events: a gap between LISTEN sessions, and a full or broken connection.
NothingVanishes ==
    \A c \in Conns : conn[c].at = "reading" =>
        \A i \in (conn[c].since + 1)..Len(published) :
            published[i].battle = Watches[c] =>
                i \in lost \cup conn[c].missed \cup Ids(Arriving(c) \o pending)

-----------------------------------------------------------------------------
(* Progress *)

\* A broadcast ends, however many clients have stopped reading (ws.go:230).
BroadcastEnds == listener.at = "broadcast" ~> listener.at = "wait"

\* What is on its way to a client that is served and keeps reading reaches it, but
\* for what is dropped where NothingVanishes says.
EventsArrive ==
    \A c \in Conns :
        conn[c].at = "reading" ~> Stream(c) = conn[c].got \/ conn[c].link = "gone"

\* A client that has gone is forgotten: its handler returns, its channel is closed
\* and its writer ends, also one whose client merely stopped reading while there
\* was something to write (ws.go:166-188).
GoneIsForgotten ==
    \A c \in Conns :
        conn[c].link = "gone" /\ InHub(c) ~>
            conn[c].at = "left" /\ conn[c].closed /\ conn[c].writer = "done"
=============================================================================
