------------------------------ MODULE Realtime ------------------------------
(***************************************************************************)
(* The realtime service (services/realtime_service/app/main.py), for one   *)
(* project: WebSocket clients registered per channel, SSE clients with a   *)
(* bounded queue each, and the tasks that broadcast to them - the Redis    *)
(* subscriber, the heartbeat, and requests to the publish endpoint.        *)
(*                                                                         *)
(* A broadcast awaits every send, so that registrations, disconnections    *)
(* and other broadcasts come between its sends; the push to the SSE queues *)
(* has no await.                                                           *)
(***************************************************************************)
EXTENDS Handlers, SequencesExt

CONSTANTS
    Sockets,            \* WebSocket clients
    SseClients,         \* SSE clients
    QueueSize,          \* 256: maxsize of an SSE queue
    MaxErrors,          \* 10: max_consecutive_errors
    AcceptsTwice,       \* whether the server lets a socket be accepted again
    MaxMessages         \* bound: messages published, errors, heartbeats

ASSUME RealtimeAssumption ==
    /\ {QueueSize, MaxErrors} \subseteq Nat \ {0}
    /\ MaxMessages \in Nat
    /\ AcceptsTwice \in BOOLEAN
    /\ Requests \cap {"subscriber", "heartbeat"} = {}

VARIABLES
    socket,         \* each WebSocket: at, its channel, and whether the client has gone
    connections,    \* ConnectionManager._connections: sockets registered
    casts,          \* the broadcast each task is at
    subscriber,     \* the Redis subscriber: "listening", "reconnecting", "stopped"
    errorsInRow,    \* its consecutive_errors
    sse,            \* each SSE client: [on, queue, since]
    aired,          \* history: envelopes pushed to the SSE clients, in order
    happened        \* messages and faults there have been

realtimeVars ==
    <<socket, connections, casts, subscriber, errorsInRow, sse, aired, happened, request>>

Channels == {"mentions", "dashboard", "alerts"}

Tasks == {"subscriber", "heartbeat"} \cup Requests

(* rest: the channels to come; left, dead: of the channel at hand.         *)
NoCast == [on |-> FALSE, kind |-> "none", rest |-> << >>, left |-> {}, dead |-> {}]

RealtimeInit ==
    /\ socket = [c \in Sockets |-> [at |-> "out", channel |-> "mentions", gone |-> FALSE]]
    /\ connections = {}
    /\ casts = [t \in Tasks |-> NoCast]
    /\ subscriber = "listening"
    /\ errorsInRow = 0
    /\ sse = [c \in SseClients |-> [on |-> FALSE, queue |-> << >>, since |-> 0]]
    /\ aired = << >>
    /\ happened = 0
    /\ NoRequests

Happens == happened < MaxMessages /\ happened' = happened + 1

Broadcasts == <<casts, subscriber, errorsInRow, sse, aired>>
Clients == <<socket, connections>>

-----------------------------------------------------------------------------
(* ws_mentions, ws_dashboard and ws_alerts differ in the channel.          *)

MoveSocket(c, where) == socket' = [socket EXCEPT ![c].at = where]

AcceptSocket(c, channel) ==
    /\ socket[c].at = "out"
    /\ socket' = [socket EXCEPT ![c].at = "auth", ![c].channel = channel]
    /\ UNCHANGED <<connections, Broadcasts, happened, request>>

(* No token, an invalid one, or no access: the socket is closed.           *)
Authenticate(c, permitted) ==
    /\ socket[c].at = "auth"
    /\ MoveSocket(c, IF permitted THEN "connect" ELSE "closed")
    /\ UNCHANGED <<connections, Broadcasts, happened, request>>

(* ConnectionManager.connect accepts the socket a second time.  If that    *)
(* raises the endpoint ends there, outside its try.                        *)
ConnectSocket(c) ==
    /\ socket[c].at = "connect"
    /\ IF AcceptsTwice /\ ~socket[c].gone
       THEN MoveSocket(c, "open") /\ connections' = connections \cup {c}
       ELSE MoveSocket(c, "closed") /\ UNCHANGED connections
    /\ UNCHANGED <<Broadcasts, happened, request>>

(* The client closes, or its network does.                                 *)
LeaveSocket(c) ==
    /\ socket[c].at \notin {"out", "closed"}
    /\ ~socket[c].gone
    /\ socket' = [socket EXCEPT ![c].gone = TRUE]
    /\ UNCHANGED <<connections, Broadcasts, happened, request>>

(* The receive loop ends: the client has gone, a ping of the server found  *)
(* it gone, or it sent JSON that is not an object.                         *)
EndReceive(c) ==
    /\ socket[c].at = "open"
    /\ MoveSocket(c, "finally")
    /\ UNCHANGED <<connections, Broadcasts, happened, request>>

DisconnectSocket(c) ==
    /\ socket[c].at = "finally"
    /\ MoveSocket(c, "closed")
    /\ connections' = connections \ {c}
    /\ UNCHANGED <<Broadcasts, happened, request>>

-----------------------------------------------------------------------------
(* Broadcasts.                                                             *)

MessageKinds == {"mention", "unreadable", "dashboard", "alert"}

(* The channels a message goes to.  A mention goes to its channel first    *)
(* and then, in another form, to the dashboard.                            *)
RouteOf(kind) ==
    CASE kind = "alert" -> <<"alerts">>
      [] kind = "dashboard" -> <<"dashboard">>
      [] kind = "mention" -> <<"mentions", "dashboard">>
      [] kind = "unreadable" -> <<"mentions">>

CastOf(kind, channels) ==
    [on |-> TRUE, kind |-> kind, rest |-> channels, left |-> {}, dead |-> {}]

Cast(t, cast) == casts' = [casts EXCEPT ![t] = cast]

On(channel) == {c \in connections : socket[c].channel = channel}

(* get_message of the pattern realtime:*; nothing else is routed.          *)
ReceiveMessage(kind) ==
    /\ subscriber = "listening"
    /\ ~casts["subscriber"].on
    /\ Happens
    /\ Cast("subscriber", CastOf(kind, RouteOf(kind)))
    /\ UNCHANGED <<Clients, subscriber, errorsInRow, sse, aired, request>>

(* publish_message.                                                        *)
PublishMessage(p, kind) ==
    /\ ~casts[p].on
    /\ Happens
    /\ Cast(p, CastOf(kind, RouteOf(kind)))
    /\ UNCHANGED <<Clients, subscriber, errorsInRow, sse, aired, request>>

(* heartbeat_loop: to the channels there are, if there is a connection.    *)
Heartbeat ==
    /\ ~casts["heartbeat"].on
    /\ connections # {}
    /\ Happens
    /\ \E order \in SetToSeqs({socket[c].channel : c \in connections}) :
          Cast("heartbeat", CastOf("heartbeat", order))
    /\ UNCHANGED <<Clients, subscriber, errorsInRow, sse, aired, request>>

Between(t) == casts[t].on /\ casts[t].left = {} /\ casts[t].dead = {}

(* The copy of the connections of the next channel.                        *)
NextChannel(t) ==
    /\ Between(t)
    /\ casts[t].rest # << >>
    /\ Cast(t, [casts[t] EXCEPT !.left = On(Head(casts[t].rest)), !.rest = Tail(@)])
    /\ UNCHANGED <<Clients, subscriber, errorsInRow, sse, aired, happened, request>>

(* _safe_send: a socket that is gone or closed may be found dead.          *)
SendTo(t, c, delivered) ==
    /\ casts[t].on
    /\ c \in casts[t].left
    /\ delivered \/ socket[c].gone \/ socket[c].at = "closed"
    /\ Cast(t, [casts[t] EXCEPT !.left = @ \ {c}, !.dead = IF delivered THEN @ ELSE @ \cup {c}])
    /\ UNCHANGED <<Clients, subscriber, errorsInRow, sse, aired, happened, request>>

DropDead(t, c) ==
    /\ casts[t].on
    /\ casts[t].left = {}
    /\ c \in casts[t].dead
    /\ connections' = connections \ {c}
    /\ Cast(t, [casts[t] EXCEPT !.dead = @ \ {c}])
    /\ UNCHANGED <<socket, subscriber, errorsInRow, sse, aired, happened, request>>

-----------------------------------------------------------------------------
(* SSE.                                                                    *)

Subscribe(c) ==
    /\ ~sse[c].on
    /\ sse' = [sse EXCEPT ![c] = [on |-> TRUE, queue |-> << >>, since |-> Len(aired)]]
    /\ UNCHANGED <<Clients, casts, subscriber, errorsInRow, aired, happened, request>>

Unsubscribe(c) ==
    /\ sse[c].on
    /\ sse' = [sse EXCEPT ![c] = [on |-> FALSE, queue |-> << >>, since |-> 0]]
    /\ UNCHANGED <<Clients, casts, subscriber, errorsInRow, aired, happened, request>>

StreamToClient(c) ==
    /\ sse[c].queue # << >>
    /\ sse' = [sse EXCEPT ![c].queue = Tail(@)]
    /\ UNCHANGED <<Clients, casts, subscriber, errorsInRow, aired, happened, request>>

\* Mutant of PutOrDropOldest: a full queue takes no more messages.
PutOrRefuse(queue, message) == IF Len(queue) < QueueSize THEN Append(queue, message) ELSE queue

(* put_nowait, and on QueueFull the oldest makes room.                     *)
PutOrDropOldest(queue, message) ==
    IF Len(queue) < QueueSize THEN Append(queue, message) ELSE Append(Tail(queue), message)

PushToClients ==
    LET message == Len(aired) + 1
    IN  /\ aired' = Append(aired, message)
        /\ sse' = [c \in SseClients |->
                     IF sse[c].on THEN [sse[c] EXCEPT !.queue = PutOrDropOldest(@, message)]
                     ELSE sse[c]]

-----------------------------------------------------------------------------
(* The end of a broadcast.                                                 *)

(* SubscriberError: what the except clauses of redis_subscriber do.        *)
SubscriberError(next) ==
    /\ errorsInRow' = errorsInRow + 1
    /\ subscriber' = IF errorsInRow' >= MaxErrors THEN "stopped" ELSE next

(* A mention whose numbers int() cannot read raises after its first        *)
(* channel: SSE clients never see it.                                      *)
FinishCast(t) ==
    /\ Between(t)
    /\ casts[t].rest = << >>
    /\ Cast(t, NoCast)
    /\ IF casts[t].kind \in {"heartbeat", "unreadable"} THEN UNCHANGED <<sse, aired>>
       ELSE PushToClients
    /\ IF t # "subscriber" THEN UNCHANGED <<subscriber, errorsInRow>>
       ELSE IF casts[t].kind = "unreadable" THEN SubscriberError("listening")
       ELSE errorsInRow' = 0 /\ UNCHANGED subscriber
    /\ UNCHANGED <<Clients, happened, request>>

(* get_message raises ConnectionError.                                     *)
LoseRedis ==
    /\ subscriber = "listening"
    /\ ~casts["subscriber"].on
    /\ Happens
    /\ SubscriberError("reconnecting")
    /\ UNCHANGED <<Clients, casts, sse, aired, request>>

(* A psubscribe that raises ends the task: it is in an except clause.      *)
Reconnect(reply) ==
    /\ subscriber = "reconnecting"
    /\ subscriber' = IF Raised(reply) THEN "stopped" ELSE "listening"
    /\ UNCHANGED <<Clients, casts, errorsInRow, sse, aired, happened, request>>

-----------------------------------------------------------------------------
SocketStep(c) ==
    \/ \E channel \in Channels : AcceptSocket(c, channel)
    \/ \E permitted \in BOOLEAN : Authenticate(c, permitted)
    \/ ConnectSocket(c)
    \/ LeaveSocket(c)
    \/ EndReceive(c)
    \/ DisconnectSocket(c)

CastStep(t) ==
    \/ NextChannel(t)
    \/ \E c \in Sockets : DropDead(t, c) \/ \E delivered \in BOOLEAN : SendTo(t, c, delivered)
    \/ FinishCast(t)

RealtimeNext ==
    \/ \E c \in Sockets : SocketStep(c)
    \/ \E t \in Tasks : CastStep(t)
    \/ \E kind \in MessageKinds :
          ReceiveMessage(kind) \/ \E p \in Requests : PublishMessage(p, kind)
    \/ Heartbeat
    \/ \E c \in SseClients : Subscribe(c) \/ Unsubscribe(c) \/ StreamToClient(c)
    \/ LoseRedis
    \/ \E reply \in Outcomes : Reconnect(reply)

RealtimeSpec == RealtimeInit /\ [][RealtimeNext]_realtimeVars

-----------------------------------------------------------------------------
RealtimeTypeOK ==
    /\ \A c \in Sockets :
          socket[c].at \in {"out", "auth", "connect", "open", "finally", "closed"}
    /\ connections \subseteq Sockets
    /\ \A t \in Tasks : casts[t].left \cup casts[t].dead \subseteq Sockets
    /\ subscriber \in {"listening", "reconnecting", "stopped"}
    /\ errorsInRow \in 0 .. MaxErrors

(* An SSE client's queue is the end of what was published since it         *)
(* subscribed, in order, and no longer than its bound.                     *)
SseKeepsNewest ==
    \A c \in SseClients :
        LET queue == sse[c].queue
        IN  /\ Len(queue) <= QueueSize
            /\ queue # << >> => Last(queue) = Len(aired) /\ Head(queue) > sse[c].since
            /\ \A i \in 1 .. Len(queue) - 1 : queue[i + 1] = queue[i] + 1

(* A registered socket has a handler that will let it go.                  *)
RegisteredIsServed == \A c \in connections : socket[c].at \in {"open", "finally"}

(* Whatever is full, slow or broken: an SSE client has the newest messages *)
(* without a gap, and no broadcast that drops dead sockets brings back one *)
(* its handler has let go, or keeps one that nobody will let go.           *)
ClientsAreServed == SseKeepsNewest /\ RegisteredIsServed
=============================================================================
