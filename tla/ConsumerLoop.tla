---------------------------- MODULE ConsumerLoop ----------------------------
(***************************************************************************)
(* The loop the event-driven services share: read a batch with             *)
(* EventBus.consume, handle its entries in order, dispose of each.  The    *)
(* services differ in what a handler does and in what its except and       *)
(* finally clauses leave to do: media, enrichment, audit and scheduler     *)
(* acknowledge in a finally; notification leaves an entry pending or       *)
(* dead-letters it; report leaves it pending or acknowledges it.           *)
(*                                                                         *)
(* A module for a service extends this one with the places of its own      *)
(* handler between "handle" and the disposal of the entry.                 *)
(***************************************************************************)
EXTENDS StreamGroup, FiniteSets

CONSTANTS
    Workers,        \* the replicas of the service
    BatchSize,      \* the count given to bus.consume
    MaxEntries,     \* bound: entries ever added to the stream
    Replies,        \* which outcomes of a Redis or database call may happen
    MayCrash        \* whether a replica may crash

ASSUME LoopAssumption ==
    /\ IsFiniteSet(Workers)
    /\ BatchSize \in Nat \ {0}
    /\ MaxEntries \in Nat
    /\ "ok" \in Replies
    /\ Replies \subseteq BusReply
    /\ MayCrash \in BOOLEAN

VARIABLES
    stream,         \* the stream the service consumes
    group,          \* its consumer group
    place,          \* where each replica is
    todo            \* ids of its batch not disposed of yet

loopVars == <<stream, group, place, todo>>

LoopInit ==
    /\ stream = EmptyStream
    /\ group = NewGroup
    /\ place = [w \in Workers |-> "idle"]
    /\ todo = [w \in Workers |-> {}]

LoopTypeOK(Entry, Places) ==
    /\ stream \in StreamOf(Entry)
    /\ group \in Group
    /\ place \in [Workers -> Places \cup {"idle", "handle", "finally"}]
    /\ todo \in [Workers -> SUBSET (1 .. group.last)]

EntryAt(id) == stream.log[id]

(* The for loop over messages is at entry id.                              *)
At(w, where, id) ==
    /\ place[w] = where
    /\ id \in todo[w]
    /\ \A other \in todo[w] : id <= other

-----------------------------------------------------------------------------
Goto(w, where) == place' = [place EXCEPT ![w] = where]

(* The for loop goes on to the next message.                               *)
Finished(w, id) ==
    /\ todo' = [todo EXCEPT ![w] = @ \ {id}]
    /\ Goto(w, IF todo'[w] = {} THEN "idle" ELSE "handle")

(* The handler around the batch, or a crash: its rest is forgotten.        *)
Abandon(w) ==
    /\ todo' = [todo EXCEPT ![w] = {}]
    /\ Goto(w, "idle")

Enter(entry) == stream' \in XAdd(stream, <<entry>>) /\ UNCHANGED <<group, place, todo>>

Add(entry) == Len(stream.log) < MaxEntries /\ Enter(entry)

Consume(w, reply) ==
    /\ place[w] = "idle"
    /\ Fresh(stream, group, BatchSize) # {}
    /\ Applied(reply)
    /\ group' = XReadGroup(stream, group, BatchSize)
    /\ IF Raised(reply)
       THEN UNCHANGED <<place, todo>>
       ELSE /\ todo' = [todo EXCEPT ![w] = Fresh(stream, group, BatchSize)]
            /\ Goto(w, "handle")
    /\ UNCHANGED stream

(* XACK of the entry at hand; if it raises, the batch is abandoned.        *)
Acknowledge(w, id, reply) ==
    /\ group' = IF Applied(reply) THEN XAck(group, id) ELSE group
    /\ IF Raised(reply) THEN Abandon(w) ELSE Finished(w, id)
    /\ UNCHANGED stream

(* The finally clause of a handler, which nothing else can skip.           *)
AckFinally(w, id, reply) == At(w, "finally", id) /\ Acknowledge(w, id, reply)

(* A step inside the handler.                                              *)
Step(w, where) == Goto(w, where) /\ UNCHANGED <<stream, group, todo>>

CrashLoop(w) ==
    /\ MayCrash
    /\ place[w] # "idle"
    /\ Abandon(w)
    /\ UNCHANGED <<stream, group>>
=============================================================================
