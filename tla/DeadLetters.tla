---------------------------- MODULE DeadLetters -----------------------------
(***************************************************************************)
(* EventBus.consume_with_retry, move_to_dlq and reprocess_dlq (shared/     *)
(* events.py): a consumer that leaves to the bus what becomes of an entry  *)
(* whose handler raised, and an operator who puts dead letters back on     *)
(* their stream.  No service uses either yet; the services have loops of   *)
(* their own, and the tests of the bus are the callers.                    *)
(*                                                                         *)
(* An entry carries _retry_count, which nothing but its publisher and      *)
(* reprocess_dlq ever sets: a failure leaves the entry pending, to be read *)
(* again, as a comment says, by XAUTOCLAIM; but consume reads only ">".    *)
(***************************************************************************)
EXTENDS ConsumerLoop

CONSTANTS
    Payloads,       \* what may be published
    MaxTries,       \* max_retries of the stream's RetryPolicy
    Operators,      \* those who may call reprocess_dlq
    ReprocessCount  \* its count

ASSUME DeadLettersAssumption == MaxTries \in Nat /\ ReprocessCount \in Nat \ {0}

VARIABLES
    deadLetters,    \* the stream <stream>:dlq, of payloads
    removed,        \* ids XDEL removed from it
    handledOnce,    \* history: payloads whose handler has returned
    moving          \* each operator: [at, left], the ids left to move

deadOwn == <<deadLetters, removed, handledOnce, moving>>

DeadPlaces == {"ack", "dead", "deadAck"}

AtRest == [at |-> "free", left |-> {}]

DeadLettersInit ==
    /\ LoopInit
    /\ deadLetters = EmptyStream
    /\ removed = {}
    /\ handledOnce = {}
    /\ moving = [o \in Operators |-> AtRest]

PublishWork(payload, tries) ==
    /\ Add([payload |-> payload, tries |-> tries])
    /\ UNCHANGED deadOwn

-----------------------------------------------------------------------------
(* consume_with_retry.                                                     *)

HandleWork(w, id) ==
    /\ At(w, "handle", id)
    /\ handledOnce' = handledOnce \cup {EntryAt(id).payload}
    /\ Step(w, "ack")
    /\ UNCHANGED <<deadLetters, removed, moving>>

(* The except clause, of a handler or an acknowledgement that raised: only *)
(* an entry with no tries left is moved; any other is left pending, after  *)
(* a backoff.                                                              *)
FailWork(w, id) ==
    IF EntryAt(id).tries >= MaxTries
    THEN Step(w, "dead")
    ELSE Finished(w, id) /\ UNCHANGED <<stream, group>>

HandlerRaises(w, id) ==
    /\ At(w, "handle", id)
    /\ FailWork(w, id)
    /\ UNCHANGED deadOwn

AckWork(w, id, reply) ==
    /\ At(w, "ack", id)
    /\ group' = IF Applied(reply) THEN XAck(group, id) ELSE group
    /\ IF Raised(reply) /\ EntryAt(id).tries >= MaxTries
       THEN Goto(w, "dead") /\ UNCHANGED todo
       ELSE Finished(w, id)
    /\ UNCHANGED <<stream, deadOwn>>

(* move_to_dlq: an entry that was trimmed meanwhile stays pending; what    *)
(* raises here ends the batch.                                             *)
Move(id, reply) ==
    deadLetters' \in IF Exists(stream, id) /\ Applied(reply)
                     THEN XAdd(deadLetters, <<EntryAt(id).payload>>) ELSE {deadLetters}

\* Mutant of MoveWork: acknowledged together with the move, failed or not.
MoveWorkAcking(w, id, reply) ==
    /\ At(w, "dead", id)
    /\ Move(id, reply)
    /\ group' = XAck(group, id)
    /\ IF Raised(reply) THEN Abandon(w) ELSE Finished(w, id)
    /\ UNCHANGED <<stream, removed, handledOnce, moving>>

MoveWork(w, id, reply) ==
    /\ At(w, "dead", id)
    /\ Move(id, reply)
    /\ IF Raised(reply) THEN Abandon(w)
       ELSE IF Exists(stream, id) THEN Goto(w, "deadAck") /\ UNCHANGED todo
       ELSE Finished(w, id)
    /\ UNCHANGED <<stream, group, removed, handledOnce, moving>>

AckMoved(w, id, reply) ==
    /\ At(w, "deadAck", id)
    /\ Acknowledge(w, id, reply)
    /\ UNCHANGED deadOwn

ConsumeWithRetry(w) ==
    \/ \E reply \in Replies : Consume(w, reply) /\ UNCHANGED deadOwn
    \/ \E id \in todo[w] :
          \/ HandleWork(w, id)
          \/ HandlerRaises(w, id)
          \/ \E reply \in Replies :
                AckWork(w, id, reply) \/ MoveWork(w, id, reply) \/ AckMoved(w, id, reply)

CrashConsumer(w) == CrashLoop(w) /\ UNCHANGED deadOwn

-----------------------------------------------------------------------------
(* reprocess_dlq.                                                          *)

DeadIds == {id \in Ids(deadLetters) : Exists(deadLetters, id)} \ removed

(* XRANGE - + COUNT count                                                  *)
ReadDead(o) ==
    /\ moving[o].at = "free"
    /\ DeadIds # {}
    /\ moving' = [moving EXCEPT ![o] =
                     [at |-> "publish",
                      left |-> {id \in DeadIds :
                                   Cardinality({older \in DeadIds : older < id}) < ReprocessCount}]]
    /\ UNCHANGED <<loopVars, deadLetters, removed, handledOnce>>

Moving(o, id) == id \in moving[o].left /\ \A other \in moving[o].left : id <= other

(* Back on the stream, with all its tries; an exception ends the call.     *)
Republish(o, id, reply) ==
    /\ moving[o].at = "publish"
    /\ Moving(o, id)
    /\ Len(stream.log) < MaxEntries
    /\ stream' \in IF Applied(reply)
                   THEN XAdd(stream, <<[payload |-> deadLetters.log[id], tries |-> 0]>>)
                   ELSE {stream}
    /\ moving' = [moving EXCEPT ![o] = IF Raised(reply) THEN AtRest ELSE [@ EXCEPT !.at = "delete"]]
    /\ UNCHANGED <<group, place, todo, deadLetters, removed, handledOnce>>

DeleteDead(o, id, reply) ==
    /\ moving[o].at = "delete"
    /\ Moving(o, id)
    /\ removed' = IF Applied(reply) THEN removed \cup {id} ELSE removed
    /\ LET left == moving[o].left \ {id}
       IN  moving' = [moving EXCEPT ![o] = IF Raised(reply) \/ left = {} THEN AtRest
                                           ELSE [at |-> "publish", left |-> left]]
    /\ UNCHANGED <<loopVars, deadLetters, handledOnce>>

CrashOperator(o) ==
    /\ MayCrash
    /\ moving[o] # AtRest
    /\ moving' = [moving EXCEPT ![o] = AtRest]
    /\ UNCHANGED <<loopVars, deadLetters, removed, handledOnce>>

ReprocessDlq(o) ==
    \/ ReadDead(o)
    \/ \E id \in moving[o].left, reply \in Replies : Republish(o, id, reply) \/ DeleteDead(o, id, reply)
    \/ CrashOperator(o)

DeadLettersNext ==
    \/ \E payload \in Payloads, tries \in {0, MaxTries} : PublishWork(payload, tries)
    \/ \E w \in Workers : ConsumeWithRetry(w) \/ CrashConsumer(w)
    \/ \E o \in Operators : ReprocessDlq(o)

DeadLettersSpec == DeadLettersInit /\ [][DeadLettersNext]_<<loopVars, deadOwn>>

-----------------------------------------------------------------------------
DeadLettersTypeOK ==
    /\ LoopTypeOK([payload : Payloads, tries : {0, MaxTries}], DeadPlaces)
    /\ deadLetters \in StreamOf(Payloads)
    /\ removed \subseteq Ids(deadLetters)
    /\ \A o \in Operators : moving[o].left \subseteq Ids(deadLetters)

(* Where a payload that has not been handled may be: still to be read, or  *)
(* pending, or among the dead letters; or MAXLEN trimmed it away.          *)
OnTheStream(payload) ==
    \E id \in Ids(stream) :
        stream.log[id].payload = payload /\ (id > group.last \/ id \in group.pending)

Trimmed(payload) ==
    \/ \E id \in Ids(stream) : stream.log[id].payload = payload /\ ~Exists(stream, id)
    \/ \E id \in Ids(deadLetters) \ removed :
          deadLetters.log[id] = payload /\ ~Exists(deadLetters, id)

Dead(payload) == \E id \in DeadIds : deadLetters.log[id] = payload

(* However consumers, operators, crashes and lost replies interleave, what *)
(* was published is handled once or still to be found, unless it was       *)
(* trimmed; putting dead letters back loses none.                          *)
NothingVanishes ==
    \A id \in Ids(stream) :
        LET payload == stream.log[id].payload
        IN  \/ payload \in handledOnce
            \/ OnTheStream(payload)
            \/ Dead(payload)
            \/ Trimmed(payload)
=============================================================================
