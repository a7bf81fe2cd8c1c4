------------------------------ MODULE Analyzer ------------------------------
(***************************************************************************)
(* The analyzer service (services/analyzer_service/app/main.py): replicas  *)
(* in one consumer group take batches of raw mentions, analyse them one by *)
(* one, publish the analysed ones as a batch, acknowledge them, and move   *)
(* the others to the dead-letter stream.                                   *)
(*                                                                         *)
(* Every await on Redis is an action of its own with the reply it got, so  *)
(* replicas interleave between any two of them, and any of them may raise. *)
(* An exception that reaches the loop's outer handler abandons the rest of *)
(* the batch; a crash loses everything but Redis, and the process that     *)
(* takes over reads new entries only.                                      *)
(***************************************************************************)
EXTENDS Faults, FiniteSets

CONSTANTS
    Analyzers,      \* the replicas (the autoscaler runs 1 to 5)
    BatchSize,      \* BATCH_SIZE
    Mentions,       \* contents of raw mention events
    MaxRaw          \* bound: entries ever added to mentions:raw

ASSUME AnalyzerAssumption ==
    /\ BatchSize \in Nat \ {0}
    /\ MaxRaw \in Nat
    /\ "ok" \in Replies
    /\ Replies \subseteq BusReply
    /\ MayCrash \in BOOLEAN

VARIABLES
    raw,        \* the stream mentions:raw
    rawGroup,   \* its consumer group analyzer-service
    rawDlq,     \* the stream mentions:raw:dlq, as original_msg_id values
    analyzed,   \* the stream mentions:analyzed
    apc,        \* where each replica is in process_loop
    todo,       \* ids of the batch not analysed yet
    good,       \* ack_ids not acknowledged yet
    bad,        \* failed_msgs not disposed of yet
    dlqRaised   \* history: ids whose move_to_dlq raised

streamVars == <<raw, rawGroup, rawDlq, analyzed>>
replicaVars == <<apc, todo, good, bad>>
analyzerVars == <<raw, rawGroup, rawDlq, analyzed, apc, todo, good, bad, dlqRaised>>

AnalyzerPc == {"idle", "analyze", "publish", "ack", "dlq", "dlq_ack", "last_resort"}

AnalyzedEvent == [mention : Mentions, origin : Nat]

AnalyzerInit ==
    /\ raw = EmptyStream
    /\ rawGroup = NewGroup
    /\ rawDlq = << >>
    /\ analyzed = EmptyStream
    /\ apc = [a \in Analyzers |-> "idle"]
    /\ todo = [a \in Analyzers |-> {}]
    /\ good = [a \in Analyzers |-> {}]
    /\ bad = [a \in Analyzers |-> {}]
    /\ dlqRaised = {}

IsFirst(id, ids) == id \in ids /\ \A other \in ids : id <= other

-----------------------------------------------------------------------------
(* The loop gives up on the batch: its outer exception handler, or a crash.*)
Abandon(a) ==
    /\ apc' = [apc EXCEPT ![a] = "idle"]
    /\ todo' = [todo EXCEPT ![a] = {}]
    /\ good' = [good EXCEPT ![a] = {}]
    /\ bad' = [bad EXCEPT ![a] = {}]

(* What the loop does next once acknowledgements g and failures b remain.  *)
Remaining(g, b) ==
    IF g # {} THEN "ack" ELSE IF b # {} THEN "dlq" ELSE "idle"

(* bus.consume.  If the reply is lost the entries stay pending, undealt.   *)
Consume(a, reply) ==
    /\ apc[a] = "idle"
    /\ Fresh(raw, rawGroup, BatchSize) # {}
    /\ Applied(reply)
    /\ rawGroup' = XReadGroup(raw, rawGroup, BatchSize)
    /\ IF Raised(reply)
       THEN UNCHANGED <<apc, todo>>
       ELSE /\ apc' = [apc EXCEPT ![a] = "analyze"]
            /\ todo' = [todo EXCEPT ![a] = Fresh(raw, rawGroup, BatchSize)]
    /\ UNCHANGED <<raw, rawDlq, analyzed, good, bad, dlqRaised>>

\* Mutant of Analyze: a mention whose retry failed is published as well.
AnalyzeKeepingFailed(a, id, fails) ==
    /\ apc[a] = "analyze"
    /\ IsFirst(id, todo[a])
    /\ todo' = [todo EXCEPT ![a] = @ \ {id}]
    /\ good' = [good EXCEPT ![a] = @ \cup {id}]
    /\ bad' = [bad EXCEPT ![a] = IF fails THEN @ \cup {id} ELSE @]
    /\ apc' = [apc EXCEPT ![a] = IF todo'[a] # {} THEN "analyze" ELSE "publish"]
    /\ UNCHANGED <<raw, rawGroup, rawDlq, analyzed, dlqRaised>>

\* Mutant of Analyze: a mention whose retry failed is not recorded as failed.
AnalyzeForgettingFailed(a, id, fails) ==
    /\ apc[a] = "analyze"
    /\ IsFirst(id, todo[a])
    /\ todo' = [todo EXCEPT ![a] = @ \ {id}]
    /\ good' = [good EXCEPT ![a] = IF fails THEN @ ELSE @ \cup {id}]
    /\ apc' = [apc EXCEPT ![a] = IF todo'[a] # {} THEN "analyze"
                                 ELSE IF good'[a] # {} THEN "publish" ELSE "idle"]
    /\ UNCHANGED <<raw, rawGroup, rawDlq, analyzed, bad, dlqRaised>>

(* The end of one analyze_mention, its one retry included: the mention     *)
(* joins analyzed_events/ack_ids or failed_msgs.                           *)
Analyze(a, id, fails) ==
    /\ apc[a] = "analyze"
    /\ IsFirst(id, todo[a])
    /\ todo' = [todo EXCEPT ![a] = @ \ {id}]
    /\ good' = [good EXCEPT ![a] = IF fails THEN @ ELSE @ \cup {id}]
    /\ bad' = [bad EXCEPT ![a] = IF fails THEN @ \cup {id} ELSE @]
    /\ apc' = [apc EXCEPT ![a] = IF todo'[a] # {} THEN "analyze"
                                 ELSE IF good'[a] # {} THEN "publish" ELSE "dlq"]
    /\ UNCHANGED <<raw, rawGroup, rawDlq, analyzed, dlqRaised>>

(* The ids of a set as an increasing sequence.                             *)
InOrder(ids) ==
    {s \in [1 .. Cardinality(ids) -> ids] :
        \A i, j \in 1 .. Cardinality(ids) : i < j => s[i] < s[j]}

EventsOf(ids) ==
    [i \in DOMAIN ids |-> [mention |-> raw.log[ids[i]], origin |-> ids[i]]]

\* Mutant of PublishBatch: acknowledges although the publish raised.
PublishBatchSwallowing(a, reply) ==
    /\ apc[a] = "publish"
    /\ IF Applied(reply)
       THEN \E ids \in InOrder(good[a]) : analyzed' \in XAdd(analyzed, EventsOf(ids))
       ELSE UNCHANGED analyzed
    /\ apc' = [apc EXCEPT ![a] = "ack"]
    /\ UNCHANGED <<raw, rawGroup, rawDlq, todo, good, bad, dlqRaised>>

(* bus.publish_batch: all the analysed events in one MULTI/EXEC, in order. *)
PublishBatch(a, reply) ==
    /\ apc[a] = "publish"
    /\ IF Applied(reply)
       THEN \E ids \in InOrder(good[a]) : analyzed' \in XAdd(analyzed, EventsOf(ids))
       ELSE UNCHANGED analyzed
    /\ IF Raised(reply)
       THEN Abandon(a)
       ELSE /\ apc' = [apc EXCEPT ![a] = "ack"]
            /\ UNCHANGED <<todo, good, bad>>
    /\ UNCHANGED <<raw, rawGroup, rawDlq, dlqRaised>>

(* bus.ack of the next id of ack_ids.                                      *)
Ack(a, id, reply) ==
    /\ apc[a] = "ack"
    /\ IsFirst(id, good[a])
    /\ rawGroup' = IF Applied(reply) THEN XAck(rawGroup, id) ELSE rawGroup
    /\ IF Raised(reply)
       THEN Abandon(a)
       ELSE /\ good' = [good EXCEPT ![a] = @ \ {id}]
            /\ apc' = [apc EXCEPT ![a] = Remaining(good'[a], bad[a])]
            /\ UNCHANGED <<todo, bad>>
    /\ UNCHANGED <<raw, rawDlq, analyzed, dlqRaised>>

(* One entry of failed_msgs is done with.                                  *)
Disposed(a, id) ==
    /\ bad' = [bad EXCEPT ![a] = @ \ {id}]
    /\ apc' = [apc EXCEPT ![a] = Remaining({}, bad'[a])]
    /\ UNCHANGED <<todo, good>>

(* move_to_dlq raised: the last-resort acknowledgement is next.            *)
DlqFailed(a, id) ==
    /\ apc' = [apc EXCEPT ![a] = "last_resort"]
    /\ dlqRaised' = dlqRaised \cup {id}
    /\ UNCHANGED <<todo, good, bad>>

(* move_to_dlq, first half: read the entry back; if it has been trimmed    *)
(* return without acknowledging it, otherwise publish the DLQEntry.        *)
DlqPublish(a, id, reply) ==
    /\ apc[a] = "dlq"
    /\ IsFirst(id, bad[a])
    /\ rawDlq' = IF Exists(raw, id) /\ Applied(reply) THEN Append(rawDlq, id) ELSE rawDlq
    /\ IF Raised(reply)
       THEN DlqFailed(a, id)
       ELSE /\ UNCHANGED dlqRaised
            /\ IF Exists(raw, id)
               THEN /\ apc' = [apc EXCEPT ![a] = "dlq_ack"]
                    /\ UNCHANGED <<todo, good, bad>>
               ELSE Disposed(a, id)
    /\ UNCHANGED <<raw, rawGroup, analyzed>>

(* move_to_dlq, second half: XACK.                                         *)
DlqAck(a, id, reply) ==
    /\ apc[a] = "dlq_ack"
    /\ IsFirst(id, bad[a])
    /\ rawGroup' = IF Applied(reply) THEN XAck(rawGroup, id) ELSE rawGroup
    /\ IF Raised(reply)
       THEN DlqFailed(a, id)
       ELSE Disposed(a, id) /\ UNCHANGED dlqRaised
    /\ UNCHANGED <<raw, rawDlq, analyzed>>

(* "Last resort: ack to avoid infinite stuck messages".                    *)
LastResortAck(a, id, reply) ==
    /\ apc[a] = "last_resort"
    /\ IsFirst(id, bad[a])
    /\ rawGroup' = IF Applied(reply) THEN XAck(rawGroup, id) ELSE rawGroup
    /\ IF Raised(reply) THEN Abandon(a) ELSE Disposed(a, id)
    /\ UNCHANGED <<raw, rawDlq, analyzed, dlqRaised>>

Crash(a) ==
    /\ MayCrash
    /\ apc[a] # "idle"
    /\ Abandon(a)
    /\ UNCHANGED <<raw, rawGroup, rawDlq, analyzed, dlqRaised>>

(* One step of replica a.                                                  *)
AnalyzerStep(a) ==
    \/ \E reply \in Replies : Consume(a, reply) \/ PublishBatch(a, reply)
    \/ \E id \in todo[a], fails \in BOOLEAN : Analyze(a, id, fails)
    \/ \E id \in good[a], reply \in Replies : Ack(a, id, reply)
    \/ \E id \in bad[a], reply \in Replies :
          DlqPublish(a, id, reply) \/ DlqAck(a, id, reply) \/ LastResortAck(a, id, reply)

(* The collectors, seen from here: any mention may be published at any     *)
(* time.  Composed with a collector, its publish takes this action's place.*)
Arrive(m) ==
    /\ Len(raw.log) < MaxRaw
    /\ raw' \in XAdd(raw, <<m>>)
    /\ UNCHANGED <<rawGroup, rawDlq, analyzed, apc, todo, good, bad, dlqRaised>>

AnalyzerNext ==
    \/ \E m \in Mentions : Arrive(m)
    \/ \E a \in Analyzers : AnalyzerStep(a) \/ Crash(a)

AnalyzerSpec == AnalyzerInit /\ [][AnalyzerNext]_analyzerVars

(* Every replica keeps running: process_loop never returns before shutdown *)
(* and a crashed container is restarted.                                   *)
AnalyzerFairness == \A a \in Analyzers : WF_analyzerVars(AnalyzerStep(a))

FairAnalyzerSpec == AnalyzerSpec /\ AnalyzerFairness

-----------------------------------------------------------------------------
(* Properties.                                                             *)

Origins == {analyzed.log[i].origin : i \in Ids(analyzed)}

DeadLetters == {rawDlq[i] : i \in DOMAIN rawDlq}

Held(a) == todo[a] \cup good[a] \cup bad[a]

TypeOK ==
    /\ raw \in StreamOf(Mentions)
    /\ rawGroup \in Group
    /\ rawGroup.last <= Len(raw.log)
    /\ rawGroup.pending \cup rawGroup.acked \subseteq 1 .. rawGroup.last
    /\ rawDlq \in Seq(Nat)
    /\ analyzed \in StreamOf(AnalyzedEvent)
    /\ apc \in [Analyzers -> AnalyzerPc]
    /\ todo \in [Analyzers -> SUBSET Nat]
    /\ good \in [Analyzers -> SUBSET Nat]
    /\ bad \in [Analyzers -> SUBSET Nat]
    /\ dlqRaised \in SUBSET Nat

(* No raw entry is analysed into more than one event of mentions:analyzed, *)
(* whatever replicas crash and whatever replies are lost.                  *)
ForwardedAtMostOnce ==
    \A i, j \in Ids(analyzed) :
        analyzed.log[i].origin = analyzed.log[j].origin => i = j

(* No raw entry is both forwarded and dead-lettered: reprocessing the DLQ  *)
(* never duplicates a mention that went through.                           *)
NeverForwardedAndDead == Origins \cap DeadLetters = {}

(* An entry leaves the pending list only once its analysed event is in     *)
(* mentions:analyzed or its copy in the DLQ, unless move_to_dlq raised.    *)
AckedIsAccountedFor ==
    rawGroup.acked \subseteq Origins \cup DeadLetters \cup dlqRaised

(* "Publish analyzed mentions, then ack (at-least-once delivery)"          *)
(* (analyzer_service/app/main.py:164): every raw entry is in the end       *)
(* forwarded or dead-lettered.                                             *)
EveryMentionSettles ==
    \A id \in 1 .. MaxRaw :
        id <= Len(raw.log) ~> id \in Origins \cup DeadLetters
=============================================================================
