----------------------------- MODULE QueryStore -----------------------------
(***************************************************************************)
(* The query service (services/query_service/app/main.py): replicas in one *)
(* consumer group take batches of mentions:analyzed and store each mention *)
(* in PostgreSQL and OpenSearch before acknowledging it.                   *)
(*                                                                         *)
(* store_mention is three awaits apart: SELECT for a duplicate, INSERT and *)
(* COMMIT, index.  The table has a unique constraint on (project, source,  *)
(* platform) (shared/models.py), which is what a member of MentionKeys     *)
(* stands for.  Any exception, transient or not and including one from the *)
(* acknowledgement itself, sends the entry to the dead-letter stream.      *)
(***************************************************************************)
EXTENDS Faults, FiniteSets

CONSTANTS
    Stores,         \* the replicas
    StoreBatch,     \* the count given to bus.consume
    MentionKeys,    \* (project, source_id, platform) of a mention
    Malformed,      \* mentions an enum or number conversion rejects
    MaxAnalyzed     \* bound: entries ever added to mentions:analyzed

ASSUME QueryStoreAssumption ==
    /\ StoreBatch \in Nat \ {0}
    /\ Malformed \subseteq MentionKeys
    /\ MaxAnalyzed \in Nat
    /\ "ok" \in Replies
    /\ Replies \subseteq BusReply
    /\ MayCrash \in BOOLEAN

VARIABLES
    analyzedIn,     \* the stream mentions:analyzed
    storeGroup,     \* its consumer group query-service
    analyzedDlq,    \* the stream mentions:analyzed:dlq
    rows,           \* the mentions table, in insertion order
    indexed,        \* mentions with a document in OpenSearch
    qpc,            \* where each replica is in process_loop
    batch,          \* ids of the batch not disposed of yet
    error,          \* str(e) of the exception being handled
    storeRaised     \* history: ids whose move_to_dlq raised

queryVars == <<analyzedIn, storeGroup, analyzedDlq, rows, indexed, qpc, batch,
               error, storeRaised>>

QueryPc == {"idle", "select", "insert", "index", "ack", "dlq", "dlq_ack", "last_resort"}

Errors == {"none", "transient", "permanent"}

DLQEntry == [id : Nat, error : Errors]

StoredEvent == [mention : MentionKeys, origin : Nat]

QueryInit ==
    /\ analyzedIn = EmptyStream
    /\ storeGroup = NewGroup
    /\ analyzedDlq = << >>
    /\ rows = << >>
    /\ indexed = {}
    /\ qpc = [q \in Stores |-> "idle"]
    /\ batch = [q \in Stores |-> {}]
    /\ error = [q \in Stores |-> "none"]
    /\ storeRaised = {}

Stored == {rows[i] : i \in DOMAIN rows}

IsNext(q, id) == id \in batch[q] /\ \A other \in batch[q] : id <= other

MentionOf(id) == analyzedIn.log[id].mention

-----------------------------------------------------------------------------
Goto(q, pc) == qpc' = [qpc EXCEPT ![q] = pc]

(* The handler's except clause: the entry goes to the dead-letter stream.  *)
Except(q, why) ==
    /\ Goto(q, "dlq")
    /\ error' = [error EXCEPT ![q] = why]

(* The entry is done with; the loop takes the next one of the batch.       *)
Done(q, id) ==
    /\ batch' = [batch EXCEPT ![q] = @ \ {id}]
    /\ Goto(q, IF batch'[q] = {} THEN "idle" ELSE "select")
    /\ error' = [error EXCEPT ![q] = "none"]

(* The outer handler, or a crash: the rest of the batch is forgotten.      *)
Drop(q) ==
    /\ batch' = [batch EXCEPT ![q] = {}]
    /\ Goto(q, "idle")
    /\ error' = [error EXCEPT ![q] = "none"]

ConsumeAnalyzed(q, reply) ==
    /\ qpc[q] = "idle"
    /\ Fresh(analyzedIn, storeGroup, StoreBatch) # {}
    /\ Applied(reply)
    /\ storeGroup' = XReadGroup(analyzedIn, storeGroup, StoreBatch)
    /\ IF Raised(reply)
       THEN UNCHANGED <<qpc, batch>>
       ELSE /\ batch' = [batch EXCEPT ![q] = Fresh(analyzedIn, storeGroup, StoreBatch)]
            /\ Goto(q, "select")
    /\ UNCHANGED <<analyzedIn, analyzedDlq, rows, indexed, error, storeRaised>>

(* SELECT ... WHERE project_id, source_id, platform.                       *)
Select(q, id, reply) ==
    /\ qpc[q] = "select"
    /\ IsNext(q, id)
    /\ IF Raised(reply) THEN Except(q, "transient")
       ELSE IF MentionOf(id) \in Stored
            THEN Goto(q, "ack") /\ UNCHANGED error
            ELSE Goto(q, "insert") /\ UNCHANGED error
    /\ UNCHANGED <<analyzedIn, storeGroup, analyzedDlq, rows, indexed, batch, storeRaised>>

\* Mutant of Insert: the table has no unique constraint.
InsertUnconstrained(q, id, reply) ==
    /\ qpc[q] = "insert"
    /\ IsNext(q, id)
    /\ IF MentionOf(id) \in Malformed
       THEN Except(q, "permanent") /\ UNCHANGED rows
       ELSE /\ rows' = IF Applied(reply) THEN Append(rows, MentionOf(id)) ELSE rows
            /\ IF Raised(reply)
               THEN Except(q, "transient")
               ELSE Goto(q, "index") /\ UNCHANGED error
    /\ UNCHANGED <<analyzedIn, storeGroup, analyzedDlq, indexed, batch, storeRaised>>

\* Mutant of Insert: indexes although the commit failed.
InsertSwallowing(q, id, reply) ==
    /\ qpc[q] = "insert"
    /\ IsNext(q, id)
    /\ IF Applied(reply) /\ MentionOf(id) \notin Malformed \cup Stored
       THEN rows' = Append(rows, MentionOf(id))
       ELSE UNCHANGED rows
    /\ Goto(q, "index")
    /\ UNCHANGED <<analyzedIn, storeGroup, analyzedDlq, indexed, batch, error, storeRaised>>

(* Build the row, INSERT, COMMIT and refresh.  A replica that stored the   *)
(* mention since the SELECT makes the commit break the unique constraint,  *)
(* an error that is_transient_error takes for a transient one.             *)
Insert(q, id, reply) ==
    /\ qpc[q] = "insert"
    /\ IsNext(q, id)
    /\ IF MentionOf(id) \in Malformed
       THEN Except(q, "permanent") /\ UNCHANGED rows
       ELSE IF MentionOf(id) \in Stored
       THEN Except(q, "transient") /\ UNCHANGED rows
       ELSE /\ rows' = IF Applied(reply) THEN Append(rows, MentionOf(id)) ELSE rows
            /\ IF Raised(reply)
               THEN Except(q, "transient")
               ELSE Goto(q, "index") /\ UNCHANGED error
    /\ UNCHANGED <<analyzedIn, storeGroup, analyzedDlq, indexed, batch, storeRaised>>

\* Mutant of Index: the document is built but never sent.
IndexSkipped(q, id, reply) ==
    /\ qpc[q] = "index"
    /\ IsNext(q, id)
    /\ Goto(q, "ack")
    /\ UNCHANGED <<analyzedIn, storeGroup, analyzedDlq, rows, indexed, batch, error, storeRaised>>

(* es.index: a failure is logged and swallowed.                            *)
Index(q, id, reply) ==
    /\ qpc[q] = "index"
    /\ IsNext(q, id)
    /\ indexed' = IF Applied(reply) THEN indexed \cup {MentionOf(id)} ELSE indexed
    /\ Goto(q, "ack")
    /\ UNCHANGED <<analyzedIn, storeGroup, analyzedDlq, rows, batch, error, storeRaised>>

(* bus.ack, inside the same try as store_mention.                          *)
AckStored(q, id, reply) ==
    /\ qpc[q] = "ack"
    /\ IsNext(q, id)
    /\ storeGroup' = IF Applied(reply) THEN XAck(storeGroup, id) ELSE storeGroup
    /\ IF Raised(reply)
       THEN Except(q, "transient") /\ UNCHANGED batch
       ELSE Done(q, id)
    /\ UNCHANGED <<analyzedIn, analyzedDlq, rows, indexed, storeRaised>>

MoveRaised(q, id) ==
    /\ Goto(q, "last_resort")
    /\ storeRaised' = storeRaised \cup {id}
    /\ UNCHANGED <<batch, error>>

(* move_to_dlq up to its publish.  An entry trimmed meanwhile is left      *)
(* pending.                                                                *)
DeadLetter(q, id, reply) ==
    /\ qpc[q] = "dlq"
    /\ IsNext(q, id)
    /\ analyzedDlq' = IF Exists(analyzedIn, id) /\ Applied(reply)
                      THEN Append(analyzedDlq, [id |-> id, error |-> error[q]])
                      ELSE analyzedDlq
    /\ IF Raised(reply) THEN MoveRaised(q, id)
       ELSE /\ UNCHANGED storeRaised
            /\ IF Exists(analyzedIn, id)
               THEN Goto(q, "dlq_ack") /\ UNCHANGED <<batch, error>>
               ELSE Done(q, id)
    /\ UNCHANGED <<analyzedIn, storeGroup, rows, indexed>>

DeadLetterAck(q, id, reply) ==
    /\ qpc[q] = "dlq_ack"
    /\ IsNext(q, id)
    /\ storeGroup' = IF Applied(reply) THEN XAck(storeGroup, id) ELSE storeGroup
    /\ IF Raised(reply) THEN MoveRaised(q, id)
       ELSE Done(q, id) /\ UNCHANGED storeRaised
    /\ UNCHANGED <<analyzedIn, analyzedDlq, rows, indexed>>

AckUnstored(q, id, reply) ==
    /\ qpc[q] = "last_resort"
    /\ IsNext(q, id)
    /\ storeGroup' = IF Applied(reply) THEN XAck(storeGroup, id) ELSE storeGroup
    /\ IF Raised(reply) THEN Drop(q) ELSE Done(q, id)
    /\ UNCHANGED <<analyzedIn, analyzedDlq, rows, indexed, storeRaised>>

CrashStore(q) ==
    /\ MayCrash
    /\ qpc[q] # "idle"
    /\ Drop(q)
    /\ UNCHANGED <<analyzedIn, storeGroup, analyzedDlq, rows, indexed, storeRaised>>

StoreStep(q) ==
    \E reply \in Replies :
        \/ ConsumeAnalyzed(q, reply)
        \/ \E id \in batch[q] :
              \/ Select(q, id, reply)
              \/ Insert(q, id, reply)
              \/ Index(q, id, reply)
              \/ AckStored(q, id, reply)
              \/ DeadLetter(q, id, reply)
              \/ DeadLetterAck(q, id, reply)
              \/ AckUnstored(q, id, reply)

(* The analyzers, seen from here: the same mention may come more than once.*)
Publish(m) ==
    /\ Len(analyzedIn.log) < MaxAnalyzed
    /\ analyzedIn' \in XAdd(analyzedIn, <<[mention |-> m, origin |-> 0]>>)
    /\ UNCHANGED <<storeGroup, analyzedDlq, rows, indexed, qpc, batch, error, storeRaised>>

QueryNext ==
    \/ \E m \in MentionKeys : Publish(m)
    \/ \E q \in Stores : StoreStep(q) \/ CrashStore(q)

QuerySpec == QueryInit /\ [][QueryNext]_queryVars

-----------------------------------------------------------------------------
(* Properties.                                                             *)

DeadIds == {analyzedDlq[i].id : i \in DOMAIN analyzedDlq}

QueryTypeOK ==
    /\ analyzedIn \in StreamOf(StoredEvent)
    /\ storeGroup \in Group
    /\ storeGroup.last <= Len(analyzedIn.log)
    /\ storeGroup.pending \cup storeGroup.acked \subseteq 1 .. storeGroup.last
    /\ analyzedDlq \in Seq(DLQEntry)
    /\ rows \in Seq(MentionKeys)
    /\ indexed \in SUBSET MentionKeys
    /\ qpc \in [Stores -> QueryPc]
    /\ batch \in [Stores -> SUBSET Nat]
    /\ error \in [Stores -> Errors]
    /\ storeRaised \in SUBSET Nat

(* "Deduplicates by (source_id, platform, project_id)": however often a    *)
(* mention is published and however the replicas interleave, the table     *)
(* holds it once; and search never returns one the table does not hold.    *)
StoredOnce ==
    /\ \A i, j \in DOMAIN rows : rows[i] = rows[j] => i = j
    /\ indexed \subseteq Stored

(* An acknowledged entry has its mention in the table or its copy in the   *)
(* DLQ, unless move_to_dlq raised.                                         *)
AckedIsStoredOrDead ==
    \A id \in storeGroup.acked :
        MentionOf(id) \in Stored \/ id \in DeadIds \cup storeRaised
=============================================================================
