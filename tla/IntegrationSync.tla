-------------------------- MODULE IntegrationSync ---------------------------
(***************************************************************************)
(* Integrations of the export service (services/export_service/app/        *)
(* main.py, sync_integration and its handlers): the mentions collected     *)
(* since last_sync_at are pushed to an external platform by a request, and *)
(* last_sync_at then moves to the time of the end of the sync.             *)
(***************************************************************************)
EXTENDS Handlers

CONSTANTS
    IntegrationTypes,   \* the types of the integrations there may be
    SyncProjects,       \* projects a sync may be asked for
    SyncLimit,          \* 1000: mentions that one sync takes
    SyncBatch,          \* 100: mentions in one request to a webhook
    DayTicks,           \* the 24 hours a first sync looks back
    MaxSyncTick,        \* bound: time
    MaxCollected        \* bound: mentions collected

ASSUME SyncAssumption ==
    /\ {SyncLimit, SyncBatch, MaxSyncTick} \subseteq Nat \ {0}
    /\ {DayTicks, MaxCollected} \subseteq Nat

VARIABLES
    syncClock,      \* time
    integration,    \* the row, in a set: [type, last, deleted], last = 0 at first
    collected,      \* mentions: [id, project, at]
    pushed,         \* history: ids the platform has taken
    excused         \* history: ids that a sync may leave behind for ever

syncVars == <<syncClock, integration, collected, pushed, excused, request>>

SyncInit ==
    /\ syncClock = 1
    /\ integration = {}
    /\ collected = {}
    /\ pushed = {}
    /\ excused = {}
    /\ NoRequests

SyncWorld == <<syncClock, collected>>

Identifiers(mentions) == {m.id : m \in mentions}

-----------------------------------------------------------------------------
(* Around the service.                                                     *)

SyncTick ==
    /\ syncClock < MaxSyncTick
    /\ syncClock' = syncClock + 1
    /\ UNCHANGED <<integration, collected, pushed, excused, request>>

(* The query service stores a mention.                                     *)
CollectMention(project) ==
    LET id == Cardinality(collected) + 1
    IN  /\ id <= MaxCollected
        /\ collected' = collected \cup {[id |-> id, project |-> project, at |-> syncClock]}
        /\ UNCHANGED <<syncClock, integration, pushed, excused, request>>

-----------------------------------------------------------------------------
(* The endpoints of one integration.                                       *)

Installed == {row \in integration : ~row.deleted}

CreateIntegration(type, reply) ==
    /\ integration = {}
    /\ integration' = IF Applied(reply) THEN {[type |-> type, last |-> 0, deleted |-> FALSE]} ELSE {}
    /\ UNCHANGED <<SyncWorld, pushed, excused, request>>

DeleteIntegration(reply) ==
    /\ Installed # {}
    /\ integration' = IF Applied(reply) THEN {[row EXCEPT !.deleted = TRUE] : row \in integration}
                      ELSE integration
    /\ UNCHANGED <<SyncWorld, pushed, excused, request>>

-----------------------------------------------------------------------------
(* sync_integration.                                                       *)

(* The query: since the last sync, or for 24 hours.                        *)
Since(row) ==
    IF row.last # 0 THEN row.last
    ELSE IF syncClock > DayTicks THEN syncClock - DayTicks ELSE 0

Unsynced(row, project) == {m \in collected : m.project = project /\ m.at >= Since(row)}

(* ORDER BY collected_at DESC LIMIT: the newest ones.                      *)
NewestOf(mentions) ==
    IF Cardinality(mentions) <= SyncLimit THEN {mentions}
    ELSE {some \in SUBSET mentions :
             /\ Cardinality(some) = SyncLimit
             /\ \A m \in some, other \in mentions \ some : m.at >= other.at}

Complete(row) == integration' = {[row EXCEPT !.last = syncClock]}

(* What the query leaves behind: mentions of other projects, those over    *)
(* the limit, and before the first sync those older than a day.            *)
LeftOut(row, project, taken) ==
    {m \in collected \ taken :
        \/ m.project # project
        \/ m \in Unsynced(row, project)
        \/ row.last = 0}

(* With nothing to push only the commit of last_sync_at is left.           *)
QueryUnsynced(p, project, reply) ==
    /\ ~Raised(reply)
    /\ \E row \in Installed : \E taken \in NewestOf(Unsynced(row, project)) :
          Begin(p, [at |-> IF taken = {} THEN "done" ELSE "push", type |-> row.type, left |-> taken,
                    out |-> Identifiers(LeftOut(row, project, taken)),
                    seen |-> Cardinality(collected)])
    /\ UNCHANGED <<SyncWorld, integration, pushed, excused>>

Take(ids) == pushed' = pushed \cup ids

Refuse(ids) == excused' = excused \cup ids

Pushed(p, left, next) ==
    request' = [request EXCEPT ![p].left = left, ![p].at = IF left = {} THEN next ELSE @]

\* Mutant of SyncWebhook: a batch that fails is passed over.
SyncWebhookOnwards(p, reply) ==
    LET r == request[p]
    IN  /\ Reached(p, "push")
        /\ r.type = "webhook"
        /\ \E m \in r.left :
              /\ Take(IF Applied(reply) THEN {m.id} ELSE {})
              /\ Pushed(p, r.left \ {m}, "done")
        /\ UNCHANGED <<SyncWorld, integration, excused>>

(* _sync_webhook: batch by batch, and an error ends the sync.              *)
SyncWebhook(p, reply) ==
    LET r == request[p]
    IN  /\ Reached(p, "push")
        /\ r.type = "webhook"
        /\ \E batch \in SUBSET r.left :
              /\ batch # {}
              /\ Cardinality(batch) = SyncBatch \/ (batch = r.left /\ Cardinality(batch) < SyncBatch)
              /\ Take(IF Applied(reply) THEN Identifiers(batch) ELSE {})
              /\ IF Raised(reply) THEN Answered(p) ELSE Pushed(p, r.left \ batch, "done")
        /\ UNCHANGED <<SyncWorld, integration, excused>>

(* _sync_slack: one summary of them all.                                   *)
SyncSlack(p, reply) ==
    LET r == request[p]
    IN  /\ Reached(p, "push")
        /\ r.type = "slack"
        /\ Take(IF Applied(reply) THEN Identifiers(r.left) ELSE {})
        /\ IF Raised(reply) THEN Answered(p) ELSE Pushed(p, {}, "done")
        /\ UNCHANGED <<SyncWorld, integration, excused>>

(* _sync_salesforce and _sync_hubspot: one by one; one that fails is       *)
(* logged and left behind.                                                 *)
SyncRecord(p, reply) ==
    LET r == request[p]
    IN  /\ Reached(p, "push")
        /\ r.type \in {"salesforce", "hubspot"}
        /\ \E m \in r.left :
              /\ Take(IF Applied(reply) THEN {m.id} ELSE {})
              /\ Refuse(IF Applied(reply) THEN {} ELSE {m.id})
              /\ Pushed(p, r.left \ {m}, "done")
        /\ UNCHANGED <<SyncWorld, integration>>

(* _sync_tableau: sign in, then one file; a file that the server refuses   *)
(* is logged, and the sync succeeds with 0 records.                        *)
SignInTableau(p, reply) ==
    /\ Reached(p, "push")
    /\ request[p].type = "tableau"
    /\ IF Raised(reply) THEN Answered(p)
       ELSE request' = [request EXCEPT ![p].at = "publish"]
    /\ UNCHANGED <<SyncWorld, integration, pushed, excused>>

PublishTableau(p, reply, accepted) ==
    LET ids == Identifiers(request[p].left)
    IN  /\ Reached(p, "publish")
        /\ Take(IF Applied(reply) /\ accepted THEN ids ELSE {})
        /\ Refuse(IF accepted THEN {} ELSE ids)
        /\ IF Raised(reply) THEN Answered(p) ELSE Pushed(p, {}, "done")
        /\ UNCHANGED <<SyncWorld, integration>>

(* The end: last_sync_at moves past what was collected since the query.    *)
(* A row that was deleted meanwhile is an error.                           *)
CompleteSync(p, reply) ==
    /\ Reached(p, "done")
    /\ IF Applied(reply) /\ Installed # {}
       THEN /\ \E row \in Installed : Complete(row)
            /\ Refuse(request[p].out \cup {m.id : m \in {c \in collected : c.id > request[p].seen}})
       ELSE UNCHANGED <<integration, excused>>
    /\ Answered(p)
    /\ UNCHANGED <<SyncWorld, pushed>>

-----------------------------------------------------------------------------
Sync(p, reply) ==
    \/ \E project \in SyncProjects : QueryUnsynced(p, project, reply)
    \/ SyncWebhook(p, reply)
    \/ SyncSlack(p, reply)
    \/ SyncRecord(p, reply)
    \/ SignInTableau(p, reply)
    \/ \E accepted \in BOOLEAN : PublishTableau(p, reply, accepted)
    \/ CompleteSync(p, reply)

SyncNext ==
    \/ SyncTick
    \/ \E project \in SyncProjects : CollectMention(project)
    \/ \E reply \in Outcomes :
          \/ \E type \in IntegrationTypes : CreateIntegration(type, reply)
          \/ DeleteIntegration(reply)
          \/ \E p \in Requests : Sync(p, reply)

SyncSpec == SyncInit /\ [][SyncNext]_syncVars

-----------------------------------------------------------------------------
SyncTypeOK ==
    /\ syncClock \in 1 .. MaxSyncTick
    /\ \A row \in integration : row.type \in IntegrationTypes /\ row.last \in 0 .. syncClock
    /\ pushed \cup excused \subseteq Identifiers(collected)

(* What a sync may lose: a mention collected before last_sync_at has been  *)
(* pushed, unless it was over the limit of a sync, of a project the sync   *)
(* was not asked for, collected while the sync was under way, refused by   *)
(* the platform in a way the handler swallows, or a day old at the first.  *)
MissedIsExplained ==
    \A row \in integration, m \in collected : m.at < row.last => m.id \in pushed \cup excused
=============================================================================
