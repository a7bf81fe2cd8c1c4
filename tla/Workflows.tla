----------------------------- MODULE Workflows ------------------------------
(***************************************************************************)
(* The workflows of the scheduler service                                  *)
(* (services/scheduler_service/app/main.py): every analyzed mention is     *)
(* matched with the active workflows of its project, and the actions of    *)
(* those that trigger are executed, while requests create, change and      *)
(* delete workflows and the query service, which reads the same stream,    *)
(* stores the mention.                                                     *)
(*                                                                         *)
(* A failing action, a failing count and a failing event are each only     *)
(* logged, and whatever happens the mention is acknowledged in a finally.  *)
(***************************************************************************)
EXTENDS ConsumerLoop

CONSTANTS
    TriggerMentions,    \* [project, source, negative, followers, score, words, platform,
                        \*  engagement, malformed]
    Definitions,        \* [project, trigger, actions]: the workflows that may be created
    MaxWorkflows        \* bound: workflows ever created

ASSUME WorkflowAssumption == MaxWorkflows \in Nat

VARIABLES
    workflows,      \* the rows: [id, definition, status, executions]
    created,        \* the last id given out
    stored,         \* <<project, source>> of the mentions in the table
    flagged,        \* those of them that are flagged
    loaded,         \* per replica: workflows read and not evaluated yet
    running,        \* per replica: the workflow being executed, in a set
    actionsLeft,    \* per replica: its actions not executed yet
    triggerEvents,  \* <<workflow, entry>> on the stream workflow:trigger
    counted         \* history: <<workflow, entry>> whose UPDATE of executions was done

workflowVars == <<loopVars, workflows, created, stored, flagged, loaded, running, actionsLeft,
                  triggerEvents, counted>>

Database == <<workflows, created, stored, flagged>>
Engine == <<loaded, running, actionsLeft, triggerEvents, counted>>

WorkflowPlaces == {"evaluate", "execute", "count", "emit"}

WorkflowsInit ==
    /\ LoopInit
    /\ workflows = {}
    /\ created = 0
    /\ stored = {}
    /\ flagged = {}
    /\ loaded = [w \in Workers |-> {}]
    /\ running = [w \in Workers |-> {}]
    /\ actionsLeft = [w \in Workers |-> << >>]
    /\ triggerEvents = {}
    /\ counted = {}

-----------------------------------------------------------------------------
(* Triggers.                                                               *)

Evaluate(trigger, mention) ==
    CASE trigger.type = "negative_influencer" -> mention.negative /\ mention.followers >= trigger.at
      [] trigger.type = "keyword_match"       -> trigger.at \in mention.words
      [] trigger.type = "sentiment_below"     -> mention.score < trigger.at
      [] trigger.type = "sentiment_above"     -> mention.score > trigger.at
      [] trigger.type = "platform_match"      -> mention.platform = trigger.at
      [] trigger.type = "high_engagement"     -> mention.engagement >= trigger.at
      [] OTHER                                -> FALSE

(* int() or float() of a field of the mention raises.                      *)
Raises(trigger, mention) ==
    /\ mention.malformed
    /\ trigger.type \in {"negative_influencer", "sentiment_below", "sentiment_above",
                         "high_engagement"}

(* A list of triggers, all of which must match; one alone is a list of it. *)
(* What is no JSON triggers nothing, like the empty list.                  *)
Matches(triggers, mention) ==
    /\ triggers # << >>
    /\ \A i \in DOMAIN triggers : Evaluate(triggers[i], mention)

EvaluationRaises(triggers, mention) ==
    \E i \in DOMAIN triggers :
        /\ Raises(triggers[i], mention)
        /\ \A j \in 1 .. i - 1 : Evaluate(triggers[j], mention)

-----------------------------------------------------------------------------
(* The requests, and the query service.                                    *)

CreateWorkflow(definition) ==
    /\ created < MaxWorkflows
    /\ created' = created + 1
    /\ workflows' = workflows \cup {[id |-> created', definition |-> definition,
                                     status |-> "active", executions |-> 0]}
    /\ UNCHANGED <<loopVars, stored, flagged, Engine>>

(* Only the columns the request names are written.                         *)
UpdateWorkflow(workflow, definition, status) ==
    /\ workflow \in workflows
    /\ workflows' = (workflows \ {workflow})
                       \cup {[workflow EXCEPT !.definition = definition, !.status = status]}
    /\ UNCHANGED <<loopVars, created, stored, flagged, Engine>>

DeleteWorkflow(workflow) ==
    /\ workflow \in workflows
    /\ workflows' = workflows \ {workflow}
    /\ UNCHANGED <<loopVars, created, stored, flagged, Engine>>

StoreMention(mention) ==
    /\ stored' = stored \cup {<<mention.project, mention.source>>}
    /\ UNCHANGED <<loopVars, workflows, created, flagged, Engine>>

PublishMention(mention) == Add(mention) /\ UNCHANGED <<Database, Engine>>

-----------------------------------------------------------------------------
(* mention_consumer_loop.                                                  *)

(* int() of the project raises outside the handler: the batch is left.  A  *)
(* mention without a project is acknowledged.                              *)
PassMention(w, id) ==
    LET project == EntryAt(id).project
    IN  /\ At(w, "handle", id)
        /\ project \in {"malformed", "none"}
        /\ IF project = "malformed"
           THEN Abandon(w) /\ UNCHANGED <<stream, group>>
           ELSE Step(w, "finally")
        /\ UNCHANGED <<Database, Engine>>

LoadWorkflows(w, id, reply) ==
    /\ At(w, "handle", id)
    /\ EntryAt(id).project \notin {"malformed", "none"}
    /\ IF Raised(reply)
       THEN Step(w, "finally") /\ UNCHANGED loaded
       ELSE /\ loaded' = [loaded EXCEPT ![w] =
                  {row \in workflows : row.definition.project = EntryAt(id).project
                                          /\ row.status = "active"}]
            /\ Step(w, "evaluate")
    /\ UNCHANGED <<Database, running, actionsLeft, triggerEvents, counted>>

(* The next workflow: it raises, passes, or is executed.                   *)
EvaluateTriggers(w, id, row) ==
    LET triggers == row.definition.trigger
        mention == EntryAt(id)
    IN  /\ At(w, "evaluate", id)
        /\ row \in loaded[w]
        /\ IF EvaluationRaises(triggers, mention)
           THEN /\ loaded' = [loaded EXCEPT ![w] = {}]
                /\ Step(w, "finally")
                /\ UNCHANGED <<running, actionsLeft>>
           ELSE /\ loaded' = [loaded EXCEPT ![w] = @ \ {row}]
                /\ IF Matches(triggers, mention)
                   THEN /\ running' = [running EXCEPT ![w] = {row}]
                        /\ actionsLeft' = [actionsLeft EXCEPT ![w] = row.definition.actions]
                        /\ Step(w, "execute")
                   ELSE Step(w, "evaluate") /\ UNCHANGED <<running, actionsLeft>>
        /\ UNCHANGED <<Database, triggerEvents, counted>>

Evaluated(w, id) ==
    /\ At(w, "evaluate", id)
    /\ loaded[w] = {}
    /\ Step(w, "finally")
    /\ UNCHANGED <<Database, Engine>>

\* Mutant of ExecuteAction: a mention without a row is flagged too.
ExecuteActionOnNoRow(w, id, reply) ==
    /\ At(w, "execute", id)
    /\ actionsLeft[w] # << >>
    /\ flagged' = IF Head(actionsLeft[w]) = "flag_mention" /\ Applied(reply)
                  THEN flagged \cup {<<EntryAt(id).project, EntryAt(id).source>>}
                  ELSE flagged
    /\ actionsLeft' = [actionsLeft EXCEPT ![w] = Tail(@)]
    /\ Step(w, "execute")
    /\ UNCHANGED <<workflows, created, stored, loaded, running, triggerEvents, counted>>

(* _execute_action: an UPDATE of the mention's row, which may not be there *)
(* yet, or a message through the circuit breaker, or a line in the log.    *)
ExecuteAction(w, id, reply) ==
    LET row == <<EntryAt(id).project, EntryAt(id).source>>
    IN  /\ At(w, "execute", id)
        /\ actionsLeft[w] # << >>
        /\ flagged' = IF Head(actionsLeft[w]) = "flag_mention" /\ Applied(reply)
                      THEN flagged \cup (stored \cap {row})
                      ELSE flagged
        /\ actionsLeft' = [actionsLeft EXCEPT ![w] = Tail(@)]
        /\ Step(w, "execute")
        /\ UNCHANGED <<workflows, created, stored, loaded, running, triggerEvents, counted>>

\* Mutant of CountExecution: writes what the replica has read, plus one.
CountExecutionStale(w, id, row, reply) ==
    /\ At(w, "execute", id)
    /\ actionsLeft[w] = << >>
    /\ row \in running[w]
    /\ workflows' = {IF Applied(reply) /\ r.id = row.id
                     THEN [r EXCEPT !.executions = row.executions + 1] ELSE r : r \in workflows}
    /\ counted' = IF Applied(reply) THEN counted \cup {<<row.id, id>>} ELSE counted
    /\ Step(w, "emit")
    /\ UNCHANGED <<created, stored, flagged, loaded, running, actionsLeft, triggerEvents>>

(* UPDATE workflows SET executions = executions + 1, if the row is there.  *)
CountExecution(w, id, row, reply) ==
    /\ At(w, "execute", id)
    /\ actionsLeft[w] = << >>
    /\ row \in running[w]
    /\ workflows' = {IF Applied(reply) /\ r.id = row.id
                     THEN [r EXCEPT !.executions = @ + 1] ELSE r : r \in workflows}
    /\ counted' = IF Applied(reply) THEN counted \cup {<<row.id, id>>} ELSE counted
    /\ Step(w, "emit")
    /\ UNCHANGED <<created, stored, flagged, loaded, running, actionsLeft, triggerEvents>>

EmitTrigger(w, id, row, reply) ==
    /\ At(w, "emit", id)
    /\ row \in running[w]
    /\ triggerEvents' = IF Applied(reply) THEN triggerEvents \cup {<<row.id, id>>}
                        ELSE triggerEvents
    /\ running' = [running EXCEPT ![w] = {}]
    /\ Step(w, "evaluate")
    /\ UNCHANGED <<Database, loaded, actionsLeft, counted>>

(* The loaded workflows are local to the handling of one mention.          *)
CrashWorkflows(w) ==
    /\ CrashLoop(w)
    /\ loaded' = [loaded EXCEPT ![w] = {}]
    /\ running' = [running EXCEPT ![w] = {}]
    /\ actionsLeft' = [actionsLeft EXCEPT ![w] = << >>]
    /\ UNCHANGED <<Database, triggerEvents, counted>>

ConsumeMentions(w) ==
    \/ \E reply \in Replies : Consume(w, reply) /\ UNCHANGED <<Database, Engine>>
    \/ \E id \in todo[w] :
          \/ PassMention(w, id)
          \/ \E row \in loaded[w] : EvaluateTriggers(w, id, row)
          \/ Evaluated(w, id)
          \/ \E reply \in Replies :
                \/ LoadWorkflows(w, id, reply)
                \/ ExecuteAction(w, id, reply)
                \/ \E row \in running[w] :
                      CountExecution(w, id, row, reply) \/ EmitTrigger(w, id, row, reply)
                \/ AckFinally(w, id, reply) /\ UNCHANGED <<Database, Engine>>

WorkflowsNext ==
    \/ \E mention \in TriggerMentions : PublishMention(mention) \/ StoreMention(mention)
    \/ \E definition \in Definitions : CreateWorkflow(definition)
    \/ \E workflow \in workflows :
          \/ \E definition \in Definitions, status \in {"active", "paused"} :
                UpdateWorkflow(workflow, definition, status)
          \/ DeleteWorkflow(workflow)
    \/ \E w \in Workers : ConsumeMentions(w) \/ CrashWorkflows(w)

WorkflowsSpec == WorkflowsInit /\ [][WorkflowsNext]_workflowVars

-----------------------------------------------------------------------------
WorkflowsTypeOK ==
    /\ LoopTypeOK(TriggerMentions, WorkflowPlaces)
    /\ \A row \in workflows :
          /\ row.id \in 1 .. created /\ row.definition \in Definitions
          /\ row.status \in {"active", "paused"} /\ row.executions \in Nat
    /\ flagged \subseteq stored
    /\ \A w \in Workers : Cardinality(running[w]) <= 1

(* A workflow's number of executions is the number of runs whose UPDATE    *)
(* the database took, however replicas, PATCH requests and failures        *)
(* interleave between reading the workflow and counting.                   *)
ExecutionsAddUp ==
    \A row \in workflows : row.executions = Cardinality({run \in counted : run[1] = row.id})
=============================================================================
