--------------------------- MODULE TaskCollection ---------------------------
(***************************************************************************)
(* The collection of the single-process application: the Celery tasks      *)
(* collect_all_projects and collect_project (src/services/worker.py) and   *)
(* collect_for_project with _store_mentions (src/services/                 *)
(* collection_service.py).  Tasks run at the same time in the processes of *)
(* the worker; the beat starts one that takes every project each hour.     *)
(*                                                                         *)
(* A task has one session for all its projects and platforms, and nothing  *)
(* ever rolls it back: after a statement or a commit that raised, every    *)
(* later use of the session raises too, and the task stores nothing more.  *)
(* An exception of another kind leaves what was added to the session, for  *)
(* the commit of the next platform.                                        *)
(*                                                                         *)
(* This application's table of mentions has no unique constraint.  A post  *)
(* is its source_id and platform; those of UnfitPosts have a value the     *)
(* table refuses, as an aware date in a column without a time zone.        *)
(***************************************************************************)
EXTENDS Handlers, SequencesExt

CONSTANTS
    TaskPlatforms,      \* project -> sequence of its platforms with a collector
    TaskAnswers,        \* platform -> sequences of posts its collector may return
    UnfitPosts,
    MaxTasks            \* bound: tasks

TaskPosts == UNION {UNION {ToSet(posts) : posts \in TaskAnswers[f]} : f \in DOMAIN TaskAnswers}

ASSUME TaskAssumption ==
    /\ MaxTasks \in Nat
    /\ IsFiniteSet(DOMAIN TaskPlatforms)
    /\ \A project \in DOMAIN TaskPlatforms : TaskPlatforms[project] \in Seq(DOMAIN TaskAnswers)
    /\ \A f \in DOMAIN TaskAnswers : TaskAnswers[f] \subseteq Seq(TaskPosts)

VARIABLES
    taskRows,       \* the table: <<project, post>> -> number of rows
    tasksBegun,     \* bounds the tasks
    taskEnded       \* history: [found, excused] of the tasks that ended

taskVars == <<taskRows, tasksBegun, taskEnded>>

TaskKeys == (DOMAIN TaskPlatforms) \times TaskPosts

TaskInit ==
    /\ taskRows = [key \in TaskKeys |-> 0]
    /\ tasksBegun = 0
    /\ taskEnded = {}
    /\ NoRequests

-----------------------------------------------------------------------------
(* The session at work: what it is at, and what it has not committed.      *)
StartTask(p, projects) ==
    /\ tasksBegun < MaxTasks
    /\ tasksBegun' = tasksBegun + 1
    /\ Begin(p, [at |-> "load", projects |-> projects, platforms |-> << >>, batch |-> << >>,
                 pending |-> {}, found |-> {}, excused |-> {}])
    /\ UNCHANGED <<taskRows, taskEnded>>

CollectAllProjects(p) ==
    StartTask(p, SetToSeq(DOMAIN TaskPlatforms))

CollectProject(p, project) == StartTask(p, <<project>>)

(* The session is closed; what it had not committed is gone.               *)
EndTask(p, excused) ==
    /\ taskEnded' = taskEnded \cup {[found |-> request[p].found, excused |-> excused]}
    /\ Answered(p)

BatchKeys(r) == {<<Head(r.projects), post>> : post \in ToSet(r.batch)}

(* The session is broken: what it has pending and the rest are lost.       *)
BreakSession(p) ==
    LET r == request[p]
    IN  EndTask(p, r.excused \cup r.pending \cup BatchKeys(r))

TaskProceeds(p, next) == request' = [request EXCEPT ![p] = next]

-----------------------------------------------------------------------------
(* collect_for_project.                                                    *)

(* The project and its keywords; one that is not active or has no keywords *)
(* is passed over.                                                         *)
LoadTaskProject(p, reply, usable) ==
    LET r == request[p]
    IN  /\ Reached(p, "load")
        /\ r.projects # << >>
        /\ IF Raised(reply) THEN BreakSession(p)
           ELSE /\ TaskProceeds(p, IF usable
                                   THEN [r EXCEPT !.at = "collect",
                                                  !.platforms = TaskPlatforms[Head(r.projects)]]
                                   ELSE [r EXCEPT !.projects = Tail(@)])
                /\ UNCHANGED taskEnded
        /\ UNCHANGED <<taskRows, tasksBegun>>

FinishTask(p) ==
    /\ Reached(p, "load")
    /\ request[p].projects = << >>
    /\ EndTask(p, request[p].excused)
    /\ UNCHANGED <<taskRows, tasksBegun>>

(* The collector of the next platform returns its posts.                   *)
CollectTaskPlatform(p) ==
    LET r == request[p]
    IN  /\ Reached(p, "collect")
        /\ r.platforms # << >>
        /\ \E posts \in TaskAnswers[Head(r.platforms)] :
              TaskProceeds(p, [r EXCEPT !.at = "store", !.batch = posts,
                                        !.found = @ \cup {<<Head(r.projects), post>> :
                                                             post \in ToSet(posts)}])
        /\ UNCHANGED taskVars

(* It raises, or there is no platform left.                                *)
NextTaskPlatform(p) ==
    LET r == request[p]
    IN  /\ Reached(p, "collect")
        /\ TaskProceeds(p, IF r.platforms = << >>
                           THEN [r EXCEPT !.at = "load", !.projects = Tail(@)]
                           ELSE [r EXCEPT !.platforms = Tail(@)])
        /\ UNCHANGED taskVars

-----------------------------------------------------------------------------
(* _store_mentions.                                                        *)

(* What the session would write cannot be written.                         *)
Unwritable(r) == \E key \in r.pending : key[2] \in UnfitPosts

(* Whether the session sees the post: its rows and, flushed before the     *)
(* SELECT, the session's own.                                              *)
RowsSeen(r, key) == taskRows[key] + IF key \in r.pending THEN 1 ELSE 0

(* scalar_one_or_none: it raises on two rows, which ends this platform;    *)
(* what was added before stays in the session.                             *)
StoreTaskPost(p, reply) ==
    LET r == request[p]
        key == <<Head(r.projects), Head(r.batch)>>
    IN  /\ Reached(p, "store")
        /\ r.batch # << >>
        /\ IF Raised(reply) \/ Unwritable(r) THEN BreakSession(p)
           ELSE /\ TaskProceeds(p,
                      IF RowsSeen(r, key) > 1
                      THEN [r EXCEPT !.at = "collect", !.platforms = Tail(@), !.batch = << >>,
                                     !.excused = @ \cup BatchKeys(r) \cup r.pending]
                      ELSE IF RowsSeen(r, key) = 1
                      THEN [r EXCEPT !.batch = Tail(@)]
                      ELSE [r EXCEPT !.batch = Tail(@), !.pending = @ \cup {key}])
                /\ UNCHANGED taskEnded
        /\ UNCHANGED <<taskRows, tasksBegun>>

\* Mutant of WriteTaskRows: what the session holds after its last platform is dropped.
WriteTaskRowsLate(r) ==
    taskRows' = [key \in TaskKeys |-> taskRows[key] + IF Len(r.platforms) > 1 /\ key \in r.pending
                                                      THEN 1 ELSE 0]

WriteTaskRows(r) ==
    taskRows' = [key \in TaskKeys |-> taskRows[key] + IF key \in r.pending THEN 1 ELSE 0]

CommitTaskPosts(p, reply) ==
    LET r == request[p]
    IN  /\ Reached(p, "store")
        /\ r.batch = << >>
        /\ IF Applied(reply) /\ ~Unwritable(r) THEN WriteTaskRows(r) ELSE UNCHANGED taskRows
        /\ IF Raised(reply) \/ Unwritable(r) THEN BreakSession(p)
           ELSE /\ TaskProceeds(p, [r EXCEPT !.at = "collect", !.platforms = Tail(@),
                                             !.pending = {}])
                /\ UNCHANGED taskEnded
        /\ UNCHANGED tasksBegun

(* The worker process dies; the task had been acknowledged.                *)
TaskDies(p) ==
    /\ ~Reached(p, "free")
    /\ Answered(p)
    /\ UNCHANGED taskVars

CollectionTask(p) ==
    \/ CollectAllProjects(p)
    \/ \E project \in DOMAIN TaskPlatforms : CollectProject(p, project)
    \/ \E reply \in Outcomes :
          \/ \E usable \in BOOLEAN : LoadTaskProject(p, reply, usable)
          \/ StoreTaskPost(p, reply)
          \/ CommitTaskPosts(p, reply)
    \/ FinishTask(p)
    \/ CollectTaskPlatform(p)
    \/ NextTaskPlatform(p)
    \/ TaskDies(p)

TaskNext == \E p \in Requests : CollectionTask(p)

TaskSpec == TaskInit /\ [][TaskNext]_<<taskVars, request>>

-----------------------------------------------------------------------------
TaskTypeOK ==
    /\ taskRows \in [TaskKeys -> Nat]
    /\ tasksBegun \in 0 .. MaxTasks
    /\ \A task \in taskEnded : task.found \subseteq TaskKeys

(* What a task loses: a post that it found is stored when the task has     *)
(* ended, unless a statement of its session had raised before the post was *)
(* committed, or the post was of a platform that came upon two rows of one *)
(* post (as two tasks at a time leave behind).                             *)
TaskLossIsExplained ==
    \A task \in taskEnded : \A key \in task.found \ task.excused : taskRows[key] > 0
=============================================================================
