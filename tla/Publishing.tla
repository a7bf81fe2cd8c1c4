----------------------------- MODULE Publishing ------------------------------
(***************************************************************************)
(* The publishing service (services/publishing_service/app/main.py): the   *)
(* life of a scheduled post.  Three kinds of tasks work on the table of    *)
(* posts: each replica's scheduler publishes the approved posts that are   *)
(* due, each replica's consumer those asked for on publish:request, and    *)
(* HTTP requests create, approve, delete or publish one post.              *)
(*                                                                         *)
(* No task locks a row.  Each reads the status in one transaction, and     *)
(* publish_post calls the platform before it reads the row again in        *)
(* another and writes the outcome, so every task works on a status that    *)
(* may be stale; a database read, a commit and a platform call are steps   *)
(* of their own.  Rate limiter and circuit breaker only add ways for the   *)
(* platform call to fail.                                                  *)
(*                                                                         *)
(* scheduled_at and published_at are columns without a time zone, and the  *)
(* scheduler's SELECT and the UPDATE of a success bind datetimes that have *)
(* one.  asyncpg, the driver of the default DATABASE_URL, refuses them:    *)
(* both calls raise, always.  aiosqlite, the driver of local development,  *)
(* takes them.  AwareReplies are the outcomes of these two calls.          *)
(***************************************************************************)
EXTENDS StreamGroup, FiniteSets

CONSTANTS
    Schedulers,     \* scheduler_loop tasks, one per replica (1 to 5)
    Consumers,      \* consume_publish_requests tasks, one per replica
    Requests,       \* HTTP requests in progress at a time
    Posts,
    Unsupported,    \* posts for a platform that has no publisher
    TweetReplies,   \* posts that reply to a mention on Twitter
    Operations,     \* which of "approve", "delete", "publish_now" are used
    RequestBatch,   \* the count given to bus.consume
    MaxEvents,      \* bound: entries ever added to publish:request
    MaxSent,        \* bound: where counting a post's publications stops
    PlatformReplies, DatabaseReplies, Replies,  \* outcomes of a call to each
    AwareReplies,   \* and of a database call given a datetime with a zone
    MayCrash        \* whether replicas may crash

ASSUME PublishingAssumption ==
    /\ Schedulers \cap Consumers = {}
    /\ Requests \cap (Schedulers \cup Consumers) = {}
    /\ Posts # {}
    /\ Unsupported \subseteq Posts /\ TweetReplies \subseteq Posts \ Unsupported
    /\ RequestBatch \in Nat \ {0}
    /\ MaxEvents \in Nat
    /\ MaxSent \in Nat \ {0}
    /\ \A replies \in {PlatformReplies, DatabaseReplies, Replies} :
          "ok" \in replies /\ replies \subseteq BusReply
    /\ AwareReplies \subseteq BusReply /\ AwareReplies # {}
    /\ MayCrash \in BOOLEAN

Tasks == Schedulers \cup Consumers \cup Requests

VARIABLES
    status,         \* the status column of each post
    due,            \* posts whose scheduled_at is not in the future
    approved,       \* posts with an approved_by
    sent,           \* history: how often the platform accepted each post
    excused,        \* history: posts whose status may leave out that they were sent
    trail,          \* the stream of audit events, as a set
    asked,          \* the stream publish:request, of post ids
    askedGroup,     \* its consumer group publishing-service
    ppc,            \* where each task is
    work,           \* what it has left: due_posts, or messages
    job,            \* what it works on
    seen,           \* the status in the row object it holds
    outcome         \* what the platform call returned

postVars == <<status, due, approved>>
taskVars == <<ppc, work, job, seen, outcome>>
publishingVars == <<postVars, sent, excused, trail, asked, askedGroup, taskVars>>

PublishStatus == {"draft", "scheduled", "published", "failed"}

RowStatus == PublishStatus \cup {"none", "deleted"}

Outcome == {"none", "success", "failure"}

PublishingPc == {"idle", "fetch", "call", "load", "commit", "ack", "approve", "delete"}

Job == [id : Nat, post : Posts]     \* id 0: no message to acknowledge

AuditEvent ==
    [action : {"created", "approved", "deleted", "published", "publish_failed"},
     post : Posts]

NoJob == [id |-> 0, post |-> CHOOSE p \in Posts : TRUE]

PublishingInit ==
    /\ status = [p \in Posts |-> "none"]
    /\ due = {}
    /\ approved = {}
    /\ sent = [p \in Posts |-> 0]
    /\ excused = {}
    /\ trail = {}
    /\ asked = EmptyStream
    /\ askedGroup = NewGroup
    /\ ppc = [t \in Tasks |-> "idle"]
    /\ work = [t \in Tasks |-> {}]
    /\ job = [t \in Tasks |-> NoJob]
    /\ seen = [t \in Tasks |-> "none"]
    /\ outcome = [t \in Tasks |-> "none"]

Exist(p) == status[p] \in PublishStatus

PostOf(t) == job[t].post

-----------------------------------------------------------------------------
(* Emitting an audit event: a failure is logged and ignored.               *)
Emit(action, p) ==
    \E reply \in Replies :
        trail' = IF Applied(reply) THEN trail \cup {[action |-> action, post |-> p]}
                 ELSE trail

(* History: a success that the task will not write any more, and the       *)
(* published status that is about to be overwritten or deleted.            *)
Forgotten(t) == IF outcome[t] = "success" THEN {PostOf(t)} ELSE {}

TakenBack(p) == IF status[p] = "published" THEN {p} ELSE {}

(* The task moves to pc with the object and the outcome it holds.          *)
Proceed(t, pc, row, result) ==
    /\ ppc' = [ppc EXCEPT ![t] = pc]
    /\ seen' = [seen EXCEPT ![t] = row]
    /\ outcome' = [outcome EXCEPT ![t] = result]

Leave(t, pc) == Proceed(t, pc, "none", "none")

(* The task goes on to what it has left.                                   *)
NextJob(t, left) ==
    /\ work' = [work EXCEPT ![t] = left]
    /\ IF left = {}
       THEN Leave(t, "idle") /\ job' = [job EXCEPT ![t] = NoJob]
       ELSE \E next \in left :
               /\ \A other \in left : next.id <= other.id
               /\ job' = [job EXCEPT ![t] = next]
               /\ Leave(t, IF t \in Consumers THEN "fetch" ELSE "call")

\* Mutant of Returned: the acknowledgement is not in a finally clause.
ReturnedUnacked(t) == NextJob(t, work[t] \ {job[t]})

(* publish_post returned, successfully or not.                             *)
Returned(t) ==
    IF t \in Consumers
    THEN Leave(t, "ack") /\ UNCHANGED <<work, job>>
    ELSE NextJob(t, work[t] \ {job[t]})

(* publish_post raised: the scheduler's handler is around the whole round, *)
(* the consumer's around the message, which it acknowledges all the same.  *)
Raising(t) ==
    IF t \in Consumers
    THEN Leave(t, "ack") /\ UNCHANGED <<work, job>>
    ELSE NextJob(t, {})

-----------------------------------------------------------------------------
(* create_post; create_reply ends in it too.                               *)
CreatePost(r, p, isDue, reply) ==
    /\ ppc[r] = "idle"
    /\ status[p] = "none"
    /\ Applied(reply)
    /\ status' = [status EXCEPT ![p] = "draft"]
    /\ due' = IF isDue THEN due \cup {p} ELSE due
    /\ IF Raised(reply) THEN UNCHANGED trail ELSE Emit("created", p)
    /\ UNCHANGED <<approved, sent, excused, asked, askedGroup, taskVars>>

(* approve_post, delete_post and publish_now up to their checks.           *)
Begin(r, p, operation, pc, statuses) ==
    /\ operation \in Operations
    /\ ppc[r] = "idle"
    /\ status[p] \in statuses
    /\ job' = [job EXCEPT ![r] = [id |-> 0, post |-> p]]
    /\ work' = [work EXCEPT ![r] = {job'[r]}]
    /\ Proceed(r, pc, status[p], "none")
    /\ UNCHANGED <<postVars, sent, excused, trail, asked, askedGroup>>

BeginApprove(r, p) == Begin(r, p, "approve", "approve", {"draft"})

BeginDelete(r, p) == Begin(r, p, "delete", "delete", PublishStatus \ {"published"})

BeginPublishNow(r, p) ==
    Begin(r, p, "publish_now", "call", PublishStatus \ {"published"})

(* The UPDATE of approve_post.  It does not repeat the check; the ORM      *)
(* raises if the row is gone.                                              *)
Approve(r, reply) ==
    LET p == PostOf(r)
    IN  /\ ppc[r] = "approve"
        /\ IF Exist(p) /\ Applied(reply)
           THEN /\ status' = [status EXCEPT ![p] = "scheduled"]
                /\ approved' = approved \cup {p}
                /\ excused' = excused \cup TakenBack(p)
           ELSE UNCHANGED <<status, approved, excused>>
        /\ IF Exist(p) /\ ~Raised(reply)
           THEN Emit("approved", p)
           ELSE UNCHANGED trail
        /\ Returned(r)
        /\ UNCHANGED <<due, sent, asked, askedGroup>>

(* The DELETE of delete_post, which does not repeat the check either; a    *)
(* row that is gone already is no error.                                   *)
Delete(r, reply) ==
    LET p == PostOf(r)
    IN  /\ ppc[r] = "delete"
        /\ IF Applied(reply)
           THEN /\ status' = [status EXCEPT ![p] = "deleted"]
                /\ excused' = excused \cup TakenBack(p)
           ELSE UNCHANGED <<status, excused>>
        /\ IF Raised(reply) THEN UNCHANGED trail ELSE Emit("deleted", p)
        /\ Returned(r)
        /\ UNCHANGED <<due, approved, sent, asked, askedGroup>>

\* Mutant of SelectDue: drafts are selected as well.
SelectDueDrafts(s, reply) ==
    LET selected == {p \in due : status[p] \in {"draft", "scheduled"}}
    IN  /\ ppc[s] = "idle"
        /\ ~Raised(reply)
        /\ selected # {}
        /\ NextJob(s, {[id |-> 0, post |-> p] : p \in selected})
        /\ UNCHANGED <<postVars, sent, excused, trail, asked, askedGroup>>

(* scheduler_loop: the posts to publish in this round.  A SELECT that      *)
(* raises ends the round and changes nothing.                              *)
SelectDue(s, reply) ==
    LET selected == {p \in due : status[p] = "scheduled"}
    IN  /\ ppc[s] = "idle"
        /\ ~Raised(reply)
        /\ selected # {}
        /\ NextJob(s, {[id |-> 0, post |-> p] : p \in selected})
        /\ UNCHANGED <<postVars, sent, excused, trail, asked, askedGroup>>

(* consume_publish_requests                                                *)
ConsumeAsked(c, reply) ==
    LET ids == Fresh(asked, askedGroup, RequestBatch)
    IN  /\ ppc[c] = "idle"
        /\ ids # {}
        /\ Applied(reply)
        /\ askedGroup' = XReadGroup(asked, askedGroup, RequestBatch)
        /\ IF Raised(reply)
           THEN UNCHANGED taskVars
           ELSE NextJob(c, {[id |-> id, post |-> asked.log[id]] : id \in ids})
        /\ UNCHANGED <<postVars, sent, excused, trail, asked>>

(* The consumer reads the post asked for: drafts are published, too.       *)
Fetch(c, reply) ==
    /\ ppc[c] = "fetch"
    /\ IF Raised(reply) THEN Raising(c)
       ELSE IF status[PostOf(c)] \in {"draft", "scheduled"}
       THEN Leave(c, "call") /\ UNCHANGED <<work, job>>
       ELSE Returned(c)
    /\ UNCHANGED <<postVars, sent, excused, trail, asked, askedGroup>>

(* publish_post up to the platform's answer.  A reply lost after the       *)
(* platform took the post is a failure like any other.                     *)
CallPlatform(t, reply) ==
    LET p == PostOf(t)
    IN  /\ ppc[t] = "call"
        /\ IF p \in Unsupported
           THEN Returned(t) /\ UNCHANGED <<sent, excused>>
           ELSE /\ sent' = IF Applied(reply)
                           THEN [sent EXCEPT ![p] = IF @ < MaxSent THEN @ + 1 ELSE @]
                           ELSE sent
                /\ excused' = IF Applied(reply) /\ Raised(reply) THEN excused \cup {p} ELSE excused
                /\ Proceed(t, "load", "none", IF Raised(reply) THEN "failure" ELSE "success")
                /\ UNCHANGED <<work, job>>
        /\ UNCHANGED <<postVars, trail, asked, askedGroup>>

(* For a tweet that replies to a mention, publish_post reads the mention   *)
(* first; that read raises before anything is sent.                        *)
LookupRaises(t, reply) ==
    /\ ppc[t] = "call"
    /\ PostOf(t) \in TweetReplies
    /\ Raised(reply)
    /\ Raising(t)
    /\ UNCHANGED <<postVars, sent, excused, trail, asked, askedGroup>>

(* publish_post reads the row again: if it is gone, that is all.           *)
LoadPost(t, reply) ==
    /\ ppc[t] = "load"
    /\ IF ~Raised(reply) /\ Exist(PostOf(t))
       THEN /\ Proceed(t, "commit", status[PostOf(t)], outcome[t])
            /\ UNCHANGED <<work, job, excused>>
       ELSE /\ IF Raised(reply) THEN Raising(t) ELSE Returned(t)
            /\ excused' = excused \cup Forgotten(t)
    /\ UNCHANGED <<postVars, sent, trail, asked, askedGroup>>

NewStatus(t) == IF outcome[t] = "success" THEN "published" ELSE "failed"

\* Mutant of CommitOutcome: the outcome is dropped if the row has changed since it was loaded.
CommitUnlessChanged(t, reply) ==
    LET same == status[PostOf(t)] = seen[t]
    IN  /\ ppc[t] = "commit"
        /\ status' = IF same THEN [status EXCEPT ![PostOf(t)] = NewStatus(t)] ELSE status
        /\ excused' = IF NewStatus(t) = "failed" THEN excused \cup TakenBack(PostOf(t)) ELSE excused
        /\ Emit(IF outcome[t] = "success" THEN "published" ELSE "publish_failed", PostOf(t))
        /\ Returned(t)
        /\ UNCHANGED <<due, approved, sent, asked, askedGroup>>

(* publish_post writes the outcome and emits its audit event.  The ORM     *)
(* writes the status only if it differs from the one loaded, and raises if *)
(* a row to be updated is gone; it need not be updated when it was loaded  *)
(* as failed and fails again.                                              *)
CommitOutcome(t, reply) ==
    LET p == PostOf(t)
        unchanged == NewStatus(t) = seen[t]
        written ==
            /\ Emit(IF outcome[t] = "success" THEN "published" ELSE "publish_failed", p)
            /\ Returned(t)
    IN  /\ ppc[t] = "commit"
        /\ status' = IF Exist(p) /\ Applied(reply) /\ ~unchanged
                     THEN [status EXCEPT ![p] = NewStatus(t)] ELSE status
        /\ excused' = IF unchanged THEN excused
                      ELSE IF ~(Exist(p) /\ Applied(reply)) THEN excused \cup Forgotten(t)
                      ELSE IF outcome[t] = "success" THEN excused \ {p}
                      ELSE excused \cup TakenBack(p)
        /\ \/ /\ Exist(p) \/ (unchanged /\ NewStatus(t) = "failed")
              /\ ~Raised(reply)
              /\ written
           \/ /\ ~Exist(p) \/ Raised(reply)
              /\ Raising(t)
              /\ UNCHANGED trail
        /\ UNCHANGED <<due, approved, sent, asked, askedGroup>>

(* bus.ack in the finally clause; if it raises the batch is abandoned.     *)
AckAsked(c, reply) ==
    /\ ppc[c] = "ack"
    /\ askedGroup' = IF Applied(reply) THEN XAck(askedGroup, job[c].id) ELSE askedGroup
    /\ NextJob(c, IF Raised(reply) THEN {} ELSE work[c] \ {job[c]})
    /\ UNCHANGED <<postVars, sent, excused, trail, asked>>

(* A crash of a replica is a crash of each of its tasks.                   *)
CrashTask(t) ==
    /\ MayCrash
    /\ ppc[t] # "idle"
    /\ NextJob(t, {})
    /\ excused' = excused \cup Forgotten(t)
    /\ UNCHANGED <<postVars, sent, trail, asked, askedGroup>>

(* The publisher of publish:request; no service of the repository is one.  *)
Ask(p) ==
    /\ Len(asked.log) < MaxEvents
    /\ asked' \in XAdd(asked, <<p>>)
    /\ UNCHANGED <<postVars, sent, excused, trail, askedGroup, taskVars>>

(* scheduled_at is reached.                                                *)
BecomesDue(p) ==
    /\ status[p] # "none"
    /\ p \notin due
    /\ due' = due \cup {p}
    /\ UNCHANGED <<status, approved, sent, excused, trail, asked, askedGroup, taskVars>>

(* The commit of a success writes published_at.                            *)
CommitReplies(t) == IF outcome[t] = "success" THEN AwareReplies ELSE DatabaseReplies

(* The steps of publish_post.                                              *)
PublishPost(t) ==
    \/ \E reply \in PlatformReplies : CallPlatform(t, reply)
    \/ \E reply \in DatabaseReplies : LookupRaises(t, reply) \/ LoadPost(t, reply)
    \/ \E reply \in CommitReplies(t) : CommitOutcome(t, reply)

TaskStep(t) ==
    \/ PublishPost(t)
    \/ t \in Schedulers /\ \E reply \in AwareReplies : SelectDue(t, reply)
    \/ t \in Consumers /\ \E reply \in Replies : ConsumeAsked(t, reply) \/ AckAsked(t, reply)
    \/ t \in Consumers /\ \E reply \in DatabaseReplies : Fetch(t, reply)
    \/ t \in Requests /\ \E reply \in DatabaseReplies : Approve(t, reply) \/ Delete(t, reply)

PublishingNext ==
    \/ \E t \in Tasks : TaskStep(t) \/ CrashTask(t)
    \/ \E r \in Requests, p \in Posts :
          \/ BeginApprove(r, p) \/ BeginDelete(r, p) \/ BeginPublishNow(r, p)
          \/ \E isDue \in BOOLEAN, reply \in DatabaseReplies : CreatePost(r, p, isDue, reply)
    \/ \E p \in Posts : Ask(p) \/ BecomesDue(p)

PublishingSpec == PublishingInit /\ [][PublishingNext]_publishingVars

(* The loops never end and an HTTP request in progress is carried through. *)
PublishingFairness == \A t \in Tasks : WF_publishingVars(TaskStep(t))

FairPublishingSpec == PublishingSpec /\ PublishingFairness

-----------------------------------------------------------------------------
(* Properties.                                                             *)

PublishingTypeOK ==
    /\ status \in [Posts -> RowStatus]
    /\ due \in SUBSET Posts /\ approved \in SUBSET Posts
    /\ sent \in [Posts -> 0 .. MaxSent]
    /\ excused \in SUBSET Posts
    /\ trail \in SUBSET AuditEvent
    /\ asked \in StreamOf(Posts)
    /\ askedGroup \in Group
    /\ ppc \in [Tasks -> PublishingPc]
    /\ work \in [Tasks -> SUBSET Job]
    /\ job \in [Tasks -> Job]
    /\ seen \in [Tasks -> RowStatus]
    /\ outcome \in [Tasks -> Outcome]
    /\ \A t \in Tasks :
          /\ ppc[t] # "idle" <=> job[t] \in work[t]
          /\ ppc[t] \in {"load", "commit"} <=> outcome[t] # "none"

(* A post the table calls published was accepted by the platform, however  *)
(* many tasks publish, fail to publish or approve it at the same time.     *)
PublishedWasSent ==
    \A p \in Posts : status[p] = "published" => sent[p] > 0

(* Conversely a post its platform accepted is published in the table, or a *)
(* task is about to write it, unless it is excused: the platform's reply   *)
(* was lost, the task could not write its success or was killed, or an     *)
(* approval, a deletion or a failing attempt that had looked at the post   *)
(* before overwrote what was written.  Without these no number of tasks    *)
(* loses a publication.                                                    *)
SentIsPublished ==
    \A p \in Posts : sent[p] > 0 =>
        \/ status[p] = "published"
        \/ \E t \in Tasks : PostOf(t) = p /\ outcome[t] = "success"
        \/ p \in excused

(* The table says of a post what its platform says, both ways.             *)
StatusIsTrue == PublishedWasSent /\ SentIsPublished

(* The scheduler calls a platform only for posts that were approved, even  *)
(* though its list is stale: no operation takes an approval back.          *)
SchedulerPublishesApproved ==
    \A s \in Schedulers : ppc[s] = "call" => PostOf(s) \in approved

(* "Post is already published" (publishing_service/app/main.py:790): a     *)
(* post reaches its platform at most once.                                 *)
PublishedOnce == \A p \in Posts : sent[p] <= 1

(* "checks for due posts and publishes them" (publishing_service/app/      *)
(* main.py:7): an approved post that is due leaves the schedule, whatever  *)
(* the platform answers.  Posts that no publisher takes are left aside.    *)
EveryDuePostSettles ==
    \A p \in Posts \ Unsupported :
        status[p] = "scheduled" /\ p \in due ~> status[p] # "scheduled"

(* A publish request a consumer has taken from the stream leaves its hands *)
(* acknowledged, whatever becomes of the post and whichever of the calls   *)
(* for it raises; what is left is abandoned only when the replica crashes  *)
(* or the acknowledgement itself fails, which ends the batch.              *)
AskIsAcked ==
    [][\A c \in Consumers : \A request \in work[c] \ work'[c] :
          \/ request.id \in askedGroup'.acked
          \/ CrashTask(c)
          \/ \E reply \in Replies : Raised(reply) /\ AckAsked(c, reply)]_publishingVars
=============================================================================
