--------------------------- MODULE PublishingProofs ---------------------------
(***************************************************************************)
(* Proofs about the publishing service, for any number of schedulers,      *)
(* consumers, requests and posts, and any pattern of crashes and failures. *)
(*                                                                         *)
(* None of the invariants is inductive.  PublishedWasSent is about a       *)
(* status that some task writes long after its platform call, so the       *)
(* invariant follows the outcome the task holds (SuccessWasSent);          *)
(* SchedulerPublishesApproved is about a list selected earlier, so the     *)
(* invariant follows the list (WorkIsApproved); SentIsPublished depends on *)
(* what a task read before its commit, because a commit that changes       *)
(* nothing writes nothing (LoadedIsTrue); AskIsAcked is about requests     *)
(* that were delivered to the consumer long before (HeldIsDelivered).      *)
(***************************************************************************)
EXTENDS Publishing, TLAPS

SuccessWasSent == \A t \in Tasks : outcome[t] = "success" => sent[PostOf(t)] > 0

ScheduledIsApproved == \A p \in Posts : status[p] = "scheduled" => p \in approved

WorkIsApproved == \A s \in Schedulers : \A j \in work[s] : j.post \in approved

PublishingIInv ==
    /\ PublishingTypeOK
    /\ PublishedWasSent
    /\ SuccessWasSent
    /\ ScheduledIsApproved
    /\ WorkIsApproved

-----------------------------------------------------------------------------
(* What a step does to the tasks.                                          *)

TaskTypes ==
    /\ ppc \in [Tasks -> PublishingPc]
    /\ work \in [Tasks -> SUBSET Job]
    /\ job \in [Tasks -> Job]
    /\ seen \in [Tasks -> RowStatus]
    /\ outcome \in [Tasks -> Outcome]
    /\ \A t \in Tasks :
          /\ ppc[t] # "idle" <=> job[t] \in work[t]
          /\ ppc[t] \in {"load", "commit"} <=> outcome[t] # "none"

(* Task t moves to pc with what is left, a job, a row and an outcome.      *)
Moves(t, pc, left, j, row, result) ==
    /\ ppc' = [ppc EXCEPT ![t] = pc]
    /\ work' = [work EXCEPT ![t] = left]
    /\ job' = [job EXCEPT ![t] = j]
    /\ seen' = [seen EXCEPT ![t] = row]
    /\ outcome' = [outcome EXCEPT ![t] = result]

(* Whatever a task moves to, its types hold if what it holds fits.         *)
LEMMA MovesTypes ==
    ASSUME TaskTypes, NEW t \in Tasks, NEW pc \in PublishingPc, NEW left \in SUBSET Job,
           NEW j \in Job, NEW row \in RowStatus, NEW result \in Outcome,
           pc # "idle" <=> j \in left,
           pc \in {"load", "commit"} <=> result # "none",
           Moves(t, pc, left, j, row, result)
    PROVE  /\ TaskTypes'
           /\ ppc'[t] = pc /\ work'[t] = left /\ job'[t] = j /\ outcome'[t] = result
           /\ \A u \in Tasks : u # t =>
                 work'[u] = work[u] /\ job'[u] = job[u] /\ outcome'[u] = outcome[u]
                 /\ ppc'[u] = ppc[u]
  BY DEF TaskTypes, Moves

(* The dummy job is a job, since there are posts.                          *)
LEMMA NoJobIsJob == NoJob \in Job /\ NoJob.id = 0
  BY PublishingAssumption DEF NoJob, Job

(* Going on to what is left.                                               *)
LEMMA NextJobMoves ==
    ASSUME TaskTypes, NEW t \in Tasks, NEW left \in SUBSET Job, NextJob(t, left)
    PROVE  \E pc \in {"idle", "fetch", "call"}, j \in Job :
              /\ pc # "idle" <=> j \in left
              /\ pc = "fetch" => t \in Consumers
              /\ pc = "call" => t \notin Consumers
              /\ Moves(t, pc, left, j, "none", "none")
<1>1. CASE left = {}
  <2>1. Moves(t, "idle", left, NoJob, "none", "none")
    BY <1>1 DEF NextJob, Leave, Proceed, Moves
  <2>2. QED
    BY <1>1, <2>1, NoJobIsJob
<1>2. CASE left # {}
  <2>1. PICK next \in left :
           /\ job' = [job EXCEPT ![t] = next]
           /\ Leave(t, IF t \in Consumers THEN "fetch" ELSE "call")
    BY <1>2 DEF NextJob
  <2>2. work' = [work EXCEPT ![t] = left]
    BY DEF NextJob
  <2>3. PICK pc \in {"fetch", "call"} :
           /\ (pc = "fetch" => t \in Consumers) /\ (pc = "call" => t \notin Consumers)
           /\ Leave(t, pc)
    BY <2>1
  <2>4. Moves(t, pc, left, next, "none", "none")
    BY <2>1, <2>2, <2>3 DEF Leave, Proceed, Moves
  <2>5. QED
    BY <2>3, <2>4
<1>3. QED
  BY <1>1, <1>2

(* The task is done with its job, one way or another: it takes nothing new *)
(* and holds no outcome.                                                   *)
Settles(t) ==
    /\ TaskTypes'
    /\ work'[t] \subseteq work[t]
    /\ outcome'[t] = "none"
    /\ \A u \in Tasks : u # t =>
          work'[u] = work[u] /\ job'[u] = job[u] /\ outcome'[u] = outcome[u] /\ ppc'[u] = ppc[u]

(* Going on to part of what is left settles the task.                      *)
LEMMA NextJobSettles ==
    ASSUME TaskTypes, NEW t \in Tasks, NEW left \in SUBSET work[t], NextJob(t, left)
    PROVE  Settles(t)
<1>1. left \in SUBSET Job /\ {"idle", "fetch", "call"} \subseteq PublishingPc
      /\ "none" \in RowStatus /\ "none" \in Outcome
  BY DEF TaskTypes, PublishingPc, RowStatus, Outcome
<1>2. PICK pc \in {"idle", "fetch", "call"}, j \in Job :
         (pc # "idle" <=> j \in left) /\ Moves(t, pc, left, j, "none", "none")
  BY <1>1, NextJobMoves
<1>3. QED
  BY <1>1, <1>2, MovesTypes DEF Settles

(* Staying with the job, without an outcome.                               *)
LEMMA LeaveSettles ==
    ASSUME TaskTypes, NEW t \in Tasks, ppc[t] # "idle", NEW pc \in {"ack", "call"},
           Leave(t, pc), UNCHANGED <<work, job>>
    PROVE  Settles(t)
<1>1. /\ pc \in PublishingPc /\ "none" \in RowStatus /\ "none" \in Outcome
      /\ work[t] \in SUBSET Job /\ job[t] \in Job /\ job[t] \in work[t]
  BY DEF TaskTypes, PublishingPc, RowStatus, Outcome
<1>2. Moves(t, pc, work[t], job[t], "none", "none")
  BY DEF Leave, Proceed, Moves, TaskTypes
<1>3. QED
  BY <1>1, <1>2, MovesTypes DEF Settles

(* publish_post returning or raising settles the task.                     *)
LEMMA ReturnedSettles ==
    ASSUME TaskTypes, NEW t \in Tasks, ppc[t] # "idle", Returned(t) \/ Raising(t)
    PROVE  Settles(t)
<1>1. CASE t \in Consumers
  BY <1>1, LeaveSettles DEF Returned, Raising
<1>2. CASE t \notin Consumers
  <2>1. PICK left \in SUBSET work[t] : NextJob(t, left)
    BY <1>2 DEF Returned, Raising
  <2>2. QED
    BY <2>1, NextJobSettles
<1>3. QED
  BY <1>1, <1>2

-----------------------------------------------------------------------------
(* The invariant, one action at a time.                                    *)

(* Posts are published, approved and counted; none of it is taken back.    *)
TableTypes ==
    /\ status \in [Posts -> RowStatus]
    /\ due \in SUBSET Posts /\ approved \in SUBSET Posts
    /\ sent \in [Posts -> 0 .. MaxSent]
    /\ excused \in SUBSET Posts
    /\ trail \in SUBSET AuditEvent

StreamTypes == asked \in StreamOf(Posts) /\ askedGroup \in Group

(* The type invariant by what the actions change together.                 *)
LEMMA TypesSplit == PublishingTypeOK <=> TaskTypes /\ TableTypes /\ StreamTypes
  BY DEF PublishingTypeOK, TaskTypes, TableTypes, StreamTypes

(* The same in the next state.                                             *)
LEMMA TypesSplitNext == PublishingTypeOK' <=> TaskTypes' /\ TableTypes' /\ StreamTypes'
  BY DEF PublishingTypeOK, TaskTypes, TableTypes, StreamTypes

(* Emitting an audit event keeps the trail one of audit events.            *)
LEMMA EmitTypes ==
    ASSUME TableTypes, NEW p \in Posts,
           NEW action \in {"created", "approved", "deleted", "published", "publish_failed"},
           Emit(action, p)
    PROVE  trail' \in SUBSET AuditEvent
  BY DEF TableTypes, Emit, AuditEvent

(* The post of a task is a post.                                           *)
LEMMA PostOfTask ==
    ASSUME TaskTypes, NEW t \in Tasks
    PROVE  PostOf(t) \in Posts /\ job[t] \in Job
  BY DEF TaskTypes, PostOf, Job

(* A step in which a task settles, and the table changes so that what is   *)
(* published was sent and what is scheduled was approved.                  *)
LEMMA SettledInv ==
    ASSUME PublishingIInv, NEW t \in Tasks, Settles(t), TableTypes', StreamTypes',
           \A p \in Posts : sent[p] <= sent'[p],
           approved \subseteq approved',
           PublishedWasSent', ScheduledIsApproved'
    PROVE  PublishingIInv'
<1>1. PublishingTypeOK'
  BY TypesSplitNext DEF Settles
<1>2. TaskTypes /\ TableTypes
  BY TypesSplit DEF PublishingIInv
<1>3. ASSUME NEW u \in Tasks, outcome'[u] = "success" PROVE sent'[PostOf(u)'] > 0
  <2>1. u # t /\ outcome[u] = "success" /\ job'[u] = job[u]
    BY <1>3 DEF Settles
  <2>2. PostOf(u)' = PostOf(u) /\ PostOf(u) \in Posts /\ sent[PostOf(u)] > 0
    BY <1>2, <2>1, PostOfTask DEF PublishingIInv, SuccessWasSent, PostOf
  <2>3. sent[PostOf(u)] \in Nat /\ sent'[PostOf(u)] \in Nat
    BY <2>2, <1>2, PublishingAssumption DEF TableTypes
  <2>4. QED
    BY <2>2, <2>3
<1>4. WorkIsApproved'
  <2>1. \A s \in Schedulers : s \in Tasks /\ work'[s] \subseteq work[s]
    BY DEF Settles, Tasks
  <2>2. QED
    BY <2>1 DEF PublishingIInv, WorkIsApproved
<1>5. QED
  BY <1>1, <1>3, <1>4 DEF PublishingIInv, SuccessWasSent

(* The same when the table does not change.                                *)
LEMMA SettledQuietInv ==
    ASSUME PublishingIInv, NEW t \in Tasks, Settles(t), StreamTypes', excused' \in SUBSET Posts,
           UNCHANGED <<postVars, sent, trail>>
    PROVE  PublishingIInv'
<1>1. TableTypes /\ TableTypes' /\ UNCHANGED <<status, approved, sent>>
  BY TypesSplit DEF PublishingIInv, TableTypes, postVars
<1>2. PublishedWasSent' /\ ScheduledIsApproved'
  BY <1>1 DEF PublishingIInv, PublishedWasSent, ScheduledIsApproved
<1>3. \A p \in Posts : sent[p] <= sent'[p]
  BY <1>1 DEF TableTypes
<1>4. QED
  BY <1>1, <1>2, <1>3, SettledInv

(* A step that leaves the tasks alone.                                     *)
LEMMA TasksAloneInv ==
    ASSUME PublishingIInv, UNCHANGED <<taskVars, sent, approved>>,
           TableTypes', StreamTypes', PublishedWasSent', ScheduledIsApproved'
    PROVE  PublishingIInv'
<1>1. TaskTypes'
  BY TypesSplit DEF PublishingIInv, TaskTypes, taskVars
<1>2. PublishingTypeOK'
  BY <1>1, TypesSplitNext
<1>3. SuccessWasSent' /\ WorkIsApproved'
  BY DEF PublishingIInv, SuccessWasSent, WorkIsApproved, PostOf, taskVars
<1>4. QED
  BY <1>2, <1>3 DEF PublishingIInv

(* The invariant holds at first.                                           *)
LEMMA PublishingInitInv == PublishingInit => PublishingIInv
<1> SUFFICES ASSUME PublishingInit PROVE PublishingIInv
  OBVIOUS
<1>1. TaskTypes
  BY NoJobIsJob DEF PublishingInit, TaskTypes, PublishingPc, RowStatus, Outcome
<1>2. TableTypes
  BY PublishingAssumption DEF PublishingInit, TableTypes, RowStatus
<1>3. StreamTypes
  BY DEF PublishingInit, StreamTypes, EmptyStream, NewGroup, StreamOf, Group
<1>4. PublishingTypeOK
  BY <1>1, <1>2, <1>3, TypesSplit
<1>5. PublishedWasSent /\ SuccessWasSent /\ ScheduledIsApproved /\ WorkIsApproved
  BY DEF PublishingInit, PublishedWasSent, SuccessWasSent, ScheduledIsApproved, WorkIsApproved,
         Tasks
<1>6. QED
  BY <1>4, <1>5 DEF PublishingIInv

(* CreatePost keeps the invariant.                                         *)
LEMMA CreatePostInv ==
    ASSUME PublishingIInv, NEW r, NEW p \in Posts, NEW isDue, NEW reply,
           CreatePost(r, p, isDue, reply)
    PROVE  PublishingIInv'
<1>1. TableTypes /\ StreamTypes
  BY TypesSplit DEF PublishingIInv
<1>2. /\ status' = [status EXCEPT ![p] = "draft"] /\ due' \in SUBSET (due \cup {p})
      /\ UNCHANGED trail \/ Emit("created", p)
      /\ UNCHANGED <<approved, sent, excused, asked, askedGroup, taskVars>>
  BY DEF CreatePost
<1>3. TableTypes' /\ StreamTypes'
  BY <1>1, <1>2, EmitTypes DEF TableTypes, StreamTypes, RowStatus, PublishStatus
<1>4. PublishedWasSent' /\ ScheduledIsApproved'
  BY <1>1, <1>2 DEF PublishingIInv, PublishedWasSent, ScheduledIsApproved, TableTypes
<1>5. QED
  BY <1>2, <1>3, <1>4, TasksAloneInv

(* Requests never schedule anything: what they hold is their own.          *)
LEMMA BeginInv ==
    ASSUME PublishingIInv, NEW r \in Requests, NEW p \in Posts, NEW operation,
           NEW pc \in {"approve", "delete", "call"}, NEW statuses, Begin(r, p, operation, pc, statuses)
    PROVE  PublishingIInv'
<1>1. TaskTypes /\ TableTypes /\ StreamTypes /\ r \in Tasks /\ r \notin Schedulers
  BY TypesSplit, PublishingAssumption DEF PublishingIInv, Tasks
<1> DEFINE j == [id |-> 0, post |-> p]
<1>2. /\ Moves(r, pc, {j}, j, status[p], "none")
      /\ UNCHANGED <<postVars, sent, excused, trail, asked, askedGroup>>
  BY <1>1 DEF Begin, Proceed, Moves, TaskTypes
<1>3. /\ TaskTypes' /\ outcome'[r] = "none"
      /\ \A u \in Tasks : u # r => work'[u] = work[u] /\ job'[u] = job[u] /\ outcome'[u] = outcome[u]
  <2>1. /\ j \in Job /\ {j} \in SUBSET Job /\ pc \in PublishingPc /\ status[p] \in RowStatus
        /\ "none" \in Outcome
    BY <1>1 DEF Job, PublishingPc, TableTypes, Outcome
  <2>2. QED
    BY <1>1, <1>2, <2>1, MovesTypes
<1>4. PublishingTypeOK'
  BY <1>1, <1>2, <1>3, TypesSplitNext DEF TableTypes, StreamTypes, postVars
<1>5. SuccessWasSent'
  BY <1>2, <1>3 DEF PublishingIInv, SuccessWasSent, PostOf
<1>6. WorkIsApproved'
  BY <1>1, <1>2, <1>3 DEF PublishingIInv, WorkIsApproved, Tasks, postVars
<1>7. PublishedWasSent' /\ ScheduledIsApproved'
  BY <1>2 DEF PublishingIInv, PublishedWasSent, ScheduledIsApproved, postVars
<1>8. QED
  BY <1>4, <1>5, <1>6, <1>7 DEF PublishingIInv

(* approve_post and delete_post write the row at their last step.          *)
LEMMA WriteInv ==
    ASSUME PublishingIInv, NEW r \in Tasks, NEW reply, Approve(r, reply) \/ Delete(r, reply)
    PROVE  PublishingIInv'
<1>1. TaskTypes /\ TableTypes /\ StreamTypes /\ PostOf(r) \in Posts
  BY TypesSplit, PostOfTask DEF PublishingIInv
<1>2. /\ ppc[r] # "idle" /\ Returned(r)
      /\ UNCHANGED trail \/ (\E action \in {"approved", "deleted"} : Emit(action, PostOf(r)))
      /\ UNCHANGED <<due, sent, asked, askedGroup>>
      /\ excused' \in SUBSET (excused \cup {PostOf(r)})
      /\ \/ UNCHANGED <<status, approved>>
         \/ /\ status' = [status EXCEPT ![PostOf(r)] = "scheduled"]
            /\ approved' = approved \cup {PostOf(r)}
         \/ status' = [status EXCEPT ![PostOf(r)] = "deleted"] /\ approved' = approved
  BY DEF Approve, Delete, TakenBack
<1>3. Settles(r)
  BY <1>1, <1>2, ReturnedSettles
<1>4. TableTypes' /\ StreamTypes'
  BY <1>1, <1>2, EmitTypes DEF TableTypes, StreamTypes, RowStatus, PublishStatus
<1>5. PublishedWasSent' /\ ScheduledIsApproved' /\ approved \subseteq approved'
  BY <1>1, <1>2 DEF PublishingIInv, PublishedWasSent, ScheduledIsApproved, TableTypes
<1>6. \A p \in Posts : sent[p] <= sent'[p]
  BY <1>1, <1>2 DEF TableTypes
<1>7. QED
  BY <1>3, <1>4, <1>5, <1>6, SettledInv

(* SelectDue keeps the invariant.                                          *)
LEMMA SelectDueInv ==
    ASSUME PublishingIInv, NEW s \in Schedulers, NEW reply, SelectDue(s, reply)
    PROVE  PublishingIInv'
<1> DEFINE selected == {p \in due : status[p] = "scheduled"}
           left == {[id |-> 0, post |-> p] : p \in selected}
<1>1. TaskTypes /\ TableTypes /\ StreamTypes /\ s \in Tasks /\ s \notin Consumers
  BY TypesSplit, PublishingAssumption DEF PublishingIInv, Tasks
<1>2. NextJob(s, left) /\ UNCHANGED <<postVars, sent, excused, trail, asked, askedGroup>>
  BY DEF SelectDue
<1>3. selected \subseteq Posts /\ left \in SUBSET Job /\ \A j \in left : j.post \in approved
  BY <1>1 DEF PublishingIInv, ScheduledIsApproved, TableTypes, Job
<1>4. PICK pc \in {"idle", "fetch", "call"}, j \in Job :
         (pc # "idle" <=> j \in left) /\ Moves(s, pc, left, j, "none", "none")
  BY <1>1, <1>2, <1>3, NextJobMoves
<1>5. /\ TaskTypes' /\ work'[s] = left /\ outcome'[s] = "none"
      /\ \A u \in Tasks : u # s => work'[u] = work[u] /\ job'[u] = job[u] /\ outcome'[u] = outcome[u]
  <2>1. pc \in PublishingPc /\ "none" \in RowStatus /\ "none" \in Outcome
    BY DEF PublishingPc, RowStatus, Outcome
  <2>2. pc \notin {"load", "commit"}
    BY <1>4
  <2>3. QED
    BY <1>1, <1>3, <1>4, <2>1, <2>2, MovesTypes
<1>6. PublishingTypeOK'
  BY <1>1, <1>2, <1>5, TypesSplitNext DEF TableTypes, StreamTypes, postVars
<1>7. SuccessWasSent'
  BY <1>2, <1>5 DEF PublishingIInv, SuccessWasSent, PostOf
<1>8. WorkIsApproved'
  BY <1>1, <1>2, <1>3, <1>5 DEF PublishingIInv, WorkIsApproved, Tasks, postVars
<1>9. PublishedWasSent' /\ ScheduledIsApproved'
  BY <1>2 DEF PublishingIInv, PublishedWasSent, ScheduledIsApproved, postVars
<1>10. QED
  BY <1>6, <1>7, <1>8, <1>9 DEF PublishingIInv

(* ConsumeAsked keeps the invariant.                                       *)
LEMMA ConsumeAskedInv ==
    ASSUME PublishingIInv, NEW c \in Consumers, NEW reply, ConsumeAsked(c, reply)
    PROVE  PublishingIInv'
<1> DEFINE ids == Fresh(asked, askedGroup, RequestBatch)
           left == {[id |-> id, post |-> asked.log[id]] : id \in ids}
<1>1. TaskTypes /\ TableTypes /\ StreamTypes /\ c \in Tasks /\ c \notin Schedulers
  BY TypesSplit, PublishingAssumption DEF PublishingIInv, Tasks
<1>2. /\ askedGroup' = XReadGroup(asked, askedGroup, RequestBatch) /\ ids # {}
      /\ UNCHANGED <<postVars, sent, excused, trail, asked>>
      /\ UNCHANGED taskVars \/ NextJob(c, left)
  BY DEF ConsumeAsked
<1>3. /\ askedGroup.last \in Nat /\ asked.first \in Nat \ {0} /\ asked.log \in Seq(Posts)
      /\ Len(asked.log) \in Nat
      /\ askedGroup.pending \in SUBSET Nat /\ askedGroup.acked \in SUBSET Nat
  BY <1>1 DEF StreamTypes, StreamOf, Group
<1>4. /\ FirstFresh(asked, askedGroup) \in Nat \ {0}
      /\ LastFresh(asked, askedGroup, RequestBatch) \in Nat
      /\ LastFresh(asked, askedGroup, RequestBatch) <= Len(asked.log)
  BY <1>3, PublishingAssumption DEF FirstFresh, LastFresh
<1>5. ids \subseteq 1 .. Len(asked.log)
  BY <1>3, <1>4 DEF Fresh
<1>6. left \in SUBSET Job
  BY <1>3, <1>5 DEF Job
<1>7. StreamTypes'
  <2>1. askedGroup' \in Group
    BY <1>2, <1>3, <1>4, <1>5 DEF XReadGroup, Group
  <2>2. QED
    BY <1>1, <1>2, <2>1 DEF StreamTypes
<1>8. TableTypes' /\ PublishedWasSent' /\ ScheduledIsApproved'
  BY <1>1, <1>2 DEF PublishingIInv, PublishedWasSent, ScheduledIsApproved, postVars, TableTypes
<1>9. CASE UNCHANGED taskVars
  BY <1>2, <1>7, <1>8, <1>9, TasksAloneInv DEF postVars
<1>10. CASE NextJob(c, left)
  <2>1. PICK pc \in {"idle", "fetch", "call"}, j \in Job :
           (pc # "idle" <=> j \in left) /\ Moves(c, pc, left, j, "none", "none")
    BY <1>1, <1>6, <1>10, NextJobMoves
  <2>2. pc \in PublishingPc /\ "none" \in RowStatus /\ "none" \in Outcome
        /\ pc \notin {"load", "commit"}
    BY <2>1 DEF PublishingPc, RowStatus, Outcome
  <2>3. /\ TaskTypes' /\ outcome'[c] = "none"
        /\ \A u \in Tasks : u # c =>
              work'[u] = work[u] /\ job'[u] = job[u] /\ outcome'[u] = outcome[u]
    BY <1>1, <1>6, <2>1, <2>2, MovesTypes
  <2>4. PublishingTypeOK'
    BY <1>7, <1>8, <2>3, TypesSplitNext
  <2>5. SuccessWasSent'
    BY <1>2, <2>3 DEF PublishingIInv, SuccessWasSent, PostOf
  <2>6. WorkIsApproved'
    BY <1>1, <1>2, <2>3 DEF PublishingIInv, WorkIsApproved, Tasks, postVars
  <2>7. QED
    BY <1>8, <2>4, <2>5, <2>6 DEF PublishingIInv
<1>11. QED
  BY <1>2, <1>9, <1>10

(* The steps that only look: nothing of the table changes.                 *)
LEMMA QuietInv ==
    ASSUME PublishingIInv, NEW t \in Tasks, NEW reply,
           Fetch(t, reply) \/ LookupRaises(t, reply) \/ CrashTask(t)
    PROVE  PublishingIInv'
<1>1. TaskTypes /\ TableTypes /\ StreamTypes /\ PostOf(t) \in Posts
  BY TypesSplit, PostOfTask DEF PublishingIInv
<1>2. /\ ppc[t] # "idle" /\ UNCHANGED <<postVars, sent, trail, asked, askedGroup>>
      /\ excused' \in SUBSET (excused \cup {PostOf(t)})
      /\ \/ Returned(t) \/ Raising(t) \/ NextJob(t, {})
         \/ Leave(t, "call") /\ UNCHANGED <<work, job>>
  BY DEF Fetch, LookupRaises, CrashTask, Forgotten
<1>3. Settles(t)
  BY <1>1, <1>2, ReturnedSettles, LeaveSettles, NextJobSettles
<1>4. StreamTypes' /\ excused' \in SUBSET Posts
  BY <1>1, <1>2 DEF StreamTypes, TableTypes
<1>5. QED
  BY <1>2, <1>3, <1>4, SettledQuietInv

(* AckAsked keeps the invariant.                                           *)
LEMMA AckAskedInv ==
    ASSUME PublishingIInv, NEW c \in Tasks, NEW reply, AckAsked(c, reply)
    PROVE  PublishingIInv'
<1>1. TaskTypes /\ TableTypes /\ StreamTypes
  BY TypesSplit DEF PublishingIInv
<1>2. /\ UNCHANGED <<postVars, sent, excused, trail, asked>>
      /\ askedGroup' \in {askedGroup, XAck(askedGroup, job[c].id)}
      /\ \E left \in SUBSET work[c] : NextJob(c, left)
  BY DEF AckAsked
<1>3. Settles(c)
  BY <1>1, <1>2, NextJobSettles
<1>4. StreamTypes' /\ excused' \in SUBSET Posts
  BY <1>1, <1>2 DEF StreamTypes, TableTypes, XAck, Group
<1>5. QED
  BY <1>2, <1>3, <1>4, SettledQuietInv

(* The platform answers; what it accepted is counted before the outcome    *)
(* is written.                                                             *)
LEMMA CallPlatformInv ==
    ASSUME PublishingIInv, NEW t \in Tasks, NEW reply, CallPlatform(t, reply)
    PROVE  PublishingIInv'
<1> DEFINE p == PostOf(t)
           result == IF Raised(reply) THEN "failure" ELSE "success"
<1>1. TaskTypes /\ TableTypes /\ StreamTypes /\ p \in Posts
  BY TypesSplit, PostOfTask DEF PublishingIInv
<1>2. ppc[t] = "call" /\ UNCHANGED <<postVars, trail, asked, askedGroup>>
  BY DEF CallPlatform
<1>3. StreamTypes' /\ excused' \in SUBSET Posts
  BY <1>1, <1>2 DEF StreamTypes, TableTypes, CallPlatform
<1>4. CASE p \in Unsupported
  <2>1. Returned(t) /\ UNCHANGED sent
    BY <1>4 DEF CallPlatform
  <2>2. QED
    BY <1>1, <1>2, <1>3, <2>1, ReturnedSettles, SettledQuietInv
<1>5. CASE p \notin Unsupported
  <2>1. /\ sent' = IF Applied(reply)
                    THEN [sent EXCEPT ![p] = IF @ < MaxSent THEN @ + 1 ELSE @]
                    ELSE sent
        /\ Moves(t, "load", work[t], job[t], "none", result)
    BY <1>1, <1>5 DEF CallPlatform, Proceed, Moves, TaskTypes
  <2>2. /\ sent \in [Posts -> 0 .. MaxSent] /\ MaxSent \in Nat \ {0}
        /\ sent' \in [Posts -> 0 .. MaxSent]
        /\ \A q \in Posts : sent[q] <= sent'[q]
        /\ Applied(reply) => sent'[p] > 0
    BY <1>1, <2>1, PublishingAssumption DEF TableTypes
  <2>3. result = "success" => Applied(reply)
    BY DEF Applied, Raised
  <2>4. /\ "load" \in PublishingPc /\ "none" \in RowStatus /\ result \in Outcome
        /\ work[t] \in SUBSET Job /\ job[t] \in Job /\ job[t] \in work[t] /\ result # "none"
    BY <1>1, <1>2 DEF TaskTypes, PublishingPc, RowStatus, Outcome
  <2>5. /\ TaskTypes' /\ outcome'[t] = result /\ work'[t] = work[t] /\ job'[t] = job[t]
        /\ \A u \in Tasks : u # t =>
              work'[u] = work[u] /\ job'[u] = job[u] /\ outcome'[u] = outcome[u]
    BY <1>1, <2>1, <2>4, MovesTypes
  <2>6. PublishingTypeOK'
    BY <1>1, <1>2, <1>3, <2>2, <2>5, TypesSplitNext DEF TableTypes, postVars
  <2>7. SuccessWasSent'
    <3> SUFFICES ASSUME NEW u \in Tasks, outcome'[u] = "success" PROVE sent'[PostOf(u)'] > 0
      BY DEF SuccessWasSent
    <3>1. CASE u = t
      <4>1. PostOf(u)' = p
        BY <2>5, <3>1 DEF PostOf
      <4>2. QED
        BY <2>2, <2>3, <2>5, <3>1, <4>1
    <3>2. CASE u # t
      <4>1. PostOf(u)' = PostOf(u) /\ PostOf(u) \in Posts /\ sent[PostOf(u)] > 0
        BY <1>1, <2>5, <3>2, PostOfTask DEF PublishingIInv, SuccessWasSent, PostOf
      <4>2. sent[PostOf(u)] \in Nat /\ sent'[PostOf(u)] \in Nat
        BY <2>2, <4>1
      <4>3. QED
        BY <2>2, <4>1, <4>2
    <3>3. QED
      BY <3>1, <3>2
  <2>8. PublishedWasSent'
    <3> SUFFICES ASSUME NEW q \in Posts, status[q] = "published" PROVE sent'[q] > 0
      BY <1>2 DEF PublishedWasSent, postVars
    <3>1. sent[q] > 0
      BY DEF PublishingIInv, PublishedWasSent
    <3>2. sent[q] \in Nat /\ sent'[q] \in Nat
      BY <2>2
    <3>3. QED
      BY <2>2, <3>1, <3>2
  <2>9. ScheduledIsApproved' /\ WorkIsApproved'
    BY <1>2, <2>5 DEF PublishingIInv, ScheduledIsApproved, WorkIsApproved, postVars, Tasks
  <2>10. QED
    BY <2>6, <2>7, <2>8, <2>9 DEF PublishingIInv
<1>6. QED
  BY <1>4, <1>5

(* LoadPost keeps the invariant.                                           *)
LEMMA LoadPostInv ==
    ASSUME PublishingIInv, NEW t \in Tasks, NEW reply, LoadPost(t, reply)
    PROVE  PublishingIInv'
<1>1. TaskTypes /\ TableTypes /\ StreamTypes /\ PostOf(t) \in Posts
  BY TypesSplit, PostOfTask DEF PublishingIInv
<1>2. ppc[t] = "load" /\ UNCHANGED <<postVars, sent, trail, asked, askedGroup>>
  BY DEF LoadPost
<1>3. StreamTypes' /\ excused' \in SUBSET Posts
  BY <1>1, <1>2 DEF StreamTypes, TableTypes, LoadPost, Forgotten
<1>4. CASE Returned(t) \/ Raising(t)
  BY <1>1, <1>2, <1>3, <1>4, ReturnedSettles, SettledQuietInv
<1>5. CASE Proceed(t, "commit", status[PostOf(t)], outcome[t]) /\ UNCHANGED <<work, job>>
  <2>1. Moves(t, "commit", work[t], job[t], status[PostOf(t)], outcome[t])
    BY <1>1, <1>5 DEF Proceed, Moves, TaskTypes
  <2>2. /\ "commit" \in PublishingPc /\ status[PostOf(t)] \in RowStatus
        /\ outcome[t] \in Outcome /\ outcome[t] # "none"
        /\ work[t] \in SUBSET Job /\ job[t] \in Job /\ job[t] \in work[t]
    BY <1>1, <1>2 DEF TaskTypes, TableTypes, PublishingPc
  <2>3. TaskTypes' /\ UNCHANGED <<work, job>> /\ \A u \in Tasks : outcome'[u] = outcome[u]
    BY <1>1, <1>5, <2>1, <2>2, MovesTypes
  <2>4. PublishingTypeOK'
    BY <1>1, <1>2, <1>3, <2>3, TypesSplitNext DEF TableTypes, postVars
  <2>5. PublishedWasSent' /\ SuccessWasSent' /\ ScheduledIsApproved' /\ WorkIsApproved'
    BY <1>2, <2>3 DEF PublishingIInv, PublishedWasSent, SuccessWasSent, ScheduledIsApproved,
                      WorkIsApproved, PostOf, postVars
  <2>6. QED
    BY <2>4, <2>5 DEF PublishingIInv
<1>6. QED
  BY <1>4, <1>5 DEF LoadPost

(* CommitOutcome keeps the invariant.                                      *)
LEMMA CommitOutcomeInv ==
    ASSUME PublishingIInv, NEW t \in Tasks, NEW reply, CommitOutcome(t, reply)
    PROVE  PublishingIInv'
<1> DEFINE p == PostOf(t)
<1>1. TaskTypes /\ TableTypes /\ StreamTypes /\ p \in Posts
  BY TypesSplit, PostOfTask DEF PublishingIInv
<1>2. /\ ppc[t] # "idle" /\ UNCHANGED <<due, approved, sent, asked, askedGroup>>
      /\ status' = status \/ status' = [status EXCEPT ![p] = NewStatus(t)]
      /\ excused' \in SUBSET (excused \cup {p})
      /\ Returned(t) \/ Raising(t)
      /\ UNCHANGED trail \/ \E action \in {"published", "publish_failed"} : Emit(action, p)
  BY DEF CommitOutcome, Forgotten, TakenBack
<1>3. Settles(t)
  BY <1>1, <1>2, ReturnedSettles
<1>4. NewStatus(t) \in {"published", "failed"} /\ (NewStatus(t) = "published" => sent[p] > 0)
  BY DEF NewStatus, PublishingIInv, SuccessWasSent
<1>5. TableTypes' /\ StreamTypes'
  BY <1>1, <1>2, <1>4, EmitTypes DEF TableTypes, StreamTypes, RowStatus, PublishStatus
<1>6. PublishedWasSent' /\ ScheduledIsApproved'
  BY <1>1, <1>2, <1>4 DEF PublishingIInv, PublishedWasSent, ScheduledIsApproved, TableTypes
<1>7. \A q \in Posts : sent[q] <= sent'[q]
  BY <1>1, <1>2 DEF TableTypes
<1>8. QED
  BY <1>2, <1>3, <1>5, <1>6, <1>7, SettledInv

(* What happens outside the service.                                       *)
LEMMA OutsideInv ==
    ASSUME PublishingIInv, NEW p \in Posts, Ask(p) \/ BecomesDue(p)
    PROVE  PublishingIInv'
<1>1. TaskTypes /\ TableTypes /\ StreamTypes
  BY TypesSplit DEF PublishingIInv
<1>2. /\ UNCHANGED <<status, approved, sent, excused, trail, askedGroup, taskVars>>
      /\ due' \in {due, due \cup {p}}
      /\ asked' = asked \/ asked' \in XAdd(asked, <<p>>)
  BY DEF Ask, BecomesDue, postVars
<1>3. asked' \in StreamOf(Posts)
  <2>1. asked.log \in Seq(Posts) /\ asked.first \in Nat \ {0} /\ asked \in StreamOf(Posts)
    BY <1>1 DEF StreamTypes, StreamOf
  <2>2. asked.log \o <<p>> \in Seq(Posts) /\ Len(asked.log \o <<p>>) \in Nat
    BY <2>1
  <2>3. ASSUME asked' \in XAdd(asked, <<p>>) PROVE asked' \in StreamOf(Posts)
    <3>1. PICK f \in asked.first .. Len(asked.log \o <<p>>) :
             asked' = [log |-> asked.log \o <<p>>, first |-> f]
      BY <2>3 DEF XAdd
    <3>2. f \in Nat \ {0}
      BY <2>1, <2>2
    <3>3. QED
      BY <2>2, <3>1, <3>2 DEF StreamOf
  <2>4. QED
    BY <1>2, <2>1, <2>3
<1>4. TableTypes' /\ StreamTypes'
  BY <1>1, <1>2, <1>3 DEF TableTypes, StreamTypes
<1>5. PublishedWasSent' /\ ScheduledIsApproved'
  BY <1>2 DEF PublishingIInv, PublishedWasSent, ScheduledIsApproved
<1>6. QED
  BY <1>2, <1>4, <1>5, TasksAloneInv

(* A stuttering step keeps the invariant.                                  *)
LEMMA PublishingUnchangedInv ==
    ASSUME PublishingIInv, UNCHANGED publishingVars
    PROVE  PublishingIInv'
<1>1. UNCHANGED <<taskVars, sent, excused, approved, status, due, trail, asked, askedGroup>>
  BY DEF publishingVars, postVars
<1>2. TableTypes' /\ StreamTypes' /\ PublishedWasSent' /\ ScheduledIsApproved'
  BY <1>1, TypesSplit DEF PublishingIInv, TableTypes, StreamTypes, PublishedWasSent,
                          ScheduledIsApproved
<1>3. QED
  BY <1>1, <1>2, TasksAloneInv

(* Every step keeps the invariant.                                         *)
LEMMA PublishingStepInv ==
    ASSUME PublishingIInv, [PublishingNext]_publishingVars
    PROVE  PublishingIInv'
<1>1. ASSUME NEW t \in Tasks, TaskStep(t) \/ CrashTask(t) PROVE PublishingIInv'
  <2>1. ASSUME NEW reply, CallPlatform(t, reply) PROVE PublishingIInv'
    BY <2>1, CallPlatformInv
  <2>2. ASSUME NEW reply, LookupRaises(t, reply) \/ Fetch(t, reply) \/ CrashTask(t)
        PROVE  PublishingIInv'
    BY <2>2, QuietInv
  <2>3. ASSUME NEW reply, LoadPost(t, reply) PROVE PublishingIInv'
    BY <2>3, LoadPostInv
  <2>4. ASSUME NEW reply, CommitOutcome(t, reply) PROVE PublishingIInv'
    BY <2>4, CommitOutcomeInv
  <2>5. ASSUME NEW reply, AckAsked(t, reply) PROVE PublishingIInv'
    BY <2>5, AckAskedInv
  <2>6. ASSUME NEW reply, Approve(t, reply) \/ Delete(t, reply) PROVE PublishingIInv'
    BY <2>6, WriteInv
  <2>7. ASSUME t \in Consumers, NEW reply, ConsumeAsked(t, reply) PROVE PublishingIInv'
    BY <2>7, ConsumeAskedInv
  <2>8. ASSUME t \in Schedulers, NEW reply, SelectDue(t, reply) PROVE PublishingIInv'
    BY <2>8, SelectDueInv
  <2>9. CASE PublishPost(t)
    BY <2>1, <2>2, <2>3, <2>4, <2>9 DEF PublishPost
  <2>10. CASE TaskStep(t) /\ ~PublishPost(t)
    BY <2>2, <2>5, <2>6, <2>7, <2>8, <2>10 DEF TaskStep
  <2>11. QED
    BY <1>1, <2>2, <2>9, <2>10
<1>2. ASSUME NEW r \in Requests, NEW p \in Posts,
             BeginApprove(r, p) \/ BeginDelete(r, p) \/ BeginPublishNow(r, p)
      PROVE  PublishingIInv'
  BY <1>2, BeginInv DEF BeginApprove, BeginDelete, BeginPublishNow
<1>3. QED
  BY <1>1, <1>2, CreatePostInv, OutsideInv, PublishingUnchangedInv DEF PublishingNext

-----------------------------------------------------------------------------
(* The inductive invariant of the publishing service holds.                *)
THEOREM PublishingInvariant == PublishingSpec => []PublishingIInv
<1>1. PublishingIInv /\ [PublishingNext]_publishingVars => PublishingIInv'
  BY PublishingStepInv
<1>2. QED
  BY <1>1, PublishingInitInv, PTL DEF PublishingSpec

(* The variables of the service keep their types; a task holds a job       *)
(* exactly while it works, and an outcome only until it is written.        *)
THEOREM PublishingTyping == PublishingSpec => []PublishingTypeOK
<1>1. PublishingIInv => PublishingTypeOK
  BY DEF PublishingIInv
<1>2. QED
  BY <1>1, PublishingInvariant, PTL

(* However schedulers, consumers and requests interleave on a post, and    *)
(* whatever fails, the table calls it published only if the platform took  *)
(* it.                                                                     *)
THEOREM PublishingPublishedWasSent == PublishingSpec => []PublishedWasSent
<1>1. PublishingIInv => PublishedWasSent
  BY DEF PublishingIInv
<1>2. QED
  BY <1>1, PublishingInvariant, PTL

(* scheduler_loop publishes from a list it read earlier, but never a post  *)
(* that nobody approved.                                                   *)
THEOREM PublishingSchedulerPublishesApproved == PublishingSpec => []SchedulerPublishesApproved
<1>1. PublishingIInv => SchedulerPublishesApproved
  BY DEF PublishingIInv, PublishingTypeOK, WorkIsApproved, SchedulerPublishesApproved, PostOf,
         Tasks
<1>2. QED
  BY <1>1, PublishingInvariant, PTL
-----------------------------------------------------------------------------
(* StatusIsTrue.  Between the platform's answer and the commit it is the   *)
(* task that knows of a success, and a task that loaded the post as        *)
(* published writes nothing at all, so the invariant also says that what   *)
(* it loaded is still in the table or excused.                             *)

LoadedIsTrue ==
    \A t \in Tasks : ppc[t] = "commit" /\ seen[t] = "published" =>
        status[PostOf(t)] = "published" \/ PostOf(t) \in excused

TruthIInv ==
    /\ PublishingTypeOK
    /\ SentIsPublished
    /\ LoadedIsTrue

OthersKeep(t) ==
    \A u \in Tasks : u # t =>
        /\ ppc'[u] = ppc[u] /\ job'[u] = job[u]
        /\ seen'[u] = seen[u] /\ outcome'[u] = outcome[u]

(* The task holds neither an outcome nor a row to write it to.             *)
HoldsNothing(t) == outcome'[t] = "none" /\ ppc'[t] # "commit"

(* What a post was said to be stays said or is excused.                    *)
NothingUnsaid ==
    \A p \in Posts :
        status[p] = "published" \/ p \in excused => status'[p] = "published" \/ p \in excused'

(* A step of one task keeps the invariant if nothing is unsaid that was    *)
(* said, and the task neither drops a success nor loads a row that is not  *)
(* true.                                                                   *)
LEMMA TruthStep ==
    ASSUME TruthIInv, PublishingTypeOK', NEW t \in Tasks, OthersKeep(t), NothingUnsaid,
           \A p \in Posts : sent'[p] > 0 =>
              sent[p] > 0 \/ p \in excused' \/ (outcome'[t] = "success" /\ PostOf(t)' = p),
           outcome[t] = "success" =>
              \/ outcome'[t] = "success" /\ job'[t] = job[t]
              \/ status'[PostOf(t)] = "published" \/ PostOf(t) \in excused',
           ppc'[t] = "commit" /\ seen'[t] = "published" =>
              status'[PostOf(t)'] = "published" \/ PostOf(t)' \in excused'
    PROVE  TruthIInv'
<1>1. TaskTypes
  BY TypesSplit DEF TruthIInv
<1>2. ASSUME NEW p \in Posts, sent'[p] > 0
      PROVE  \/ status'[p] = "published" \/ p \in excused'
             \/ \E u \in Tasks : PostOf(u)' = p /\ outcome'[u] = "success"
  <2>1. CASE ~(sent[p] > 0)
    BY <1>2, <2>1
  <2>2. CASE status[p] = "published" \/ p \in excused
    BY <2>2 DEF NothingUnsaid
  <2>3. ASSUME NEW u \in Tasks, PostOf(u) = p, outcome[u] = "success"
        PROVE  \/ status'[p] = "published" \/ p \in excused'
               \/ \E v \in Tasks : PostOf(v)' = p /\ outcome'[v] = "success"
    <3>1. CASE u = t
      BY <2>3, <3>1 DEF PostOf
    <3>2. CASE u # t
      <4>1. PostOf(u)' = p /\ outcome'[u] = "success"
        BY <2>3, <3>2 DEF OthersKeep, PostOf
      <4>2. QED
        BY <4>1
    <3>3. QED
      BY <3>1, <3>2
  <2>4. QED
    BY <2>1, <2>2, <2>3 DEF TruthIInv, SentIsPublished
<1>3. ASSUME NEW u \in Tasks, ppc'[u] = "commit", seen'[u] = "published"
      PROVE  status'[PostOf(u)'] = "published" \/ PostOf(u)' \in excused'
  <2>1. CASE u = t
    BY <1>3, <2>1
  <2>2. CASE u # t
    <3>1. ppc[u] = "commit" /\ seen[u] = "published" /\ PostOf(u)' = PostOf(u) /\ PostOf(u) \in Posts
      BY <1>1, <1>3, <2>2, PostOfTask DEF OthersKeep, PostOf
    <3>2. QED
      BY <3>1 DEF TruthIInv, LoadedIsTrue, NothingUnsaid
  <2>3. QED
    BY <2>1, <2>2
<1>4. SentIsPublished'
  BY <1>2 DEF SentIsPublished
<1>5. LoadedIsTrue'
  BY <1>3 DEF LoadedIsTrue
<1>6. QED
  BY <1>4, <1>5 DEF TruthIInv

(* A step after which the task holds nothing.                              *)
LEMMA TruthDropped ==
    ASSUME TruthIInv, PublishingTypeOK', NEW t \in Tasks, OthersKeep(t), HoldsNothing(t),
           NothingUnsaid, sent' = sent,
           outcome[t] = "success" => status'[PostOf(t)] = "published" \/ PostOf(t) \in excused'
    PROVE  TruthIInv'
  BY TruthStep DEF HoldsNothing

(* A step that leaves the tasks alone.                                     *)
LEMMA TruthAlone ==
    ASSUME TruthIInv, PublishingTypeOK', UNCHANGED <<taskVars, sent>>, NothingUnsaid
    PROVE  TruthIInv'
<1>1. TaskTypes /\ UNCHANGED <<ppc, job, seen, outcome, sent>>
  BY TypesSplit DEF TruthIInv, taskVars
<1>2. \A t \in Tasks : PostOf(t)' = PostOf(t) /\ PostOf(t) \in Posts
  BY <1>1, PostOfTask DEF PostOf
<1>3. SentIsPublished'
  BY <1>1, <1>2 DEF TruthIInv, SentIsPublished, NothingUnsaid
<1>4. LoadedIsTrue'
  BY <1>1, <1>2 DEF TruthIInv, LoadedIsTrue, NothingUnsaid
<1>5. QED
  BY <1>3, <1>4 DEF TruthIInv

(* Going on with something else leaves the task with nothing in hand, and  *)
(* the others as they are.                                                 *)
LEMMA LeavingHoldsNothing ==
    ASSUME TaskTypes, NEW t \in Tasks, NEW left, NEW pc \in {"idle", "fetch", "call", "ack"},
           \/ NextJob(t, left) \/ Returned(t) \/ Raising(t)
           \/ Leave(t, pc) /\ UNCHANGED <<work, job>>
    PROVE  OthersKeep(t) /\ HoldsNothing(t)
<1>1. ASSUME NEW next, NEW place \in {"idle", "fetch", "call", "ack"}, Leave(t, place),
             job' = job \/ job' = [job EXCEPT ![t] = next]
      PROVE  OthersKeep(t) /\ HoldsNothing(t)
  BY <1>1 DEF TaskTypes, Leave, Proceed, OthersKeep, HoldsNothing
<1>2. ASSUME NEW some, NextJob(t, some) PROVE OthersKeep(t) /\ HoldsNothing(t)
  <2>1. CASE some = {}
    BY <1>1, <1>2, <2>1 DEF NextJob
  <2>2. CASE some # {}
    <3>1. PICK next \in some : /\ job' = [job EXCEPT ![t] = next]
                               /\ Leave(t, IF t \in Consumers THEN "fetch" ELSE "call")
      BY <1>2, <2>2 DEF NextJob
    <3>2. QED
      BY <1>1, <3>1
  <2>3. QED
    BY <2>1, <2>2
<1>3. CASE Leave(t, pc) /\ UNCHANGED <<work, job>>
  BY <1>1, <1>3
<1>4. CASE Returned(t) \/ Raising(t)
  <2>1. CASE t \in Consumers
    BY <1>1, <1>4, <2>1 DEF Returned, Raising
  <2>2. CASE t \notin Consumers
    BY <1>2, <1>4, <2>2 DEF Returned, Raising
  <2>3. QED
    BY <2>1, <2>2
<1>5. QED
  BY <1>2, <1>3, <1>4

(* The steps of a task that works on no outcome and only looks.            *)
LEMMA TruthQuietInv ==
    ASSUME TruthIInv, PublishingTypeOK', NEW t \in Tasks, NEW reply,
           \/ SelectDue(t, reply) \/ ConsumeAsked(t, reply) \/ AckAsked(t, reply)
           \/ Fetch(t, reply) \/ LookupRaises(t, reply)
    PROVE  TruthIInv'
<1>1. TaskTypes
  BY TypesSplit DEF TruthIInv
<1>2. ppc[t] \notin {"load", "commit"} /\ UNCHANGED <<status, sent, excused>>
  BY DEF SelectDue, ConsumeAsked, AckAsked, Fetch, LookupRaises, postVars
<1>3. outcome[t] = "none" /\ NothingUnsaid
  BY <1>1, <1>2 DEF TaskTypes, NothingUnsaid
<1>4. CASE UNCHANGED taskVars
  BY <1>2, <1>3, <1>4, TruthAlone
<1>5. CASE \/ \E left : NextJob(t, left)
           \/ Returned(t) \/ Raising(t)
           \/ Leave(t, "call") /\ UNCHANGED <<work, job>>
  <2>1. OthersKeep(t) /\ HoldsNothing(t)
    BY <1>1, <1>5, LeavingHoldsNothing
  <2>2. QED
    BY <1>2, <1>3, <2>1, TruthDropped
<1>6. QED
  BY <1>4, <1>5 DEF SelectDue, ConsumeAsked, AckAsked, Fetch, LookupRaises

(* Requests begin with nothing in hand.                                    *)
LEMMA TruthBeginInv ==
    ASSUME TruthIInv, PublishingTypeOK', NEW r \in Requests, NEW p \in Posts, NEW operation,
           NEW pc \in {"approve", "delete", "call"}, NEW statuses, Begin(r, p, operation, pc, statuses)
    PROVE  TruthIInv'
<1>1. TaskTypes /\ r \in Tasks
  BY TypesSplit DEF TruthIInv, Tasks
<1>2. ppc[r] = "idle" /\ UNCHANGED <<status, sent, excused>>
  BY DEF Begin, postVars
<1>3. outcome[r] = "none" /\ NothingUnsaid
  BY <1>1, <1>2 DEF TaskTypes, NothingUnsaid
<1>4. OthersKeep(r) /\ HoldsNothing(r)
  BY <1>1 DEF Begin, Proceed, TaskTypes, OthersKeep, HoldsNothing
<1>5. QED
  BY <1>1, <1>2, <1>3, <1>4, TruthDropped

(* An approval or a deletion of a post that has been published meanwhile   *)
(* is excused.                                                             *)
LEMMA TruthWriteInv ==
    ASSUME TruthIInv, PublishingTypeOK', NEW r \in Tasks, NEW reply,
           Approve(r, reply) \/ Delete(r, reply)
    PROVE  TruthIInv'
<1>1. TaskTypes /\ TableTypes /\ PostOf(r) \in Posts
  BY TypesSplit, PostOfTask DEF TruthIInv
<1>2. /\ ppc[r] \in {"approve", "delete"} /\ Returned(r) /\ sent' = sent
      /\ \/ UNCHANGED <<status, excused>>
         \/ /\ \E new : status' = [status EXCEPT ![PostOf(r)] = new]
            /\ excused' = excused \cup TakenBack(PostOf(r))
  BY DEF Approve, Delete
<1>3. outcome[r] = "none" /\ OthersKeep(r) /\ HoldsNothing(r)
  BY <1>1, <1>2, LeavingHoldsNothing DEF TaskTypes
<1>4. NothingUnsaid
  BY <1>1, <1>2 DEF NothingUnsaid, TakenBack, TableTypes
<1>5. QED
  BY <1>2, <1>3, <1>4, TruthDropped

(* What the platform takes the task knows of, unless the reply is lost.    *)
LEMMA TruthCallInv ==
    ASSUME TruthIInv, PublishingTypeOK', NEW t \in Tasks, NEW reply, CallPlatform(t, reply)
    PROVE  TruthIInv'
<1> DEFINE p == PostOf(t)
<1>1. TaskTypes /\ TableTypes /\ p \in Posts
  BY TypesSplit, PostOfTask DEF TruthIInv
<1>2. ppc[t] = "call" /\ status' = status /\ excused \subseteq excused'
  BY DEF CallPlatform, postVars
<1>3. outcome[t] = "none" /\ NothingUnsaid
  BY <1>1, <1>2 DEF TaskTypes, NothingUnsaid
<1>4. CASE Returned(t) /\ sent' = sent
  <2>1. OthersKeep(t) /\ HoldsNothing(t)
    BY <1>1, <1>4, LeavingHoldsNothing
  <2>2. QED
    BY <1>3, <1>4, <2>1, TruthDropped
<1>5. CASE ~(Returned(t) /\ sent' = sent)
  <2>1. /\ sent' = sent \/ (Applied(reply) /\ \E n : sent' = [sent EXCEPT ![p] = n])
        /\ Applied(reply) /\ Raised(reply) => p \in excused'
        /\ Proceed(t, "load", "none", IF Raised(reply) THEN "failure" ELSE "success")
        /\ UNCHANGED <<work, job>>
    BY <1>5 DEF CallPlatform
  <2>2. OthersKeep(t) /\ ppc'[t] = "load" /\ PostOf(t)' = p
        /\ (~Raised(reply) => outcome'[t] = "success")
    BY <1>1, <2>1 DEF Proceed, OthersKeep, TaskTypes, PostOf
  <2>3. \A q \in Posts : sent'[q] > 0 =>
           sent[q] > 0 \/ q \in excused' \/ (outcome'[t] = "success" /\ PostOf(t)' = q)
    <3>1. ASSUME NEW q \in Posts, q # p PROVE sent'[q] = sent[q]
      BY <1>1, <2>1, <3>1 DEF TableTypes
    <3>2. CASE sent' = sent
      BY <3>2
    <3>3. CASE sent' # sent
      BY <2>1, <2>2, <3>1, <3>3
    <3>4. QED
      BY <3>2, <3>3
  <2>4. QED
    BY <1>3, <2>2, <2>3, TruthStep
<1>6. QED
  BY <1>4, <1>5

(* The post is read again, as it is, or the success is forgotten.          *)
LEMMA TruthLoadInv ==
    ASSUME TruthIInv, PublishingTypeOK', NEW t \in Tasks, NEW reply, LoadPost(t, reply)
    PROVE  TruthIInv'
<1>1. TaskTypes /\ PostOf(t) \in Posts
  BY TypesSplit, PostOfTask DEF TruthIInv
<1>2. UNCHANGED <<status, sent>> /\ excused \subseteq excused'
  BY DEF LoadPost, postVars
<1>3. NothingUnsaid
  BY <1>2 DEF NothingUnsaid
<1>4. CASE (Returned(t) \/ Raising(t)) /\ excused' = excused \cup Forgotten(t)
  <2>1. OthersKeep(t) /\ HoldsNothing(t)
    BY <1>1, <1>4, LeavingHoldsNothing
  <2>2. outcome[t] = "success" => PostOf(t) \in excused'
    BY <1>4 DEF Forgotten
  <2>3. QED
    BY <1>2, <1>3, <2>1, <2>2, TruthDropped
<1>5. CASE Proceed(t, "commit", status[PostOf(t)], outcome[t]) /\ UNCHANGED <<work, job>>
  <2>1. /\ OthersKeep(t) /\ outcome'[t] = outcome[t] /\ job'[t] = job[t]
        /\ seen'[t] = status[PostOf(t)] /\ PostOf(t)' = PostOf(t)
    BY <1>1, <1>5 DEF Proceed, OthersKeep, TaskTypes, PostOf
  <2>2. QED
    BY <1>2, <1>3, <2>1, TruthStep
<1>6. QED
  BY <1>4, <1>5 DEF LoadPost

(* The outcome is written, was there when the post was loaded, or is       *)
(* forgotten; a failure takes back what another task wrote.                *)
LEMMA TruthCommitInv ==
    ASSUME TruthIInv, PublishingTypeOK', NEW t \in Tasks, NEW reply, CommitOutcome(t, reply)
    PROVE  TruthIInv'
<1> DEFINE p == PostOf(t)
<1>1. TaskTypes /\ TableTypes /\ p \in Posts
  BY TypesSplit, PostOfTask DEF TruthIInv
<1>2. /\ ppc[t] = "commit" /\ sent' = sent /\ (Returned(t) \/ Raising(t))
      /\ outcome[t] \in {"success", "failure"}
  BY <1>1 DEF CommitOutcome, TaskTypes, Outcome
<1>3. OthersKeep(t) /\ HoldsNothing(t)
  BY <1>1, <1>2, LeavingHoldsNothing
<1>4. NothingUnsaid /\ (outcome[t] = "success" => status'[p] = "published" \/ p \in excused')
  <2>1. CASE NewStatus(t) = seen[t]
    <3>1. status' = status /\ excused' = excused
      BY <2>1 DEF CommitOutcome
    <3>2. outcome[t] = "success" => status[p] = "published" \/ p \in excused
      BY <1>2, <2>1 DEF TruthIInv, LoadedIsTrue, NewStatus
    <3>3. QED
      BY <3>1, <3>2 DEF NothingUnsaid
  <2>2. CASE NewStatus(t) # seen[t] /\ ~(Exist(p) /\ Applied(reply))
    <3>1. status' = status /\ excused' = excused \cup Forgotten(t)
      BY <2>2 DEF CommitOutcome
    <3>2. QED
      BY <3>1 DEF NothingUnsaid, Forgotten
  <2>3. CASE NewStatus(t) # seen[t] /\ Exist(p) /\ Applied(reply) /\ outcome[t] = "success"
    <3>1. status' = [status EXCEPT ![p] = "published"] /\ excused' = excused \ {p}
      BY <2>3 DEF CommitOutcome, NewStatus
    <3>2. QED
      BY <1>1, <3>1 DEF NothingUnsaid, TableTypes
  <2>4. CASE NewStatus(t) # seen[t] /\ Exist(p) /\ Applied(reply) /\ outcome[t] = "failure"
    <3>1. status' = [status EXCEPT ![p] = "failed"] /\ excused' = excused \cup TakenBack(p)
      BY <2>4 DEF CommitOutcome, NewStatus
    <3>2. QED
      BY <1>1, <2>4, <3>1 DEF NothingUnsaid, TakenBack, TableTypes
  <2>5. QED
    BY <1>2, <2>1, <2>2, <2>3, <2>4
<1>5. QED
  BY <1>2, <1>3, <1>4, TruthDropped

(* A task that is killed forgets its success.                              *)
LEMMA TruthCrashInv ==
    ASSUME TruthIInv, PublishingTypeOK', NEW t \in Tasks, CrashTask(t)
    PROVE  TruthIInv'
<1>1. TaskTypes
  BY TypesSplit DEF TruthIInv
<1>2. NextJob(t, {}) /\ UNCHANGED <<status, sent>> /\ excused' = excused \cup Forgotten(t)
  BY DEF CrashTask, postVars
<1>3. OthersKeep(t) /\ HoldsNothing(t)
  BY <1>1, <1>2, LeavingHoldsNothing
<1>4. NothingUnsaid /\ (outcome[t] = "success" => PostOf(t) \in excused')
  BY <1>2 DEF NothingUnsaid, Forgotten
<1>5. QED
  BY <1>2, <1>3, <1>4, TruthDropped

(* Every step keeps the invariant.                                         *)
LEMMA TruthStepInv ==
    ASSUME TruthIInv, PublishingTypeOK', [PublishingNext]_publishingVars
    PROVE  TruthIInv'
<1>1. ASSUME NEW t \in Tasks, TaskStep(t) \/ CrashTask(t) PROVE TruthIInv'
  <2>1. ASSUME NEW reply,
               \/ SelectDue(t, reply) \/ ConsumeAsked(t, reply) \/ AckAsked(t, reply)
               \/ Fetch(t, reply) \/ LookupRaises(t, reply)
        PROVE  TruthIInv'
    BY <2>1, TruthQuietInv
  <2>2. ASSUME NEW reply, Approve(t, reply) \/ Delete(t, reply) PROVE TruthIInv'
    BY <2>2, TruthWriteInv
  <2>3. ASSUME NEW reply, CallPlatform(t, reply) PROVE TruthIInv'
    BY <2>3, TruthCallInv
  <2>4. ASSUME NEW reply, LoadPost(t, reply) PROVE TruthIInv'
    BY <2>4, TruthLoadInv
  <2>5. ASSUME NEW reply, CommitOutcome(t, reply) PROVE TruthIInv'
    BY <2>5, TruthCommitInv
  <2>6. CASE CrashTask(t)
    BY <2>6, TruthCrashInv
  <2>7. CASE TaskStep(t)
    BY <2>1, <2>2, <2>3, <2>4, <2>5, <2>7 DEF TaskStep, PublishPost
  <2>8. QED
    BY <1>1, <2>6, <2>7
<1>2. ASSUME NEW r \in Requests, NEW p \in Posts,
             BeginApprove(r, p) \/ BeginDelete(r, p) \/ BeginPublishNow(r, p)
      PROVE  TruthIInv'
  BY <1>2, TruthBeginInv DEF BeginApprove, BeginDelete, BeginPublishNow
<1>3. ASSUME NEW r, NEW p \in Posts, NEW isDue, NEW reply, CreatePost(r, p, isDue, reply)
      PROVE  TruthIInv'
  <2>1. /\ UNCHANGED <<taskVars, sent, excused>>
        /\ status[p] = "none" /\ status' = [status EXCEPT ![p] = "draft"]
    BY <1>3 DEF CreatePost
  <2>2. NothingUnsaid
    BY <2>1, TypesSplit DEF NothingUnsaid, TruthIInv, TableTypes
  <2>3. QED
    BY <2>1, <2>2, TruthAlone
<1>4. CASE (\E p \in Posts : Ask(p) \/ BecomesDue(p)) \/ UNCHANGED publishingVars
  <2>1. UNCHANGED <<status, sent, excused, taskVars>>
    BY <1>4 DEF Ask, BecomesDue, publishingVars, postVars
  <2>2. QED
    BY <2>1, TruthAlone DEF NothingUnsaid
<1>5. QED
  BY <1>1, <1>2, <1>3, <1>4 DEF PublishingNext

(* Whatever fails, and however schedulers, consumers, approvals, deletions *)
(* and publish-now interleave: the table says published of no post the     *)
(* platform did not take, and of every post it took, unless a task is      *)
(* about to say so or an excuse was met: a lost reply, a success that      *)
(* could not be written, or a task that overwrote what it had not seen.    *)
THEOREM PublishingStatusIsTrue == PublishingSpec => []StatusIsTrue
<1>1. PublishingInit => TruthIInv
  <2> SUFFICES ASSUME PublishingInit PROVE TruthIInv
    OBVIOUS
  <2>1. PublishingTypeOK
    BY PublishingInitInv DEF PublishingIInv
  <2>2. SentIsPublished /\ LoadedIsTrue
    BY DEF PublishingInit, SentIsPublished, LoadedIsTrue
  <2>3. QED
    BY <2>1, <2>2 DEF TruthIInv
<1>2. TruthIInv /\ PublishingTypeOK' /\ [PublishingNext]_publishingVars => TruthIInv'
  BY TruthStepInv
<1>3. PublishedWasSent /\ TruthIInv => StatusIsTrue
  BY DEF TruthIInv, StatusIsTrue
<1>4. QED
  BY <1>1, <1>2, <1>3, PublishingTyping, PublishingPublishedWasSent, PTL DEF PublishingSpec

-----------------------------------------------------------------------------
(* AskIsAcked.  An acknowledgement does something only for an entry that   *)
(* is pending, so the invariant says that what a consumer holds has been   *)
(* delivered; and a consumer that reads more holds nothing.                *)

Delivered == askedGroup.pending \cup askedGroup.acked

HeldIsDelivered == \A c \in Consumers : \A request \in work[c] : request.id \in Delivered

IdleHoldsNothing == \A c \in Consumers : ppc[c] = "idle" => work[c] = {}

AskIInv == PublishingTypeOK /\ HeldIsDelivered /\ IdleHoldsNothing

(* The step of AskIsAcked.                                                 *)
LetsGoAcked ==
    \A c \in Consumers : \A request \in work[c] \ work'[c] :
       \/ request.id \in askedGroup'.acked
       \/ CrashTask(c)
       \/ \E reply \in Replies : Raised(reply) /\ AckAsked(c, reply)

OthersWorkOn(t) == \A u \in Tasks : u # t => work'[u] = work[u] /\ ppc'[u] = ppc[u]

(* A step of one task keeps the invariant if the group forgets nothing,    *)
(* and the task, when it is a consumer, holds what was delivered.          *)
LEMMA AskStep ==
    ASSUME AskIInv, PublishingTypeOK', NEW t \in Tasks, OthersWorkOn(t), Delivered \subseteq Delivered',
           t \in Consumers =>
              /\ \A request \in work'[t] : request.id \in Delivered'
              /\ ppc'[t] = "idle" => work'[t] = {}
    PROVE  AskIInv'
<1>1. \A c \in Consumers : c \in Tasks
  BY DEF Tasks
<1>2. HeldIsDelivered' /\ IdleHoldsNothing'
  BY <1>1 DEF AskIInv, HeldIsDelivered, IdleHoldsNothing, OthersWorkOn
<1>3. QED
  BY <1>2 DEF AskIInv

(* What a task goes on with, and that it stops when nothing is left.       *)
LEMMA NextJobWork ==
    ASSUME TaskTypes, NEW t \in Tasks, NEW left, NextJob(t, left)
    PROVE  /\ work'[t] = left /\ OthersWorkOn(t)
           /\ ppc'[t] = "idle" => left = {}
<1>1. work'[t] = left /\ \A u \in Tasks : u # t => work'[u] = work[u]
  BY DEF NextJob, TaskTypes
<1>2. PICK pc \in {"idle", "fetch", "call"} : Leave(t, pc) /\ (pc = "idle" => left = {})
  BY DEF NextJob
<1>3. ppc'[t] = pc /\ \A u \in Tasks : u # t => ppc'[u] = ppc[u]
  BY <1>2 DEF Leave, Proceed, TaskTypes
<1>4. QED
  BY <1>1, <1>2, <1>3 DEF OthersWorkOn

(* A step of a task that goes on with something else while the group stays *)
(* as it is; a consumer that is not killed holds on to what it has.        *)
LEMMA AskHeldInv ==
    ASSUME AskIInv, PublishingTypeOK', NEW t \in Tasks, askedGroup' = askedGroup,
           \/ Returned(t) \/ Raising(t)
           \/ \E pc \in PublishingPc \ {"idle"} : \E row, result :
                 Proceed(t, pc, row, result) /\ UNCHANGED <<work, job>>
           \/ t \notin Consumers /\ \E left : NextJob(t, left)
    PROVE  AskIInv' /\ LetsGoAcked
<1>1. TaskTypes
  BY TypesSplit DEF AskIInv
<1>2. CASE t \in Consumers
  <2>1. PICK pc \in PublishingPc \ {"idle"} : \E row, result :
           Proceed(t, pc, row, result) /\ UNCHANGED <<work, job>>
    BY <1>2 DEF Returned, Raising, Leave, PublishingPc
  <2>2. work' = work /\ ppc'[t] # "idle" /\ OthersWorkOn(t)
    BY <1>1, <2>1 DEF Proceed, TaskTypes, OthersWorkOn
  <2>3. QED
    BY <1>2, <2>2, AskStep DEF AskIInv, HeldIsDelivered, Delivered, LetsGoAcked
<1>3. CASE t \notin Consumers
  <2>1. OthersWorkOn(t)
    <3>1. CASE \E left : NextJob(t, left)
      BY <1>1, <3>1, NextJobWork
    <3>2. CASE \E pc \in PublishingPc \ {"idle"} : \E row, result :
                  Proceed(t, pc, row, result) /\ UNCHANGED <<work, job>>
      BY <1>1, <3>2 DEF Proceed, TaskTypes, OthersWorkOn
    <3>3. QED
      BY <1>3, <3>1, <3>2 DEF Returned, Raising
  <2>2. AskIInv'
    BY <1>3, <2>1, AskStep DEF Delivered
  <2>3. LetsGoAcked
    BY <1>3, <2>1 DEF LetsGoAcked, OthersWorkOn, Tasks
  <2>4. QED
    BY <2>2, <2>3
<1>4. QED
  BY <1>2, <1>3

(* What a consumer reads is pending from then on.                          *)
LEMMA AskConsumeInv ==
    ASSUME AskIInv, PublishingTypeOK', NEW c \in Consumers, NEW reply, ConsumeAsked(c, reply)
    PROVE  AskIInv' /\ LetsGoAcked
<1> DEFINE ids == Fresh(asked, askedGroup, RequestBatch)
           left == {[id |-> id, post |-> asked.log[id]] : id \in ids}
<1>1. TaskTypes /\ c \in Tasks
  BY TypesSplit DEF AskIInv, Tasks
<1>2. ppc[c] = "idle" /\ askedGroup' = XReadGroup(asked, askedGroup, RequestBatch)
      /\ (UNCHANGED taskVars \/ NextJob(c, left))
  BY DEF ConsumeAsked
<1>3. work[c] = {}
  BY <1>2 DEF AskIInv, IdleHoldsNothing
<1>4. Delivered \subseteq Delivered' /\ ids \subseteq Delivered'
  BY <1>2 DEF XReadGroup, Delivered
<1>5. /\ OthersWorkOn(c)
      /\ \A request \in work'[c] : request.id \in Delivered'
      /\ ppc'[c] = "idle" => work'[c] = {}
  <2>1. CASE UNCHANGED taskVars
    BY <1>3, <2>1 DEF taskVars, OthersWorkOn
  <2>2. CASE NextJob(c, left)
    <3>1. work'[c] = left /\ OthersWorkOn(c) /\ (ppc'[c] = "idle" => left = {})
      BY <1>1, <2>2, NextJobWork
    <3>2. \A request \in left : request.id \in ids
      OBVIOUS
    <3>3. QED
      BY <1>4, <3>1, <3>2
  <2>3. QED
    BY <1>2, <2>1, <2>2
<1>6. AskIInv'
  BY <1>1, <1>4, <1>5, AskStep
<1>7. LetsGoAcked
  BY <1>3, <1>5 DEF LetsGoAcked, OthersWorkOn, Tasks
<1>8. QED
  BY <1>6, <1>7

(* An acknowledgement that is answered is one that was carried out.        *)
LEMMA AskAckInv ==
    ASSUME AskIInv, PublishingTypeOK', NEW c \in Consumers, NEW reply \in Replies,
           AckAsked(c, reply)
    PROVE  AskIInv' /\ LetsGoAcked
<1> DEFINE left == IF Raised(reply) THEN {} ELSE work[c] \ {job[c]}
<1>1. TaskTypes /\ c \in Tasks
  BY TypesSplit DEF AskIInv, Tasks
<1>2. /\ ppc[c] = "ack" /\ NextJob(c, left)
      /\ askedGroup' = IF Applied(reply) THEN XAck(askedGroup, job[c].id) ELSE askedGroup
  BY DEF AckAsked
<1>3. work'[c] = left /\ OthersWorkOn(c) /\ (ppc'[c] = "idle" => left = {})
  BY <1>1, <1>2, NextJobWork
<1>4. job[c] \in work[c] /\ job[c].id \in Delivered
  BY <1>1, <1>2 DEF TaskTypes, AskIInv, HeldIsDelivered
<1>5. Delivered \subseteq Delivered'
  BY <1>2 DEF XAck, Delivered
<1>6. AskIInv'
  <2>1. left \subseteq work[c]
    OBVIOUS
  <2>2. QED
    BY <1>1, <1>3, <1>5, <2>1, AskStep DEF AskIInv, HeldIsDelivered
<1>7. LetsGoAcked
  <2> SUFFICES ASSUME NEW d \in Consumers, NEW request \in work[d] \ work'[d]
               PROVE  \/ request.id \in askedGroup'.acked
                      \/ \E some \in Replies : Raised(some) /\ AckAsked(d, some)
    BY DEF LetsGoAcked
  <2>1. d = c
    BY <1>3 DEF OthersWorkOn, Tasks
  <2>2. CASE Raised(reply)
    BY <2>1, <2>2
  <2>3. CASE ~Raised(reply)
    <3>1. request = job[c] /\ Applied(reply)
      BY <1>3, <2>1, <2>3 DEF Raised, Applied
    <3>2. request.id \in askedGroup'.acked
      BY <1>2, <1>4, <3>1 DEF XAck, Delivered
    <3>3. QED
      BY <3>2
  <2>4. QED
    BY <2>2, <2>3
<1>8. QED
  BY <1>6, <1>7

(* A consumer that is killed gives up what it holds.                       *)
LEMMA AskCrashInv ==
    ASSUME AskIInv, PublishingTypeOK', NEW t \in Tasks, CrashTask(t)
    PROVE  AskIInv' /\ LetsGoAcked
<1>1. TaskTypes
  BY TypesSplit DEF AskIInv
<1>2. work'[t] = {} /\ OthersWorkOn(t) /\ askedGroup' = askedGroup
  BY <1>1, NextJobWork DEF CrashTask
<1>3. AskIInv'
  BY <1>2, AskStep DEF Delivered
<1>4. LetsGoAcked
  BY <1>2 DEF LetsGoAcked, OthersWorkOn, Tasks
<1>5. QED
  BY <1>3, <1>4

(* Every step keeps the invariant and lets requests go acknowledged.       *)
LEMMA AskStepInv ==
    ASSUME AskIInv, PublishingTypeOK', [PublishingNext]_publishingVars
    PROVE  AskIInv' /\ LetsGoAcked
<1>1. ASSUME NEW t \in Tasks, TaskStep(t) PROVE AskIInv' /\ LetsGoAcked
  <2>1. ASSUME NEW reply, \/ CallPlatform(t, reply) \/ LookupRaises(t, reply)
                          \/ LoadPost(t, reply) \/ CommitOutcome(t, reply)
        PROVE  AskIInv' /\ LetsGoAcked
    <3>1. askedGroup' = askedGroup
      BY <2>1 DEF CallPlatform, LookupRaises, LoadPost, CommitOutcome
    <3>2. \/ Returned(t) \/ Raising(t)
          \/ \E pc \in {"load", "commit"} : \E row, result :
                Proceed(t, pc, row, result) /\ UNCHANGED <<work, job>>
      BY <2>1 DEF CallPlatform, LookupRaises, LoadPost, CommitOutcome
    <3>3. QED
      BY <3>1, <3>2, AskHeldInv DEF PublishingPc
  <2>2. ASSUME NEW reply, Fetch(t, reply) PROVE AskIInv' /\ LetsGoAcked
    <3>1. askedGroup' = askedGroup
          /\ \/ Returned(t) \/ Raising(t)
             \/ Proceed(t, "call", "none", "none") /\ UNCHANGED <<work, job>>
      BY <2>2 DEF Fetch, Leave
    <3>2. QED
      BY <3>1, AskHeldInv DEF PublishingPc
  <2>3. ASSUME t \in Schedulers, NEW reply, SelectDue(t, reply) PROVE AskIInv' /\ LetsGoAcked
    <3>1. t \notin Consumers /\ askedGroup' = askedGroup /\ \E left : NextJob(t, left)
      BY <2>3, PublishingAssumption DEF SelectDue
    <3>2. QED
      BY <3>1, AskHeldInv
  <2>4. ASSUME NEW reply, Approve(t, reply) \/ Delete(t, reply) PROVE AskIInv' /\ LetsGoAcked
    <3>1. Returned(t) /\ askedGroup' = askedGroup
      BY <2>4 DEF Approve, Delete
    <3>2. QED
      BY <3>1, AskHeldInv
  <2>5. CASE PublishPost(t)
    BY <2>1, <2>5 DEF PublishPost
  <2>6. CASE ~PublishPost(t)
    BY <1>1, <2>2, <2>3, <2>4, <2>6, AskConsumeInv, AskAckInv DEF TaskStep
  <2>7. QED
    BY <2>5, <2>6
<1>2. ASSUME NEW r \in Requests, NEW p \in Posts,
             BeginApprove(r, p) \/ BeginDelete(r, p) \/ BeginPublishNow(r, p)
      PROVE  AskIInv' /\ LetsGoAcked
  <2>1. PICK pc \in {"approve", "delete", "call"} : \E operation, statuses :
           Begin(r, p, operation, pc, statuses)
    BY <1>2 DEF BeginApprove, BeginDelete, BeginPublishNow
  <2>2. r \in Tasks /\ r \notin Consumers /\ TaskTypes
    BY PublishingAssumption, TypesSplit DEF Tasks, AskIInv
  <2>3. OthersWorkOn(r) /\ askedGroup' = askedGroup
    BY <2>1, <2>2 DEF Begin, Proceed, TaskTypes, OthersWorkOn
  <2>4. AskIInv'
    BY <2>2, <2>3, AskStep DEF Delivered
  <2>5. QED
    BY <2>2, <2>3, <2>4 DEF LetsGoAcked, OthersWorkOn, Tasks
<1>3. CASE UNCHANGED <<taskVars, askedGroup>>
  BY <1>3 DEF AskIInv, HeldIsDelivered, IdleHoldsNothing, Delivered, LetsGoAcked, taskVars
<1>4. QED
  <2>1. ASSUME \/ \E r \in Requests, p \in Posts, isDue \in BOOLEAN, reply \in DatabaseReplies :
                    CreatePost(r, p, isDue, reply)
               \/ \E p \in Posts : Ask(p) \/ BecomesDue(p)
               \/ UNCHANGED publishingVars
        PROVE  UNCHANGED <<taskVars, askedGroup>>
    BY <2>1 DEF CreatePost, Ask, BecomesDue, publishingVars
  <2>2. QED
    BY <1>1, <1>2, <1>3, <2>1, AskCrashInv DEF PublishingNext

(* Whatever becomes of the posts and whichever calls fail, a consumer lets *)
(* go of a publish request only acknowledged, unless it is killed or the   *)
(* acknowledgement fails; for any number of consumers sharing the stream.  *)
THEOREM PublishingAskIsAcked == PublishingSpec => AskIsAcked
<1>1. PublishingInit => AskIInv
  <2> SUFFICES ASSUME PublishingInit PROVE AskIInv
    OBVIOUS
  <2>1. PublishingTypeOK
    BY PublishingInitInv DEF PublishingIInv
  <2>2. HeldIsDelivered /\ IdleHoldsNothing
    BY DEF PublishingInit, HeldIsDelivered, IdleHoldsNothing, Tasks
  <2>3. QED
    BY <2>1, <2>2 DEF AskIInv
<1>2. AskIInv /\ PublishingTypeOK' /\ [PublishingNext]_publishingVars => AskIInv' /\ LetsGoAcked
  BY AskStepInv
<1>3. LetsGoAcked =>
        [\A c \in Consumers : \A request \in work[c] \ work'[c] :
            \/ request.id \in askedGroup'.acked
            \/ CrashTask(c)
            \/ \E reply \in Replies : Raised(reply) /\ AckAsked(c, reply)]_publishingVars
  BY DEF LetsGoAcked
<1>4. QED
  BY <1>1, <1>2, <1>3, PublishingTyping, PTL DEF PublishingSpec, AskIsAcked
=============================================================================
