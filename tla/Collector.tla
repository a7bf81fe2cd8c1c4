----------------------------- MODULE Collector ------------------------------
(***************************************************************************)
(* The collector service (services/collector_service/app/main.py).  Each   *)
(* replica runs two coroutines, a listener for on-demand requests and a    *)
(* periodic round over the active projects.  Both call collect_project,    *)
(* which searches one platform after the other and publishes what is new   *)
(* to mentions:raw.                                                        *)
(*                                                                         *)
(* New is decided per post in two awaits, EXISTS and SETEX of the key      *)
(* dedup:<platform>:<source_id>, before the batch is published in a third; *)
(* the coroutines of all replicas interleave between them.  A post stands  *)
(* for its (platform, source_id); the key does not mention the project.    *)
(*                                                                         *)
(* The two coroutines share the replica's EventBus.  A bus call pings the  *)
(* connection first and, when that fails, reconnects in up to five         *)
(* attempts, during and after which bus._redis may be None; collect_project*)
(* reads bus._redis once, as r, and without it publishes every post, with  *)
(* neither EXISTS nor SETEX.                                               *)
(***************************************************************************)
EXTENDS Faults, SequencesExt

CONSTANTS
    Replicas,       \* collector processes (the autoscaler runs 1 to 5)
    Projects,
    Posts,          \* what the platforms hold
    PlatformOf,     \* the platform of each post
    MaxResults,     \* bound: posts one search returns
    RequestBatch,   \* the default count of bus.consume
    MaxRounds,      \* bound: periodic rounds, all replicas together
    MaxRequests,    \* bound: entries ever added to collection:request
    MaxExpiries     \* bound: dedup keys that expire during the run

Platforms == {PlatformOf[post] : post \in Posts}

ASSUME CollectorAssumption ==
    /\ IsFiniteSet(Replicas)
    /\ PlatformOf \in [Posts -> Platforms]
    /\ RequestBatch \in Nat \ {0}
    /\ {MaxResults, MaxRounds, MaxRequests, MaxExpiries} \subseteq Nat
    /\ "ok" \in Replies
    /\ Replies \subseteq BusReply
    /\ MayCrash \in BOOLEAN

Workers == Replicas \X {"listener", "periodic"}

VARIABLES
    requests,       \* the stream collection:request, of project ids
    requestGroup,   \* its consumer group collector-service
    rawOut,         \* the stream mentions:raw
    claimed,        \* posts whose dedup key exists
    expiries,       \* history: dedup keys that have expired
    rounds,         \* periodic rounds started
    connected,      \* replicas whose bus._redis is not None
    guarded,        \* coroutines whose r is not None in collect_project
    unchecked,      \* history: ids in rawOut published without a look at the keys
    cpc,            \* where each coroutine is
    tasks,          \* projects it has left: messages, or projects of the round
    platforms,      \* platforms left of the current project
    found,          \* raw_mentions of the current platform not examined yet
    events          \* posts of the current platform to publish

(* The bus connection as the collectors see it.                            *)
linkVars == <<connected, guarded, unchecked>>

collectorVars == <<requests, requestGroup, rawOut, claimed, expiries, rounds, linkVars,
                   cpc, tasks, platforms, found, events>>

CollectorPc == {"idle", "load", "collect", "exists", "claim", "publish", "ack"}

Task == [id : Nat, project : Projects]      \* id 0: no message to acknowledge

RawMention == [project : Projects, post : Posts]

CollectorInit ==
    /\ requests = EmptyStream
    /\ requestGroup = NewGroup
    /\ rawOut = EmptyStream
    /\ claimed = {}
    /\ expiries = 0
    /\ rounds = 0
    /\ connected = Replicas
    /\ guarded = {}
    /\ unchecked = {}
    /\ cpc = [w \in Workers |-> "idle"]
    /\ tasks = [w \in Workers |-> {}]
    /\ platforms = [w \in Workers |-> {}]
    /\ found = [w \in Workers |-> << >>]
    /\ events = [w \in Workers |-> << >>]

(* Messages are handled in order; the order of a round is the database's.  *)
IsCurrent(w, task) ==
    task \in tasks[w] /\ \A other \in tasks[w] : task.id <= other.id

-----------------------------------------------------------------------------
Go(w, pc) == cpc' = [cpc EXCEPT ![w] = pc]

(* The for loop over messages or projects goes on without task.            *)
NextTask(w, task) ==
    /\ tasks' = [tasks EXCEPT ![w] = @ \ {task}]
    /\ Go(w, IF tasks'[w] = {} THEN "idle" ELSE "load")

(* collect_project returned, and its r is gone.                            *)
Returned(w, task) ==
    /\ guarded' = guarded \ {w}
    /\ IF w[2] = "listener"
       THEN Go(w, "ack") /\ UNCHANGED tasks
       ELSE NextTask(w, task)

(* The current platform is over, whether it succeeded or its except clause *)
(* logged why not: the next platform, or the end of collect_project.       *)
PlatformOver(w, task) ==
    /\ found' = [found EXCEPT ![w] = << >>]
    /\ events' = [events EXCEPT ![w] = << >>]
    /\ IF platforms[w] = {}
       THEN Returned(w, task)
       ELSE Go(w, "collect") /\ UNCHANGED <<guarded, tasks>>

(* The coroutine is at a call of the bus, which begins by pinging the      *)
(* connection.                                                             *)
AtBus(w) ==
    \/ cpc[w] \in {"publish", "ack"}
    \/ cpc[w] = "idle" /\ w[2] = "listener"

(* _ensure_connected, or an attempt of connect: the ping failed.           *)
LoseConnection(w) ==
    /\ AtBus(w)
    /\ "failed" \in Replies
    /\ w[1] \in connected
    /\ connected' = connected \ {w[1]}
    /\ UNCHANGED <<requests, requestGroup, rawOut, claimed, expiries, rounds, guarded,
                   unchecked, cpc, tasks, platforms, found, events>>

(* An attempt of connect made a client.                                    *)
Reconnect(w) ==
    /\ AtBus(w)
    /\ w[1] \notin connected
    /\ connected' = connected \cup {w[1]}
    /\ UNCHANGED <<requests, requestGroup, rawOut, claimed, expiries, rounds, guarded,
                   unchecked, cpc, tasks, platforms, found, events>>

(* A bus call takes effect only over a connection; it may raise without.   *)
OverBus(w, reply) == Applied(reply) => w[1] \in connected

(* listen_for_requests                                                     *)
ConsumeRequests(w, reply) ==
    LET ids == Fresh(requests, requestGroup, RequestBatch)
    IN  /\ cpc[w] = "idle"
        /\ w[2] = "listener"
        /\ ids # {}
        /\ Applied(reply)
        /\ OverBus(w, reply)
        /\ requestGroup' = XReadGroup(requests, requestGroup, RequestBatch)
        /\ IF Raised(reply)
           THEN UNCHANGED <<cpc, tasks>>
           ELSE /\ tasks' = [tasks EXCEPT ![w] =
                               {[id |-> id, project |-> requests.log[id]] : id \in ids}]
                /\ Go(w, "load")
        /\ UNCHANGED <<requests, rawOut, claimed, expiries, rounds, linkVars, platforms,
                       found, events>>

(* collect_all_active: the projects that are active now.                   *)
StartRound(w, active) ==
    /\ cpc[w] = "idle"
    /\ w[2] = "periodic"
    /\ rounds < MaxRounds
    /\ rounds' = rounds + 1
    /\ tasks' = [tasks EXCEPT ![w] = {[id |-> 0, project |-> p] : p \in active}]
    /\ Go(w, "load")
    /\ UNCHANGED <<requests, requestGroup, rawOut, claimed, expiries, linkVars,
                   platforms, found, events>>

(* The queries of collect_project: the project is active and has active    *)
(* keywords, or there is nothing to do, or they raise.  The listener's     *)
(* handler is around the whole batch, the round's around each project.     *)
(* Without an await after them, r = bus._redis.                            *)
LoadProject(w, task, usable, reply) ==
    /\ cpc[w] = "load"
    /\ IsCurrent(w, task)
    /\ IF Raised(reply)
       THEN /\ IF w[2] = "listener"
               THEN Go(w, "idle") /\ tasks' = [tasks EXCEPT ![w] = {}]
               ELSE NextTask(w, task)
            /\ UNCHANGED <<guarded, platforms>>
       ELSE IF usable
       THEN /\ Go(w, "collect")
            /\ platforms' = [platforms EXCEPT ![w] = Platforms]
            /\ guarded' = IF w[1] \in connected THEN guarded \cup {w} ELSE guarded
            /\ UNCHANGED tasks
       ELSE Returned(w, task) /\ UNCHANGED platforms
    /\ UNCHANGED <<requests, requestGroup, rawOut, claimed, expiries, rounds, connected,
                   unchecked, found, events>>

(* _collect_with_retry returned posts of the platform: with r each is      *)
(* looked up, without it all of them are events.                           *)
Search(w, platform, results) ==
    /\ cpc[w] = "collect"
    /\ platform \in platforms[w]
    /\ results # << >>
    /\ platforms' = [platforms EXCEPT ![w] = @ \ {platform}]
    /\ IF w \in guarded
       THEN Go(w, "exists") /\ found' = [found EXCEPT ![w] = results] /\ UNCHANGED events
       ELSE Go(w, "publish") /\ events' = [events EXCEPT ![w] = results] /\ UNCHANGED found
    /\ UNCHANGED <<requests, requestGroup, rawOut, claimed, expiries, rounds, linkVars, tasks>>

\* Mutant of SearchNothing: no except clause around the platform.
SearchNothingFatal(w, task, platform) ==
    /\ cpc[w] = "collect"
    /\ IsCurrent(w, task)
    /\ platform \in platforms[w]
    /\ platforms' = [platforms EXCEPT ![w] = {}]
    /\ tasks' = [tasks EXCEPT ![w] = {}]
    /\ guarded' = guarded \ {w}
    /\ Go(w, "idle")
    /\ UNCHANGED <<requests, requestGroup, rawOut, claimed, expiries, rounds, connected, unchecked,
                   found, events>>

(* _collect_with_retry returned nothing, or raised at its last attempt.    *)
SearchNothing(w, task, platform) ==
    /\ cpc[w] = "collect"
    /\ IsCurrent(w, task)
    /\ platform \in platforms[w]
    /\ platforms' = [platforms EXCEPT ![w] = @ \ {platform}]
    /\ IF platforms'[w] = {}
       THEN Returned(w, task)
       ELSE UNCHANGED <<guarded, cpc, tasks>>
    /\ UNCHANGED <<requests, requestGroup, rawOut, claimed, expiries, rounds, connected, unchecked,
                   found, events>>

(* The loop over raw_mentions goes on with the posts left, or ends.        *)
AfterPost(w, task, left, toPublish) ==
    IF left = << >> /\ toPublish = << >>
    THEN PlatformOver(w, task)
    ELSE /\ found' = [found EXCEPT ![w] = left]
         /\ events' = [events EXCEPT ![w] = toPublish]
         /\ Go(w, IF left = << >> THEN "publish" ELSE "exists")
         /\ UNCHANGED <<guarded, tasks>>

(* r.exists(dedup_key)                                                     *)
CheckDuplicate(w, task, reply) ==
    /\ cpc[w] = "exists"
    /\ IsCurrent(w, task)
    /\ IF Raised(reply) THEN PlatformOver(w, task)
       ELSE IF Head(found[w]) \in claimed
       THEN AfterPost(w, task, Tail(found[w]), events[w])
       ELSE Go(w, "claim") /\ UNCHANGED <<guarded, tasks, found, events>>
    /\ UNCHANGED <<requests, requestGroup, rawOut, claimed, expiries, rounds, connected, unchecked,
                   platforms>>

\* Mutant of Claim: the key is never set.
ClaimNothing(w, task, reply) ==
    /\ cpc[w] = "claim"
    /\ IsCurrent(w, task)
    /\ IF Raised(reply) THEN PlatformOver(w, task)
       ELSE AfterPost(w, task, Tail(found[w]), Append(events[w], Head(found[w])))
    /\ UNCHANGED <<requests, requestGroup, rawOut, claimed, expiries, rounds, connected, unchecked,
                   platforms>>

(* r.setex(dedup_key, ...), then the event joins events.                   *)
Claim(w, task, reply) ==
    /\ cpc[w] = "claim"
    /\ IsCurrent(w, task)
    /\ claimed' = IF Applied(reply) THEN claimed \cup {Head(found[w])} ELSE claimed
    /\ IF Raised(reply) THEN PlatformOver(w, task)
       ELSE AfterPost(w, task, Tail(found[w]), Append(events[w], Head(found[w])))
    /\ UNCHANGED <<requests, requestGroup, rawOut, expiries, rounds, connected, unchecked, platforms>>

(* bus.publish_batch                                                       *)
PublishFound(w, task, reply) ==
    /\ cpc[w] = "publish"
    /\ IsCurrent(w, task)
    /\ OverBus(w, reply)
    /\ IF Applied(reply)
       THEN rawOut' \in XAdd(rawOut, [i \in DOMAIN events[w] |->
                                   [project |-> task.project, post |-> events[w][i]]])
       ELSE UNCHANGED rawOut
    /\ unchecked' = IF w \in guarded THEN unchecked
                    ELSE unchecked \cup (Len(rawOut.log) + 1 .. Len(rawOut'.log))
    /\ PlatformOver(w, task)
    /\ UNCHANGED <<requests, requestGroup, claimed, expiries, rounds, connected, platforms>>

(* bus.ack: if it raises, the rest of the batch is abandoned.              *)
AckRequest(w, task, reply) ==
    /\ cpc[w] = "ack"
    /\ IsCurrent(w, task)
    /\ OverBus(w, reply)
    /\ requestGroup' = IF Applied(reply) THEN XAck(requestGroup, task.id) ELSE requestGroup
    /\ IF Raised(reply)
       THEN Go(w, "idle") /\ tasks' = [tasks EXCEPT ![w] = {}]
       ELSE NextTask(w, task)
    /\ UNCHANGED <<requests, rawOut, claimed, expiries, rounds, linkVars, platforms,
                   found, events>>

(* A crash ends both coroutines of a replica; a new process connects before*)
(* it starts them.                                                         *)
CrashCollector(r) ==
    /\ MayCrash
    /\ \E w \in Workers : w[1] = r /\ cpc[w] # "idle"
    /\ connected' = connected \cup {r}
    /\ guarded' = {w \in guarded : w[1] # r}
    /\ cpc' = [w \in Workers |-> IF w[1] = r THEN "idle" ELSE cpc[w]]
    /\ tasks' = [w \in Workers |-> IF w[1] = r THEN {} ELSE tasks[w]]
    /\ platforms' = [w \in Workers |-> IF w[1] = r THEN {} ELSE platforms[w]]
    /\ found' = [w \in Workers |-> IF w[1] = r THEN << >> ELSE found[w]]
    /\ events' = [w \in Workers |-> IF w[1] = r THEN << >> ELSE events[w]]
    /\ UNCHANGED <<requests, requestGroup, rawOut, claimed, expiries, rounds, unchecked>>

(* The TTL of a dedup key runs out.                                        *)
ExpireClaim(post) ==
    /\ expiries < MaxExpiries
    /\ post \in claimed
    /\ claimed' = claimed \ {post}
    /\ expiries' = expiries + 1
    /\ UNCHANGED <<requests, requestGroup, rawOut, rounds, linkVars, cpc, tasks,
                   platforms, found, events>>

(* The gateway asks for a project to be collected.                         *)
Request(p) ==
    /\ Len(requests.log) < MaxRequests
    /\ requests' \in XAdd(requests, <<p>>)
    /\ UNCHANGED <<requestGroup, rawOut, claimed, expiries, rounds, linkVars, cpc, tasks,
                   platforms, found, events>>

Results(platform) ==
    SeqOf({post \in Posts : PlatformOf[post] = platform}, MaxResults)

(* One step of a coroutine that the search APIs and Redis let it take.     *)
CollectorStep(w) ==
    \/ LoseConnection(w) \/ Reconnect(w)
    \/ \E reply \in Replies : ConsumeRequests(w, reply)
    \/ \E platform \in platforms[w] :
          \/ \E results \in Results(platform) : Search(w, platform, results)
          \/ \E task \in tasks[w] : SearchNothing(w, task, platform)
    \/ \E task \in tasks[w], reply \in Replies :
          \/ \E usable \in BOOLEAN : LoadProject(w, task, usable, reply)
          \/ CheckDuplicate(w, task, reply)
          \/ Claim(w, task, reply)
          \/ PublishFound(w, task, reply)
          \/ AckRequest(w, task, reply)

(* What happens to the coroutines from outside.                            *)
CollectorEvents ==
    \/ \E p \in Projects : Request(p)
    \/ \E post \in Posts : ExpireClaim(post)
    \/ \E r \in Replicas : CrashCollector(r)
    \/ \E w \in Workers, active \in SUBSET Projects \ {{}} : StartRound(w, active)

CollectorNext ==
    \/ CollectorEvents
    \/ \E w \in Workers : CollectorStep(w)

CollectorSpec == CollectorInit /\ [][CollectorNext]_collectorVars

-----------------------------------------------------------------------------
(* Properties.                                                             *)

CollectorTypeOK ==
    /\ requests \in StreamOf(Projects)
    /\ requestGroup \in Group
    /\ rawOut \in StreamOf(RawMention)
    /\ claimed \in SUBSET Posts
    /\ expiries \in 0 .. MaxExpiries
    /\ rounds \in 0 .. MaxRounds
    /\ connected \subseteq Replicas
    /\ guarded \subseteq Workers
    /\ unchecked \subseteq 1 .. Len(rawOut.log)
    /\ cpc \in [Workers -> CollectorPc]
    /\ tasks \in [Workers -> SUBSET Task]
    /\ platforms \in [Workers -> SUBSET Platforms]
    /\ found \in [Workers -> Seq(Posts)]
    /\ events \in [Workers -> Seq(Posts)]
    /\ \A w \in Workers : events[w] # << >> => cpc[w] \in {"exists", "claim", "publish"}

(* EXISTS and SETEX are not atomic, so a post can be published more than   *)
(* once, but never more often than there are coroutines collecting, and    *)
(* that much again for each key that expires, whatever crashes or fails.   *)
(* Not counted is what a coroutine published that began with its project   *)
(* while the bus of its replica had no connection: it looks at no key.     *)
OnePublishPerWorker ==
    \A post \in Posts :
        Cardinality({i \in Ids(rawOut) \ unchecked : rawOut.log[i].post = post})
            <= Cardinality(Workers) * (1 + expiries)

(* A failing platform, project or Redis call never costs a periodic round  *)
(* more than the platform or the project it happened in.                   *)
FailureIsContained ==
    [][\A w \in Workers :
          w[2] = "periodic" /\ ~CrashCollector(w[1])
          => /\ Cardinality(tasks[w] \ tasks'[w]) <= 1
             /\ Cardinality(platforms[w] \ platforms'[w]) <= 1
             /\ ~(tasks[w] \subseteq tasks'[w]) => platforms'[w] = {}]_collectorVars

(* The project has the post in mentions:raw, or a coroutine is about to    *)
(* publish it for that project.                                            *)
OnItsWay(project, post) ==
    \/ \E i \in Ids(rawOut) : rawOut.log[i] = [project |-> project, post |-> post]
    \/ \E w \in Workers :
          /\ \E i \in DOMAIN events[w] : events[w][i] = post
          /\ \E task \in tasks[w] : IsCurrent(w, task) /\ task.project = project

(* "Skip duplicates using Redis-based dedup" (collector_service/app/main.py*)
(* :93): a post is skipped only if it is one, "one mention per (project,   *)
(* source, platform)" (shared/models.py:311).                              *)
SkippedIsDuplicate ==
    [][\A w \in Workers : \A task \in tasks[w] :
          CheckDuplicate(w, task, "ok") /\ Head(found[w]) \in claimed
          => OnItsWay(task.project, Head(found[w]))]_collectorVars
=============================================================================
