# KhushFus: a verification development

KhushFus is a social-listening platform: collectors search social networks for
mentions of a project's keywords, an analyzer adds sentiment and entities, a
query service stores the result in PostgreSQL and OpenSearch, and around that
pipeline some fifteen services alert, report, export, publish and administer.
They are asyncio processes that talk through Redis streams with consumer groups
and share one database. No lock, and no database transaction, covers the calls
of one operation to Redis, the database and an external platform. What can go
wrong is therefore mostly *between* two awaits: another coroutine, another
replica, a crash, or an exception from a call that was carried out all the same.

Paths below are relative to the repository root.

## 1. Inventory

### The bus and the pipeline

| Component | State | Operations | Hard behaviour | What makes it correct |
|---|---|---|---|---|
| Event bus, `shared/events.py` | streams with approximate MAXLEN 100 000, consumer groups with a pending list, dead-letter streams | `publish`, `publish_batch`, `consume` (only `>`), `ack`, `move_to_dlq`, `reprocess_dlq`, `consume_with_retry` | a call may be applied and raise; entries are trimmed whether consumed or not; nothing reads the pending list again; `move_to_dlq` and `reprocess_dlq` are two round trips each | an entry is dealt to one consumer once; what is not handled can still be found |
| Circuit breaker, `shared/circuit_breaker.py` | state, failure count, time of the last failure, half-open permit | `call` | the lock is not held while the protected call runs, so outcomes arrive in states they were not admitted in | half-open is always settled; it recovers |
| Collector service | dedup keys in Redis, two coroutines per replica that share one bus connection | on-demand listener, periodic round, `collect_project` | EXISTS, SETEX and XADD are three awaits; one coroutine finds no connection while the other reconnects, and checks nothing; a failing platform, project or call in the middle | duplicates of what was checked bounded; a failure costs one platform or project; only duplicates are skipped |
| Platform collectors, `src/collectors/` | what a search has returned and seen so far | `collect` of twenty platforms | requests that follow from answers; dates with and without a zone; some loops outside any `try` | a failure or a bad item costs no more than its answer |
| Analyzer service | a batch: to analyse, to acknowledge, failed | `process_loop` | publish, acknowledge and dead-letter are apart; the outer handler abandons the batch | forwarded at most once, never forwarded and dead-lettered, nothing acknowledged without a trace |
| Query service | the `mentions` table, the OpenSearch index | `process_loop`, `store_mention` | SELECT, INSERT and index are apart; any exception dead-letters the entry | stored once, only stored mentions searchable, nothing acknowledged without a trace |
| Gateway, direct collection | the same table | `POST /projects/{id}/collect`, `run_direct_collection` | one commit for a whole run, after a look at a table others write | a loss has one of few reasons |
| Single-process worker | its own schema, without the unique key | two Celery tasks, `collect_for_project` | one session for all platforms that nothing rolls back; overlapping tasks | a loss has one of few reasons |

### The services around it

| Component | State | Operations | Hard behaviour | What makes it correct |
|---|---|---|---|---|
| Notification | counters in a replica's memory, `alert_logs` | consumer; rules; webhook, Slack, email with retries | counters grow before the first await and stay when the entry is left pending; each alert is committed before the next rule | who is notified has a logged alert; a mention counts once |
| Enrichment | scores in the row, dedup keys with a TTL | consumer, `detect_bot` | key looked up and set around the work; acknowledged in a `finally` | every repetition has a reason; a key means the work was done |
| Media | media columns of the row | consumer; image, video, audio | the result is announced before the row is updated, and every step may fail | the row holds what was announced |
| Report | `reports`, files, `reports:ready` | consumer, generators, hourly loop | a transient error leaves the request pending, any other acknowledges it | an acknowledged request that can be answered was |
| Scheduler | `workflows`; report schedules in memory | workflow CRUD, consumer, schedule CRUD, `report_scheduler_loop` | a definition changes between reading and counting; `flag_mention` races the query service; five-minute windows polled every five minutes plus the work | counts add up; one request per window |
| Export | export jobs, files, integrations with `last_sync_at` | job request and consumer, four formats; sync to five platforms | PROCESSING is committed outside the `try`; a sync takes 1000 rows and then moves `last_sync_at` to its end | a job ends; what a sync leaves out has a reason |
| Audit | audit log, retention policies | consumer, retention in three forms, GDPR purge | transactions at READ COMMITTED that delete and anonymise each other's rows; policies read at the start of a round | only expired rows are deleted; a purged user is forgotten |
| Publishing | scheduled posts, audit stream | create, approve, delete, publish-now; scheduler loop; consumer; `publish_post` | nobody claims a post; the row is read again only after the platform was called; two database calls bind datetimes the driver refuses | the table agrees with the platform; only approved posts are scheduled; a request taken is acknowledged; a due post leaves the schedule |
| Rate limiter | a sorted set per platform and endpoint, its TTL | `acquire` | count, add and expire are three round trips; the key may expire in between | a window's grants exceed the quota by no more than the concurrency explains |
| Identity | accounts; refresh sessions and SSO states in Redis | register, login, refresh, logout, revoke-all, password change, SSO | check, revoke and create are separate round trips, SCAN is many | a revoked session stays revoked |
| Tenant | organisation, plan, members, roles, API keys, usage | CRUD, invitations, keys, usage | limits are counted before they are used; usage is read, incremented and written back | limits exceeded by no more than the concurrency explains |
| Realtime | WebSocket connections, SSE queues of bounded size, a Redis subscriber | connect, broadcast, heartbeat, subscribe, reconnect | sends await while connections come and go; a full queue drops | clients are served, with the newest events |
| Idempotency middleware, request deduplication | cached responses, SET NX sentinels | look-up, claim and store around a handler | check-then-act; keys expire or are spoilt; Redis fails | a request is processed once; a repetition has a reason |

`PROJECT.json` lists every component with its status, and every hazard with its line
and the properties that are about it.

**How they interact.** Collectors publish to `mentions:raw`, which the analyzer's
group consumes; the analyzer publishes to `mentions:analyzed`, which the query
service, notification and the scheduler's workflows consume, each in a group of its
own. The scheduler and the gateway publish `reports:request`. The gateway asks for a
collection on `collection:request` and collects by itself when the bus refuses. Export asks itself on `export:request`. Identity, tenant and publishing publish
`audit:log`. Nobody in the repository publishes `media:analyze`, `enrichment:request` or
`publish:request`: their consumers are modelled against an environment that does. All
of them share tables: retention and purges delete what others wrote.

## 2. Modules

| Module | Models | Proofs |
|---|---|---|
| `StreamGroup` | Redis streams and groups as `EventBus` uses them: values only | |
| `Faults` | the outcomes of a call and the crashes around the pipeline | |
| `CircuitBreaker` | `CircuitBreaker.call`, its two critical sections and the calls between them | `CircuitBreakerProofs` |
| `Analyzer`, `QueryStore`, `Collector` | the three services of the pipeline, every await an action | `AnalyzerProofs`, `CollectionProofs` |
| `MentionDelivery` | what the pipeline promises, with no streams or replicas | |
| `MentionPipeline` | the three services around their two streams; refines `MentionDelivery` | `PipelineProofs` |
| `PlatformSearch` | `collect` of the twenty platform collectors and `_collect_with_retry` | `SearchProofs` |
| `DirectCollection`, `TaskCollection` | the gateway's direct collection; the Celery tasks | `HandlerProofs` |
| `ConsumerLoop` | the loop that the other consumers share: a batch, one handler per entry, its acknowledgement, a crash | `ConsumerProofs` |
| `Media`, `Enrichment`, `Notification`, `Reports`, `Workflows`, `ExportJobs`, `AuditTrail` | the handler of one consumer each, with the service's endpoints and loops | `ConsumerProofs` |
| `DeadLetters` | `consume_with_retry`, `move_to_dlq`, `reprocess_dlq` of the bus itself | `ConsumerProofs` |
| `ReportSchedule` | the two loops that make periodic reports | `ConsumerProofs` |
| `Consumers` | the ten modules above as one specification, explored service by service | `ConsumerProofs` |
| `Publishing` | the life of a scheduled post | `PublishingProofs` |
| `Handlers` | HTTP requests served concurrently: one record per request, from round trip to round trip | |
| `Sessions`, `Tenancy`, `IntegrationSync`, `Realtime`, `Idempotency` | the handlers of identity, tenant, export (syncs), realtime, and the two utilities | `HandlerProofs` |
| `RateLimiter` | `SlidingWindowLimiter.acquire` on one key | `HandlerProofs` |
| `HandlerServices` | the modules of request handlers, the limiter, the searches and the direct collections as one specification, explored service by service | `HandlerProofs` |
| `MC*` | instances for TLC; see section 3 | |

**How code becomes actions.** A step from one await to the next is one action,
because asyncio switches only there; a step that begins by awaiting a reply takes
the reply as a parameter. A Redis or database call has three outcomes
(`BusReply`): `ok`, `failed` (not done, raises) and `lost` (done, and raises). The
`except` and `finally` clauses around the await decide what the action does with
them. Where a coroutine is in its code is a program counter (`apc`, `qpc`, `cpc`, `ppc`,
`phase`, `place`, the field `at` of a request) whose values are named after the call
that comes next. A crash resets a process's local variables and nothing else. Names
follow the source where TLA+ allows it.

**State.** In the pipeline: `raw`, `analyzed` and `requests` are the streams;
`rawGroup`, `storeGroup` and `requestGroup` the groups; `rawDlq` and `analyzedDlq`
the dead-letter streams; `rows` and `indexed` the table and the index; `claimed`
the dedup keys; `connected` says which replicas' `bus._redis` is not None and `guarded`
which coroutines found it so when they read it (`r`); the rest are local variables of the loops (`todo`, `good`, `bad` are
`messages`, `ack_ids` and `failed_msgs`). In `RateLimiter`: `zset` and `ttl` are the
key, `started` and `mine` the caller's `now` and `member`. In `Publishing`: `status`,
`due` and `approved` are columns of `scheduled_posts`, `excused` a history variable, `seen` the status in the ORM
object a task holds, which decides what its commit writes. In the consumers:
`stream`, `group`, `place` and `todo` are the loop's, the other variables the tables,
keys and result streams the handler touches, and per-replica local variables. In the
handlers: `request[p]` is a request in flight with what its coroutine has read;
tables are sets of records, a Redis key is an element of a set. A table that has one
row at most (an organisation, an integration) is a set of at most one record.
In `PlatformSearch`: a collect method is an *agenda*, the list of requests still to be
made; an action handles one answer, and may put the requests that follow from it in
front. Variables called *history* in their comment (`excused`, `unchecked`, `revoked`, `peak`,
`fresh`, `due`, `inForce`, `lapses` ...) record the past for a property and influence
nothing.

**Abstractions.** Mentions, posts and projects are model values or small numbers. A bus call pings its connection first, so a coroutine at such a call may find it
lost, make it again, or give up, before the call is carried out. What
an NLP model, a search API or a social platform answers is an arbitrary choice. A
mention of the pipeline stands for its (project, source id, platform), the table's
unique key, so a malformed one is a set given as a constant; in `DirectCollection`
name and platform are apart, because the code compares the name alone. An item of a
platform's answer is what the code asks of it: does its text match, when was it
published (new, old, undated), has it the shape the code expects. A transaction at
READ COMMITTED is one step per statement that others may come between, and rows it
has written are locked until it ends. Redis SCAN returns every key that is there
throughout and any of the others. Clocks count ticks; windows are multiples of them.

## 3. Runs

Components that share no state are explored in one run, one after the other:
the initial state chooses a `service`, and every step belongs to the service
chosen (`Only(s)` in `Consumers` and `HandlerServices`). No behaviour of a service is lost,
for none reads what another one writes in these modules; those that do interact are
composed in `MentionPipeline` (three services and two streams), `Publishing` (scheduler, consumer and
requests on one table), `ReportSchedule` (report and scheduler service), `AuditTrail`
(consumer, rounds and purges), `Workflows` (consumers, PATCH requests and the query
service's insert) and `DirectCollection` (direct runs and the query service's insert).

| Run | Instance | Shows |
|---|---|---|
| `liveness` | pipeline: both coroutines of a collector, 1 analyzer, 1 query replica, an expiring dedup key, no faults, fair; breaker: 3 callers, threshold 2, timeout 2 ticks, fair | every mention is stored or dead-lettered, stored ones become searchable; half-open has a probe, is settled by whatever call ends, and the breaker recovers with its dependency |
| `services_faults` | collector (2 coroutines and a connection that comes and goes, 2 projects, 2 platforms, 1 round, 1 request), analyzer (2 replicas, 4 entries, batches of 2), query service (2 replicas, 2 mentions of which one malformed, 3 entries); trimming at 2, crashes, lost and failed calls | duplicates are bounded, a failure is contained; `ForwardedAtMostOnce`, `NeverForwardedAndDead`, `AckedIsAccountedFor`; `StoredOnce`, `AckedIsStoredOrDead` |
| `pipeline_faults` | 2 collectors, 1 analyzer, 1 query replica, 2 posts, the same faults and expiring dedup keys | the composition implements `MentionDelivery` |
| `publishing_faults` | scheduler, consumer and one request at a time, a post (a reply on Twitter) and one that no publisher takes, 2 publish requests, every fault and crashes | `StatusIsTrue`, `SchedulerPublishesApproved`, `AskIsAcked` |
| `consumers` | the eight services around the pipeline and the bus's retry loop: 2 replicas, 2 entries (3 for enrichment), batches of 2, trimming at 1, crashes, lost and failed calls; PATCH, purge, retention, clock and operator steps in between | below |
| `handlers` | 2 requests, tasks or callers at a time, every call may be lost or fail; all 20 collectors against 7 answers with good, bad, old, undated and irrelevant items | below |
| `analyzer_crash` | 1 replica that may crash, fair | **violated**: the analyzer is not at-least-once |
| `collector_projects` | 2 projects that match one post | **violated**: the second project never gets it |
| `publishing_twice` | two publish-now requests | **violated**: one post is sent twice |
| `publishing_due` | one scheduler on the default database driver, nothing else fails, fair | **violated**: a due post is never published |
| `idempotency_once` | two requests with one key, nothing fails | **violated**: the handler runs twice |
| `search_since` | all collectors, naive and no `since` | **violated**: fresh posts are not returned |

What `consumers` and `handlers` establish, beside the conjunction of the modules' type
invariants:

| Property | Module | In words |
|---|---|---|
| `MediaRowWasAnnounced` | `Media` | what a row holds was on `media:results` first |
| `RepeatIsExplained` | `Enrichment` | one result per mention and replica, and one more for each key that expired or was never set; a key means scores in the row and an announced result |
| `AlertIsJustified` | `Notification` | a notification has its row in `alert_logs`; its numbers count delivered mentions, each once, in one replica's memory |
| `ReportRequestsAnswered` | `Reports` | an acknowledged request that can be answered has its report and its announcement |
| `ExecutionsAddUp` | `Workflows` | a workflow's count is the number of runs the database counted, whatever PATCH and replicas do meanwhile |
| `ExportsSettled` | `ExportJobs` | a job whose request was taken ends, unless a fault struck where nothing answers it; a completed job has its file |
| `OncePerWindow` | `ReportSchedule` | at most one report (one default request) per project and hour and loop, and one more for each time the loop started anew, after an error or because its process was killed |
| `PurgedIsForgotten`, `DeletedWasExpired` | `AuditTrail` | a purge reaches what it found; a deleted row was expired under a policy in force during the round |
| `NothingLostByTheBus` | `DeadLetters` | what was published is handled, on the stream, pending or dead-lettered, or was trimmed; reprocessing loses nothing |
| `RevokedStaysRevoked` | `Sessions` | what a logout, password change, revoke-all or refresh retired does not come back |
| `LimitsHold` | `Tenancy` | members beyond the limit are bounded by the requests in flight and those who join unchecked; nobody is overcharged |
| `MissedIsExplained` | `IntegrationSync` | a mention before `last_sync_at` was pushed or left out for one of five reasons |
| `ClientsAreServed` | `Realtime` | an SSE queue is a gapless end of what was aired; a registered socket has a handler to let it go |
| `RepeatedForAReason` | `Idempotency` | a second run for a key comes of a fault, or of a look-up while the first run was under way (a disagreement with the docstring, see `idempotency_once`); request_dedup rules the latter out |
| `KeyBounded`, `GrantsBounded` | `RateLimiter` | quota plus concurrency bounds the key; four bounds the grants of a window (two callers, quota 1) |
| `SearchLosesOnlyItsOwn` | `PlatformSearch` | every request is made, what was good before a bad item is returned; only Facebook and Mastodon raise |
| `DirectLossIsExplained` | `DirectCollection` | a run that was not spoilt, raced or hit by a fault stores each post it found |
| `TaskLossIsExplained` | `TaskCollection` | a post that was found is stored unless its session had broken or two of its rows made it so |

Many of these say "...is explained": the code does not promise more, and the property
states exactly the circumstances under which it does less. A loss outside them is an error.

**Bounds.** `Max*` constants end the inputs; `MaxSent`, `CountCap`, `MaxMessages` and
`MaxHandled` stop counters that are only compared with smaller numbers. Two replicas and
batches of two are the least with which an entry can be held by one replica while the
other takes the next, and with which a batch can be abandoned in the middle. Enrichment needs three
requests for one mention, one more than replicas, to be able to exceed its bound. The
collector of `services_faults` has one round and one request, which is one collection for each of its two
coroutines, and no key expires there: a third collection with a connection that comes and goes is
beyond what one run can explore, expiring keys are explored in the pipeline, and the bound with
expiries is a theorem. `MaxLen`
below the number of entries lets a pending entry be trimmed. The clock of `IntegrationSync` has
days for units: its first sync looks back to the start of the day (`DayTicks` = 0), and the second day
leaves mentions of the first behind. Two requests at a time are
the least that race; each of the races found needs two. The limiter needs five members to be
able to exceed its bound of four grants, and a clock that outlives window and slack so
that the key expires while calls are in flight. `SyncLimit` 2 and `SyncBatch` 1 let a sync
leave something out and fail between batches. `QueueSize` 2 and `MaxErrors` 2 let a queue
drop and the subscriber give up. A period of three ticks with a window of two and a retry
of one lets a round be entered, repeated and missed within one hour. Two targets (keywords,
sources), answers of up to two items and a cap of three reach every branch of the
collectors: the next page, the cap, the fallback, an item seen before.
`CHECK_DEADLOCK FALSE` is set where the inputs are bounded and the system stops once they
are used up. Symmetry is used in safety runs only: over replicas, projects, and the two posts of
`services_faults`, each exchanged together with its platform. `publishing_faults` looks at states through a
VIEW that leaves out the trail of audit events, which no guard and no property of that run reads.

**Fairness.** Weak fairness of each coroutine's next step: the loops return only at
shutdown and a container that ends is restarted. Nothing obliges the outside: new
mentions, rounds, requests, expiring keys, crashes and faults are never owed. The scheduler of
`publishing_due` keeps going round. The
breaker adds that time passes, that some task keeps calling (the services retry in
their loops), and that an awaited call ends (the HTTP clients have timeouts). The
pipeline's liveness excludes failing Redis and database calls, since a loop that fails
forever makes no progress, but not failing analyses and searches. The
consumers and handlers have no liveness property of their own: with a crash or a raised call their
entries may stay pending for ever (`analyzer_crash` shows it for the loop they share),
and without one they end by the shape of the handler.

**Mutants.** For every property `PROJECT.json` names a faulty variant of one
operation, defined next to it, with which TLC finds the property violated.

## 4. What the violated runs and the modelling found

Checked, each with the line of the repository it contradicts (`PROJECT.json`, findings):

- `analyzer_crash`: `consume` reads `>` only and nothing claims pending entries, so a
  batch given to a replica that crashes is lost, although the analyzer says
  "at-least-once delivery" (`services/analyzer_service/app/main.py:164`).
- `collector_projects`: the dedup key is `dedup:{platform}:{source_id}`, without the
  project, although the table keeps one mention per (project, source, platform).
- `publishing_twice`: two publish-now requests, or one and the consumer, send the same
  post, although publish-now refuses a published one (`:790`). On SQLite, where its SELECT
  works, the scheduler of any replica does so too.
- `publishing_due`: `scheduled_at` has no time zone (`shared/models.py:497`) and the scheduler compares it
  with `datetime.now(timezone.utc)` (`main.py:427`). asyncpg, the default driver, refuses to
  bind that; every round ends there and a due post is never published, although the service
  "checks for due posts and publishes them" (`main.py:7`).
- `idempotency_once`: nothing marks a key while its first request is processed, so an
  overlapping duplicate runs the handler again, although the module promises "at most
  once" and "without re-executing the handler" (`shared/idempotency.py:4`).
- `search_since`: the services give collectors a naive `since`; a collector that builds
  aware dates, as `src/collectors/base.py:68` asks, raises `TypeError` on comparing
  them and loses what follows in that answer.

Seen while modelling, not among the runs:

- *Pipeline.* Both coroutines of a collector share `EventBus._redis`, which is None while one of
  them reconnects (`shared/events.py:334`, `:353`). `collect_project` reads it once (`main.py:79`) and, if
  it is None, publishes everything it finds with neither EXISTS nor SETEX; `OnePublishPerWorker`
  does not count what was published so, and nothing in the collector bounds it. A late failure reopens a half-open circuit while its probe is in flight,
  and the next timeout admits a second probe. The dedup key is set before
  `publish_batch`; when that raises, the post counts as a duplicate for 24 hours. The
  query service logs that a transient error "will be retried on next consume" (`:189`)
  and dead-letters the entry; a failed `es.index` is not repeated, because a later
  copy is a duplicate. An aware `published_at`, or a `source_id` over 255 characters,
  is refused by the table's columns.
- *Bus.* `consume_with_retry` expects XAUTOCLAIM and a delivery count
  (`shared/events.py:549`), but `consume` reads `>` only and nothing increments
  `_retry_count`.
- *Collectors.* GDELT's fallback also runs when all that full-text search found was
  known; TikTok and Reddit take an undated item for one of 1970.
- *Direct and task collection.* One post without a `source_id`, or refused by the table,
  loses a direct run's whole batch; a namesake on another platform is dropped; a publish
  whose reply is lost starts both modes. In the single-process schema nothing is unique:
  overlapping tasks store a post twice, and from then on `scalar_one_or_none` raises.
- *Publishing.* `approve_post` and `delete_post` check the status and write later
  without repeating the check (the publication overwritten so is an excuse of `StatusIsTrue`). A post
  for a platform without a publisher stays due. The commit of a success binds an aware
  `published_at` (`main.py:380`) and is refused like the scheduler's SELECT: with asyncpg no
  post is ever marked published, so that it can be published again and again. "Emits audit
  events on every publish action" (`main.py:11`) does not hold where the row is gone, its
  read or the commit fails (with asyncpg, after every success), the service is killed, or
  the bus refuses the event; no property claims it.
- *Consumers.* Notification says a failed entry "will be redelivered" (`main.py:360`);
  it is not. `flag_mention` may come before the row. The scheduler iterates over its
  schedules with awaits in between: a concurrent POST or DELETE raises, and the round
  starts again a minute later, with duplicates; schedules are lost on restart. Report
  service and scheduler both make the default reports. Retention days have no lower
  bound; two purges of one user in two organisations may each count the other
  membership, so that the account is never anonymised; events still in the stream are
  stored with the user after a purge. `detect_bot` is not monotone in the number of posts.
- *Export.* A lost reply to the COMPLETED commit turns a finished job into FAILED; a
  publish failure leaves a job PENDING. A sync that is limited, asked for one project of
  several, or overlaps collection moves `last_sync_at` past what it left out; failures
  of Salesforce, HubSpot and Tableau are swallowed.
- *Identity and tenant.* Aware datetimes for columns without a zone again: `last_login_at` of the
  identity service (`main.py:538`, `:823`, `:1062`), `expires_at` and `last_used_at` of API keys
  (`main.py:916`, `:1057`), and an `expires_at` read back is compared with an aware time, which raises
  (`main.py:1053`). The replies of these calls include failure, so the safety results cover it. One refresh token can be exchanged twice at once; a refresh in
  flight outlives revoke-all with the token it creates. Two concurrent demotions can
  leave an organisation without an owner; usage increments can be lost; registering
  and SSO ignore the member limit.
- *Realtime.* `main.py` accepts a WebSocket and `ConnectionManager.connect` accepts it
  again, which an ASGI server refuses, so that no socket is registered (constant
  `AcceptsTwice`: the run takes it to be let through, so that broadcasts have someone
  to reach); nobody publishes to `realtime:*`; the subscriber gives up for good after
  ten errors in a row.
- *Utilities.* The DELETE of a spoilt idempotency entry is outside any `try` (`shared/idempotency.py:120`): when
  Redis fails there, the request ends without its handler. The middleware is commented out in the gateway;
  `request_dedup`, `cache`, `http_client` and `consume_with_retry` are used by tests only.

## 5. Proofs

TLAPS checks every theorem with SMT, Zenon and (for the temporal step) LS4, for all
values of the constants that satisfy the named assumptions of their modules. The
assumptions say what the code's configuration or the running system guarantees, and TLC
evaluates them in every run: there are finitely many replicas and requests in flight;
batch sizes, thresholds, queues and windows are positive; a call that may fail may also
succeed; an export asks for one of the four formats the endpoint lets through
(`services/export_service/app/main.py:1106`); the minute after an error is shorter than the five-minute
window (`RetryTicks < WindowTicks`). The bounds of the runs (`Max*`) are constants of the
theorems like any other: they hold for each value of them.

Almost none of the properties is inductive. They compare states at rest, while
the code spreads one operation over several awaits, so each inductive invariant says what a
coroutine knows at each await; the module comments list them. All were
checked by TLC on the instance of the run before they were proved.

**`CircuitBreakerProofs`**: `TypeOK`, `NotClosedHasFailures`, `HalfOpenHasProbe`,
`HalfOpenSettles`. `HalfOpenHasProbe` is not inductive: a late failure in HALF_OPEN
must be known to reopen the circuit (the count is at the threshold) and no second
call may take a left-over permit. `IInv` adds both facts.

**`AnalyzerProofs`**: `TypeOK`, `ForwardedAtMostOnce`, `NeverForwardedAndDead` and
`AckedIsAccountedFor`, for any number of replicas, entries and any batch size,
whatever crashes and whichever replies are lost. The invariant says that what a
replica holds was delivered, is held by it alone, is split among `todo`, `good` and
`bad`, and how far each part may have got for the replica's place in the loop: not
forwarded before the publish, forwarded after it, dead-lettered only during `dlq_ack`
or `last_resort`. Exclusiveness is what turns a per-replica argument into one about
the stream; it rests on `XREADGROUP >` dealing fresh ids only.

**`CollectionProofs`**. Query service: `StoredOnce` and `AckedIsStoredOrDead`;
`Justified` says that the entry a replica is about to acknowledge is stored,
dead-lettered or refused by `move_to_dlq`. Collector: `OnePublishPerWorker` counts
published events that were checked, but a coroutine that has set the dedup key has not published yet, so the
invariant counts *copies* (`Within`: published or held by a coroutine that has a connection's `r`). While the key exists, further copies
are owed to coroutines that looked before it was set (`Claiming`); a coroutine that
claims moves from one side of the sum to the other. `FailureIsContained`, an action
property, follows from what a coroutine holds when it rests (`Rested`).

**`PipelineProofs`**: the three invariants hold of the composition, where each service's
environment is the one upstream; `PipelineIsSafe` restates their properties there. The theorems
of the components are used through an instance of `CollectionProofs` under the composition's
mapping. `PipelineRefinesDelivery` proves the refinement step by step: every step of
`MentionPipeline` is a step of `MentionDelivery` or a stutter. It needs `Provenance`, that an
analysed event carries the mention of the raw entry it names; without it a row could
be of a mention that nobody collected.

**`PublishingProofs`**: `StatusIsTrue` says of a post, both ways, that the table agrees with the
platform. What the table calls published was sent: the proof follows the outcome a task holds
from the platform's answer to its commit (`SuccessWasSent`). What was sent is called published,
unless a task is about to write it or the post is excused (`SentIsPublished`): the platform's
reply was lost, the success could not be written (a failed read or commit, the row gone, the
task killed), or an approval, a deletion or a failing attempt that had looked at the post
before overwrote it. The invariant adds `LoadedIsTrue`: SQLAlchemy writes only what changed, so
a task that loaded the post as published writes nothing, and what it loaded must still hold
or be excused. `SchedulerPublishesApproved` follows the list the
scheduler selected earlier (`WorkIsApproved`, for an approval is never taken back).
`AskIsAcked`, an action property, needs that a consumer's work are entries its group delivered to
it and that it rests with none (`HeldIsDelivered`, `IdleHoldsNothing`). Nothing is assumed about the two calls
that asyncpg refuses: `AwareReplies` is any non-empty set of outcomes.

**`HandlerProofs`**: one section per service, for any number of requests at a time.
`RevokedStaysRevoked`: the sessions a scan has found are its user's, and ids are
issued once. `LimitsHold`: the members there are and the invitations that
have passed the check are counted together. `RepeatedForAReason`: so are the handler
calls and claims in flight, each answered by an excuse (a fault, a race) or a key. `ClientsAreServed`: a queue ends at the
message published last. `MissedIsExplained`: a mention a sync has read is still with it, left
out by its query, or explained. `DirectLossIsExplained`: a post that was found is in the table or
is the first of its name in its batch (the least index exists by well-foundedness of
strict inclusion). `TaskLossIsExplained`: a found post is stored, excused, in the session or in the
batch. Rate limiter (`KeyBounded`, `LostIsInFlight`, `GrantsBounded`, for any quota, window and
number of concurrent calls, whatever Redis call raises): the bounds become inductive by counting
the calls admitted but not recorded, for recording moves a call from one side of the sum to the
other; what the key may have lost by expiring is bounded by `TTLCovers`: a TTL outlives every
member except those whose caller has not reached EXPIRE, or raised before it.

The last two sections are about the types of what each service keeps (for that, a request carries
only what its place in the handler says it has read) and about `HandlersSpec`, the specification
the run explores. `HandlersIInv` holds the whole invariant of the service explored and, of the
others, only the promise, for `request` is shared: a step of one service is a stutter for
the tables of the others but not for their requests. `HandlersTyping` and
`HandlersKeepTheirPromises` follow: every invariant of the run `handlers` is a theorem.

**`SearchProofs`**: `SearchTypeOK` and `SearchLosesOnlyItsOwn`, for any catalogue, answers,
number of keywords and attempts, and caps. `SearchIInv` says what the agenda is worth: a request
`collect` set out with has been made, is still to be made, or is a fallback; after each search
that has a fallback comes that fallback (`Paired`), so that passing over the next request loses
nothing else; a request whose handling may raise stands only on the agenda of Facebook or Mastodon
(`Suits`). `NewAndRelevant(seen) \subseteq mentions` is what makes deduplication harmless: an item is
passed over only because its first occurrence was kept, also when the list of ids is full
and forgets its oldest, and it would fail for a collector that starts over with what it has seen: of
the collectors only those that never raise deduplicate. A loop that
ends at the first bad item and the items that pass a filter are the operators `Before` and
`ItemsAt`, of which lemmas say which items they return.

**`ConsumerProofs`**: `LoopIInv`, about the loop that eight services share, is proved once: an
entry is in the batch of one replica at most, and was delivered. Each service adds to it:

| Theorem about | What the inductive invariant adds |
|---|---|
| `MediaRowWasAnnounced` | the replica about to write the row announced what it will write |
| `ReportRequestsAnswered` | the request about to be acknowledged has its report and announcement |
| `RepeatIsExplained` | results, and replicas about to announce or to set the key, stay within a budget that a lapse of the key renews |
| `AlertIsJustified` | counters hold delivered mentions, of one replica each; a row of `alert_logs` precedes each notice |
| `ExecutionsAddUp` | a run that a replica holds has not been counted |
| `ExportsSettled` | one replica at most works on a job, and with the rows its query returned; a job that stays behind has met an error or a crash |
| `NothingLostByTheBus` | where each message is, including the copy an operator has published and not yet deleted |
| `DeletedWasExpired` | what a round has doomed is older than a policy in force during the round |
| `PurgedIsForgotten` | a purge that has selected an organisation's logs has them all; an event not stored yet left no row |
| `OncePerWindow` | a loop that has made one report more than it started anew is past that project and hour |

The theorems are about `ConsumersSpec`, the specification the run explores: a step of it
is a step of the chosen service or leaves that service alone (`OneServiceAtATime`).
`ConsumersTyping` adds the types: `ServiceFits` joins to each service's invariant what a replica
carries at each place of its handler and which results there are, because a type such as
"the workflow being run is one of the table" depends on the place. Every invariant of the run
`consumers` is a theorem.

**Only model-checked.** No invariant of a passing run; every one is a theorem, and so are its
action properties and the refinement. What stays with TLC:
- All liveness properties (`RecoversWithDependency`, `EveryMentionDelivered`,
  `StoredBecomesSearchable`): TLAPS reasons about neither
  fairness nor ENABLED.
- What is claimed to be violated: the runs that end in a counterexample.

## 6. Not modelled

- *Cache*, *resilient HTTP client*: used by no service. The breaker the client wraps
  is modelled.
- *Project, search and competitive services, the gateway's other routes, most of the
  single-process application*: request and response over one database, no state of
  their own between requests, single statements.
- *NLP and report rendering*: library calls and layout; their success or failure is
  an outcome of a step of the services that call them.
- *Frontend, deployment, monitoring*: no protocol of their own.
- Of the modelled services: start-up and shutdown (a task cancelled inside
  `CircuitBreaker.call` leaves it without recording an outcome; the services cancel
  tasks only when they end), health endpoints, metrics, logging, access checks other than
  those a race depends on, the wording of messages, list and statistics endpoints, the
  two reads that compute `wait_seconds`, `ensure_index`, influence and credibility
  scores, token encoding and SAML validation, the identity service's in-memory limit of
  log-in attempts, branding, `validate_credentials` and
  `_refresh_token` of the collectors (which no service calls).

## 7. Plan

What is left:

1. The liveness properties, once the prover handles fairness. The ranking arguments are those of
   the runs: a batch in hand shrinks, and an entry that is dealt is dealt once.
