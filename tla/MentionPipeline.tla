--------------------------- MODULE MentionPipeline --------------------------
(***************************************************************************)
(* The collection pipeline: collectors, analyzers and query-service        *)
(* replicas around the streams mentions:raw and mentions:analyzed.  The    *)
(* collectors' publish takes the place of the analyzer's environment, and  *)
(* the analyzers' publish that of the query service's; a step of one       *)
(* service changes nothing of the others but the stream between them.      *)
(*                                                                         *)
(* The pipeline implements MentionDelivery: raw entries are the mentions   *)
(* collected, rows of the table the mentions stored.                       *)
(***************************************************************************)
EXTENDS Integers, Sequences, FiniteSets

CONSTANTS
    Replicas, Projects, Posts, PlatformOf, MaxResults, RequestBatch,
    MaxRounds, MaxRequests, MaxExpiries,
    Analyzers, BatchSize,
    Stores, StoreBatch, Malformed,
    MaxLen, Replies, MayCrash

VARIABLES
    requests, requestGroup, claimed, expiries, rounds, connected, guarded, unchecked,
    cpc, tasks, platforms, found, events,
    raw,
    rawGroup, rawDlq, apc, todo, good, bad, dlqRaised,
    analyzed,
    storeGroup, analyzedDlq, rows, indexed, qpc, batch, error, storeRaised

Mentions == [project : Projects, post : Posts]

Collector == INSTANCE Collector WITH rawOut <- raw
Analyzer == INSTANCE Analyzer WITH MaxRaw <- 0
Query == INSTANCE QueryStore WITH analyzedIn <- analyzed, MentionKeys <- Mentions, MaxAnalyzed <- 0

ASSUME PipelineAssumption ==
    /\ IsFiniteSet(Replicas)
    /\ PlatformOf \in [Posts -> Collector!Platforms]
    /\ {RequestBatch, BatchSize, StoreBatch, MaxLen} \subseteq Nat \ {0}
    /\ {MaxResults, MaxRounds, MaxRequests, MaxExpiries} \subseteq Nat
    /\ Malformed \subseteq Mentions
    /\ "ok" \in Replies
    /\ Replies \subseteq Collector!BusReply
    /\ MayCrash \in BOOLEAN

collectorOnly ==
    <<requests, requestGroup, claimed, expiries, rounds, connected, guarded, unchecked,
      cpc, tasks, platforms, found, events>>
analyzerOnly == <<rawGroup, rawDlq, apc, todo, good, bad, dlqRaised>>
queryOnly == <<storeGroup, analyzedDlq, rows, indexed, qpc, batch, error, storeRaised>>

pipelineVars == <<collectorOnly, raw, analyzerOnly, analyzed, queryOnly>>

PipelineInit ==
    Collector!CollectorInit /\ Analyzer!AnalyzerInit /\ Query!QueryInit

CollectorMoves(w) ==
    Collector!CollectorStep(w) /\ UNCHANGED <<analyzerOnly, analyzed, queryOnly>>

(* Rounds, requests, crashes of collectors and dedup keys that expire.     *)
CollectionMoves ==
    Collector!CollectorEvents /\ UNCHANGED <<analyzerOnly, analyzed, queryOnly>>

AnalyzerMoves(a) ==
    Analyzer!AnalyzerStep(a) /\ UNCHANGED <<collectorOnly, queryOnly>>

QueryMoves(q) ==
    Query!StoreStep(q) /\ UNCHANGED <<collectorOnly, raw, analyzerOnly>>

AnalyzerCrashes(a) ==
    Analyzer!Crash(a) /\ UNCHANGED <<collectorOnly, queryOnly>>

QueryCrashes(q) ==
    Query!CrashStore(q) /\ UNCHANGED <<collectorOnly, raw, analyzerOnly>>

PipelineNext ==
    \/ CollectionMoves
    \/ \E w \in Collector!Workers : CollectorMoves(w)
    \/ \E a \in Analyzers : AnalyzerMoves(a) \/ AnalyzerCrashes(a)
    \/ \E q \in Stores : QueryMoves(q) \/ QueryCrashes(q)

PipelineSpec == PipelineInit /\ [][PipelineNext]_pipelineVars

(* Every coroutine and replica keeps running: none of the loops returns    *)
(* before shutdown.  Rounds, requests and expiry are not owed.             *)
PipelineFairness ==
    /\ \A w \in Collector!Workers : WF_pipelineVars(CollectorMoves(w))
    /\ \A a \in Analyzers : WF_pipelineVars(AnalyzerMoves(a))
    /\ \A q \in Stores : WF_pipelineVars(QueryMoves(q))

FairPipelineSpec == PipelineSpec /\ PipelineFairness

-----------------------------------------------------------------------------
(* Properties.                                                             *)

Collected == {raw.log[i] : i \in Analyzer!Ids(raw)}

GivenUp ==
    {raw.log[id] : id \in Analyzer!DeadLetters}
        \cup {analyzed.log[id].mention : id \in Query!DeadIds}

Delivery == INSTANCE MentionDelivery WITH
    collected <- Collected,
    stored <- rows,
    searchable <- indexed,
    deadLettered <- GivenUp

(* Whatever crashes, fails or is delivered twice, the pipeline stores only *)
(* what was collected, stores it once, makes nothing else searchable and   *)
(* dead-letters nothing else.                                              *)
ImplementsDelivery == Delivery!DeliverySpec

(* As long as nothing crashes and Redis and the databases answer, every    *)
(* mention collected ends up stored or in a dead-letter stream, and what   *)
(* is stored ends up searchable.                                           *)
EveryMentionDelivered == Delivery!Delivered
StoredBecomesSearchable == Delivery!Searchable

(* "Skip duplicates using Redis-based dedup" (collector_service/app/main.py*)
(* :93): with nothing failing, a post is skipped only for a project that   *)
(* has it, "one mention per (project, source, platform)" (shared/models.py *)
(* :311), or that a coroutine is about to publish it for.                  *)
SkippedIsDuplicate == Collector!SkippedIsDuplicate
=============================================================================
