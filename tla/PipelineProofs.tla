---------------------------- MODULE PipelineProofs ----------------------------
(***************************************************************************)
(* Proofs about the collection pipeline: the invariants of the three       *)
(* services hold in the composition, and the composition implements        *)
(* MentionDelivery.                                                        *)
(*                                                                         *)
(* Each service is proved for an environment that adds entries one by one; *)
(* here the environment is the service upstream, which adds batches.  What *)
(* the composition adds is Provenance, the link between the two streams:   *)
(* without it a row could be of a mention that nobody collected.           *)
(***************************************************************************)
EXTENDS MentionPipeline, FiniteSetTheorems, SequenceTheorems, TLAPS

(* The services with their theorems; the definitions are those of          *)
(* Collector, Analyzer and Query in MentionPipeline.                       *)
P == INSTANCE CollectionProofs WITH
    analyzedIn <- analyzed, rawOut <- raw, MentionKeys <- Mentions,
    MaxRaw <- 0, MaxAnalyzed <- 0

(* An analysed event carries the mention of the raw entry it came from.    *)
Provenance ==
    \A i \in 1 .. Len(analyzed.log) :
        analyzed.log[i].mention = raw.log[analyzed.log[i].origin]

PipelineIInv ==
    /\ P!CollectorIInv
    /\ P!AnalyzerIInv
    /\ P!QueryIInv
    /\ Provenance

-----------------------------------------------------------------------------
(* The services proved about are the ones composed.                        *)

(* Sets have one size, whichever instance counts.                          *)
LEMMA SameCardinality ==
    \A S : /\ P!IsFiniteSet(S) <=> IsFiniteSet(S)
           /\ P!Cardinality(S) = Cardinality(S)
           /\ Analyzer!Cardinality(S) = Cardinality(S)
           /\ Collector!Cardinality(S) = Cardinality(S)
<1>1. \A S : P!IsFiniteSet(S) <=> IsFiniteSet(S)
  BY DEF P!IsFiniteSet, IsFiniteSet
<1>2. \A S : P!Cardinality(S) = Cardinality(S)
  BY DEF P!Cardinality, Cardinality
<1>3. \A S : Analyzer!Cardinality(S) = Cardinality(S)
  BY DEF Analyzer!Cardinality, Cardinality
<1>4. \A S : Collector!Cardinality(S) = Cardinality(S)
  BY DEF Collector!Cardinality, Cardinality
<1>5. QED
  BY <1>1, <1>2, <1>3, <1>4

(* The constants of the pipeline are good for every service.               *)
LEMMA ServiceAssumptions ==
    /\ MaxLen \in Nat \ {0}
    /\ P!AnalyzerAssumption
    /\ P!QueryStoreAssumption
    /\ P!CollectorAssumption
<1>1. MaxLen \in Nat \ {0}
  BY PipelineAssumption
<1>2. P!AnalyzerAssumption
  BY PipelineAssumption DEF P!AnalyzerAssumption, P!BusReply, Collector!BusReply
<1>3. P!QueryStoreAssumption
  BY PipelineAssumption DEF P!QueryStoreAssumption, P!BusReply, Collector!BusReply
<1>4. P!CollectorAssumption
  <2>1. PlatformOf \in [Posts -> P!Platforms]
    BY PipelineAssumption DEF P!Platforms, Collector!Platforms
  <2>2. Replies \subseteq P!BusReply
    BY PipelineAssumption DEF P!BusReply, Collector!BusReply
  <2>3. /\ IsFiniteSet(Replicas) /\ RequestBatch \in Nat \ {0}
        /\ {MaxResults, MaxRounds, MaxRequests, MaxExpiries} \subseteq Nat
        /\ "ok" \in Replies /\ MayCrash \in BOOLEAN
    BY PipelineAssumption
  <2>4. QED
    BY <2>1, <2>2, <2>3, SameCardinality DEF P!CollectorAssumption
<1>5. QED
  BY <1>1, <1>2, <1>3, <1>4

(* The initial states are those of the services.                           *)
LEMMA SameInit ==
    ASSUME PipelineInit
    PROVE  P!CollectorInit /\ P!AnalyzerInit /\ P!QueryInit
<1>1. P!CollectorInit
  BY DEF PipelineInit, Collector!CollectorInit, P!CollectorInit, Collector!EmptyStream,
         P!EmptyStream, Collector!NewGroup, P!NewGroup, Collector!Workers, P!Workers
<1>2. P!AnalyzerInit
  BY DEF PipelineInit, Analyzer!AnalyzerInit, P!AnalyzerInit, Analyzer!EmptyStream,
         P!EmptyStream, Analyzer!NewGroup, P!NewGroup
<1>3. P!QueryInit
  BY DEF PipelineInit, Query!QueryInit, P!QueryInit, Query!EmptyStream,
         P!EmptyStream, Query!NewGroup, P!NewGroup
<1>4. QED
  BY <1>1, <1>2, <1>3

(* The steps of a collector coroutine.                                     *)
LEMMA SameCollectorStep ==
    ASSUME NEW w, Collector!CollectorStep(w)
    PROVE  P!CollectorStep(w)
BY DEF Collector!CollectorStep, P!CollectorStep, Collector!ConsumeRequests, P!ConsumeRequests,
       Collector!LoseConnection, P!LoseConnection, Collector!Reconnect, P!Reconnect,
       Collector!AtBus, P!AtBus, Collector!OverBus, P!OverBus, Collector!linkVars, P!linkVars,
       Collector!Search, P!Search, Collector!SearchNothing, P!SearchNothing,
       Collector!LoadProject, P!LoadProject, Collector!CheckDuplicate, P!CheckDuplicate,
       Collector!Claim, P!Claim, Collector!PublishFound, P!PublishFound,
       Collector!AckRequest, P!AckRequest, Collector!IsCurrent, P!IsCurrent,
       Collector!Go, P!Go, Collector!NextTask, P!NextTask, Collector!Returned, P!Returned,
       Collector!PlatformOver, P!PlatformOver, Collector!AfterPost, P!AfterPost,
       Collector!Results, P!Results, Collector!SeqOf, P!SeqOf, Collector!Platforms, P!Platforms,
       Collector!Applied, P!Applied, Collector!Raised, P!Raised, Collector!XAck, P!XAck,
       Collector!XAdd, P!XAdd, Collector!XReadGroup, P!XReadGroup, Collector!Fresh, P!Fresh,
       Collector!FirstFresh, P!FirstFresh, Collector!LastFresh, P!LastFresh

(* What happens to the collectors from outside.                            *)
LEMMA SameCollectorEvents ==
    ASSUME Collector!CollectorEvents
    PROVE  P!CollectorEvents
BY DEF Collector!CollectorEvents, P!CollectorEvents, Collector!Request, P!Request,
       Collector!ExpireClaim, P!ExpireClaim, Collector!CrashCollector, P!CrashCollector,
       Collector!StartRound, P!StartRound, Collector!Workers, P!Workers, Collector!XAdd, P!XAdd,
       Collector!Go, P!Go, Collector!linkVars, P!linkVars

(* The steps and crashes of an analyzer replica.                           *)
LEMMA SameAnalyzerStep ==
    ASSUME NEW a, Analyzer!AnalyzerStep(a) \/ Analyzer!Crash(a)
    PROVE  P!AnalyzerStep(a) \/ P!Crash(a)
<1> USE DEF Analyzer!IsFirst, P!IsFirst, Analyzer!Applied, P!Applied, Analyzer!Raised, P!Raised,
            Analyzer!Abandon, P!Abandon, Analyzer!Disposed, P!Disposed, Analyzer!Remaining,
            P!Remaining, Analyzer!DlqFailed, P!DlqFailed, Analyzer!XAck, P!XAck
<1>1. ASSUME NEW reply, Analyzer!Consume(a, reply) PROVE P!Consume(a, reply)
  BY <1>1 DEF Analyzer!Consume, P!Consume, Analyzer!XReadGroup, P!XReadGroup,
              Analyzer!Fresh, P!Fresh, Analyzer!FirstFresh, P!FirstFresh,
              Analyzer!LastFresh, P!LastFresh
<1>2. ASSUME NEW reply, Analyzer!PublishBatch(a, reply) PROVE P!PublishBatch(a, reply)
  <2>1. Analyzer!InOrder(good[a]) = P!InOrder(good[a])
    BY SameCardinality DEF Analyzer!InOrder, P!InOrder
  <2>2. \A ids : Analyzer!EventsOf(ids) = P!EventsOf(ids)
    BY DEF Analyzer!EventsOf, P!EventsOf
  <2>3. \A entries : Analyzer!XAdd(analyzed, entries) = P!XAdd(analyzed, entries)
    BY DEF Analyzer!XAdd, P!XAdd
  <2>4. QED
    BY <1>2, <2>1, <2>2, <2>3 DEF Analyzer!PublishBatch, P!PublishBatch
<1>3. ASSUME NEW id, NEW fails, Analyzer!Analyze(a, id, fails) PROVE P!Analyze(a, id, fails)
  BY <1>3 DEF Analyzer!Analyze, P!Analyze
<1>4. ASSUME NEW id, NEW reply, Analyzer!Ack(a, id, reply) PROVE P!Ack(a, id, reply)
  BY <1>4 DEF Analyzer!Ack, P!Ack
<1>5. ASSUME NEW id, NEW reply, Analyzer!DlqPublish(a, id, reply)
      PROVE  P!DlqPublish(a, id, reply)
  BY <1>5 DEF Analyzer!DlqPublish, P!DlqPublish, Analyzer!Exists, P!Exists
<1>6. ASSUME NEW id, NEW reply, Analyzer!DlqAck(a, id, reply) PROVE P!DlqAck(a, id, reply)
  BY <1>6 DEF Analyzer!DlqAck, P!DlqAck
<1>7. ASSUME NEW id, NEW reply, Analyzer!LastResortAck(a, id, reply)
      PROVE  P!LastResortAck(a, id, reply)
  BY <1>7 DEF Analyzer!LastResortAck, P!LastResortAck
<1>8. Analyzer!Crash(a) => P!Crash(a)
  BY DEF Analyzer!Crash, P!Crash
<1>9. Analyzer!AnalyzerStep(a) => P!AnalyzerStep(a)
  BY <1>1, <1>2, <1>3, <1>4, <1>5, <1>6, <1>7 DEF Analyzer!AnalyzerStep, P!AnalyzerStep
<1>10. QED
  BY <1>8, <1>9

(* The steps and crashes of a query-service replica.                       *)
LEMMA SameStoreStep ==
    ASSUME NEW q, Query!StoreStep(q) \/ Query!CrashStore(q)
    PROVE  P!StoreStep(q) \/ P!CrashStore(q)
BY DEF Query!StoreStep, P!StoreStep, Query!CrashStore, P!CrashStore,
       Query!ConsumeAnalyzed, P!ConsumeAnalyzed, Query!Select, P!Select, Query!Insert, P!Insert,
       Query!Index, P!Index, Query!AckStored, P!AckStored, Query!DeadLetter, P!DeadLetter,
       Query!DeadLetterAck, P!DeadLetterAck, Query!AckUnstored, P!AckUnstored,
       Query!IsNext, P!IsNext, Query!Except, P!Except, Query!Goto, P!Goto, Query!Done, P!Done,
       Query!Drop, P!Drop, Query!MoveRaised, P!MoveRaised, Query!Stored, P!Stored,
       Query!MentionOf, P!MentionOf, Query!Raised, P!Raised, Query!Applied, P!Applied,
       Query!Exists, P!Exists, Query!XAck, P!XAck, Query!XReadGroup, P!XReadGroup,
       Query!Fresh, P!Fresh, Query!FirstFresh, P!FirstFresh, Query!LastFresh, P!LastFresh

-----------------------------------------------------------------------------
(* What a step of a service does to what the others, and MentionDelivery,  *)
(* see of it.                                                              *)

(* A coroutine publishes raw mentions, or leaves the stream alone.         *)
LEMMA CollectorShape ==
    ASSUME P!CollectorIInv, NEW w \in P!Workers, P!CollectorStep(w)
    PROVE  raw' = raw \/ \E new \in Seq(Mentions) : raw' \in P!XAdd(raw, new)
<1>1. CASE raw' = raw
  BY <1>1
<1>2. CASE raw' # raw
  <2>1. PICK task \in tasks[w], reply \in Replies : P!PublishFound(w, task, reply)
    BY <1>2 DEF P!CollectorStep, P!ConsumeRequests, P!Search, P!SearchNothing, P!LoadProject,
                P!CheckDuplicate, P!Claim, P!AckRequest, P!LoseConnection, P!Reconnect
  <2>2. raw' \in P!XAdd(raw, [i \in DOMAIN events[w] |->
                                [project |-> task.project, post |-> events[w][i]]])
    BY <1>2, <2>1 DEF P!PublishFound
  <2>3. events[w] \in Seq(Posts) /\ task \in P!Task
    BY DEF P!CollectorIInv, P!CollectorTypeOK
  <2>4. [i \in DOMAIN events[w] |-> [project |-> task.project, post |-> events[w][i]]]
            \in Seq(Mentions)
    <3>1. PICK n \in Nat : DOMAIN events[w] = 1 .. n
      BY <2>3
    <3>2. \A i \in 1 .. n : [project |-> task.project, post |-> events[w][i]] \in Mentions
      BY <2>3, <3>1 DEF P!Task, Mentions
    <3>3. QED
      BY <3>1, <3>2
  <2>5. QED
    BY <2>2, <2>4
<1>3. QED
  BY <1>1, <1>2

(* Nothing that happens to the collectors from outside touches the stream. *)
LEMMA CollectorEventsShape ==
    ASSUME P!CollectorEvents
    PROVE  raw' = raw
BY DEF P!CollectorEvents, P!Request, P!ExpireClaim, P!CrashCollector, P!StartRound

(* An analyzer leaves raw alone; it publishes the events of ids it holds,  *)
(* or dead-letters one of them, or neither.                                *)
AnalyzerMoved(a) ==
    /\ raw' = raw
    /\ \/ analyzed' = analyzed /\ rawDlq' = rawDlq
       \/ /\ rawDlq' = rawDlq
          /\ \E order \in P!InOrder(good[a]) :
                 analyzed' \in P!XAdd(analyzed, P!EventsOf(order))
       \/ analyzed' = analyzed /\ \E id \in bad[a] : rawDlq' = Append(rawDlq, id)

(* That is all an analyzer does to the streams.                            *)
LEMMA AnalyzerShape ==
    ASSUME NEW a, P!AnalyzerStep(a) \/ P!Crash(a)
    PROVE  AnalyzerMoved(a)
<1>1. ASSUME NEW reply, P!Consume(a, reply) PROVE AnalyzerMoved(a)
  BY <1>1 DEF P!Consume, AnalyzerMoved
<1>2. ASSUME NEW reply, P!PublishBatch(a, reply) PROVE AnalyzerMoved(a)
  BY <1>2 DEF P!PublishBatch, AnalyzerMoved
<1>3. ASSUME NEW id, NEW fails, P!Analyze(a, id, fails) PROVE AnalyzerMoved(a)
  BY <1>3 DEF P!Analyze, AnalyzerMoved
<1>4. ASSUME NEW id, NEW reply, P!Ack(a, id, reply) PROVE AnalyzerMoved(a)
  BY <1>4 DEF P!Ack, AnalyzerMoved
<1>5. ASSUME NEW id \in bad[a], NEW reply, P!DlqPublish(a, id, reply) PROVE AnalyzerMoved(a)
  BY <1>5 DEF P!DlqPublish, AnalyzerMoved
<1>6. ASSUME NEW id, NEW reply, P!DlqAck(a, id, reply) \/ P!LastResortAck(a, id, reply)
      PROVE  AnalyzerMoved(a)
  BY <1>6 DEF P!DlqAck, P!LastResortAck, AnalyzerMoved
<1>7. P!Crash(a) => AnalyzerMoved(a)
  BY DEF P!Crash, AnalyzerMoved
<1>8. QED
  BY <1>1, <1>2, <1>3, <1>4, <1>5, <1>6, <1>7 DEF P!AnalyzerStep

(* A query-service replica leaves analyzed alone; of an entry it holds, it *)
(* stores the mention, indexes it, dead-letters it, or does none of these. *)
StoreMoved(q) ==
    /\ analyzed' = analyzed
    /\ \/ UNCHANGED <<rows, indexed, analyzedDlq>>
       \/ \E id \in batch[q] :
             \/ /\ P!MentionOf(id) \notin P!Stored
                /\ rows' = Append(rows, P!MentionOf(id))
                /\ UNCHANGED <<indexed, analyzedDlq>>
             \/ /\ P!IsNext(q, id) /\ qpc[q] = "index"
                /\ indexed' = indexed \cup {P!MentionOf(id)}
                /\ UNCHANGED <<rows, analyzedDlq>>
             \/ /\ analyzedDlq' = Append(analyzedDlq, [id |-> id, error |-> error[q]])
                /\ UNCHANGED <<rows, indexed>>

(* That is all the query service does to the stores.                       *)
LEMMA StoreShape ==
    ASSUME NEW q, P!StoreStep(q) \/ P!CrashStore(q)
    PROVE  StoreMoved(q)
<1>1. ASSUME NEW reply, P!ConsumeAnalyzed(q, reply) PROVE StoreMoved(q)
  BY <1>1 DEF P!ConsumeAnalyzed, StoreMoved
<1>2. ASSUME NEW id, NEW reply, P!Select(q, id, reply) PROVE StoreMoved(q)
  BY <1>2 DEF P!Select, StoreMoved
<1>3. ASSUME NEW id \in batch[q], NEW reply, P!Insert(q, id, reply) PROVE StoreMoved(q)
  BY <1>3 DEF P!Insert, StoreMoved
<1>4. ASSUME NEW id \in batch[q], NEW reply, P!Index(q, id, reply) PROVE StoreMoved(q)
  BY <1>4 DEF P!Index, StoreMoved
<1>5. ASSUME NEW id, NEW reply, P!AckStored(q, id, reply) PROVE StoreMoved(q)
  BY <1>5 DEF P!AckStored, StoreMoved
<1>6. ASSUME NEW id \in batch[q], NEW reply, P!DeadLetter(q, id, reply) PROVE StoreMoved(q)
  BY <1>6 DEF P!DeadLetter, StoreMoved
<1>7. ASSUME NEW id, NEW reply, P!DeadLetterAck(q, id, reply) \/ P!AckUnstored(q, id, reply)
      PROVE  StoreMoved(q)
  BY <1>7 DEF P!DeadLetterAck, P!AckUnstored, StoreMoved
<1>8. P!CrashStore(q) => StoreMoved(q)
  BY DEF P!CrashStore, StoreMoved
<1>9. QED
  BY <1>1, <1>2, <1>3, <1>4, <1>5, <1>6, <1>7, <1>8 DEF P!StoreStep

-----------------------------------------------------------------------------
(* The invariant of the pipeline.                                          *)

(* What the services' invariants say of the streams between them.          *)
LEMMA Streams ==
    ASSUME PipelineIInv
    PROVE  /\ raw \in P!StreamOf(Mentions) /\ raw.log \in Seq(Mentions)
           /\ Len(raw.log) \in Nat
           /\ rawGroup.last \in Nat /\ rawGroup.last <= Len(raw.log)
           /\ analyzed \in P!StreamOf(P!StoredEvent) /\ analyzed.log \in Seq(P!StoredEvent)
           /\ Len(analyzed.log) \in Nat
           /\ storeGroup.last \in Nat /\ storeGroup.last <= Len(analyzed.log)
           /\ \A i \in 1 .. Len(analyzed.log) : analyzed.log[i].origin \in 1 .. rawGroup.last
           /\ \A a \in Analyzers : good[a] \cup bad[a] \subseteq 1 .. rawGroup.last
           /\ P!DeadLetters \subseteq 1 .. rawGroup.last
           /\ \A q \in Stores : batch[q] \subseteq 1 .. storeGroup.last
           /\ P!DeadIds \subseteq 1 .. storeGroup.last
<1>1. /\ raw \in P!StreamOf(Mentions) /\ raw.log \in Seq(Mentions)
      /\ Len(raw.log) \in Nat
      /\ rawGroup.last \in Nat /\ rawGroup.last <= Len(raw.log)
  BY DEF PipelineIInv, P!AnalyzerIInv, P!TypeOK, P!StreamOf, P!Group
<1>2. /\ analyzed \in P!StreamOf(P!StoredEvent) /\ analyzed.log \in Seq(P!StoredEvent)
      /\ Len(analyzed.log) \in Nat
      /\ storeGroup.last \in Nat /\ storeGroup.last <= Len(analyzed.log)
  BY DEF PipelineIInv, P!QueryIInv, P!QueryTypeOK, P!StreamOf, P!Group
<1>3. \A i \in 1 .. Len(analyzed.log) : analyzed.log[i].origin \in 1 .. rawGroup.last
  BY DEF PipelineIInv, P!AnalyzerIInv, P!Outcome, P!Origins, P!Ids, P!Delivered
<1>4. \A a \in Analyzers : good[a] \cup bad[a] \subseteq 1 .. rawGroup.last
  BY DEF PipelineIInv, P!AnalyzerIInv, P!Holding, P!Held, P!Delivered
<1>5. P!DeadLetters \subseteq 1 .. rawGroup.last
  BY DEF PipelineIInv, P!AnalyzerIInv, P!Outcome, P!Delivered
<1>6. /\ \A q \in Stores : batch[q] \subseteq 1 .. storeGroup.last
      /\ P!DeadIds \subseteq 1 .. storeGroup.last
  BY DEF PipelineIInv, P!QueryIInv, P!Justified
<1>7. QED
  BY <1>1, <1>2, <1>3, <1>4, <1>5, <1>6

(* The invariant holds at first.                                           *)
LEMMA PipelineInitInv == PipelineInit => PipelineIInv
<1> SUFFICES ASSUME PipelineInit PROVE PipelineIInv
  OBVIOUS
<1>1. P!CollectorIInv /\ P!AnalyzerIInv /\ P!QueryIInv
  BY SameInit, ServiceAssumptions, P!CollectorInitInv, P!AnalyzerInitInv, P!QueryInitInv
<1>2. Len(analyzed.log) = 0
  BY SameInit DEF P!AnalyzerInit, P!EmptyStream
<1>3. Provenance
  BY <1>2 DEF Provenance
<1>4. QED
  BY <1>1, <1>3 DEF PipelineIInv

(* The mention of what was delivered stays what it was.                    *)
LEMMA RawGrew ==
    ASSUME PipelineIInv, NEW new \in Seq(Mentions), raw' \in P!XAdd(raw, new)
    PROVE  /\ raw'.log = raw.log \o new /\ Len(raw'.log) = Len(raw.log) + Len(new)
           /\ \A i \in 1 .. Len(raw.log) : raw'.log[i] = raw.log[i]
<1>1. raw \in P!StreamOf(Mentions) /\ raw.log \in Seq(Mentions)
  BY Streams
<1>2. raw'.log = raw.log \o new /\ Len(raw'.log) = Len(raw.log) + Len(new)
  BY <1>1, ServiceAssumptions, P!XAddStream
<1>3. QED
  BY <1>1, <1>2

(* The same for the analysed events; any further one is of the batch.      *)
LEMMA AnalyzedGrew ==
    ASSUME PipelineIInv, NEW new \in Seq(P!StoredEvent), analyzed' \in P!XAdd(analyzed, new)
    PROVE  /\ analyzed'.log = analyzed.log \o new
           /\ Len(analyzed'.log) = Len(analyzed.log) + Len(new)
           /\ \A i \in 1 .. Len(analyzed.log) : analyzed'.log[i] = analyzed.log[i]
           /\ \A i \in 1 .. Len(analyzed'.log) :
                 \/ i \in 1 .. Len(analyzed.log)
                 \/ \E j \in 1 .. Len(new) : analyzed'.log[i] = new[j]
<1>1. analyzed \in P!StreamOf(P!StoredEvent) /\ analyzed.log \in Seq(P!StoredEvent)
  BY Streams
<1>2. analyzed'.log = analyzed.log \o new /\ Len(analyzed'.log) = Len(analyzed.log) + Len(new)
  BY <1>1, ServiceAssumptions, P!XAddStream
<1>3. Len(analyzed.log) \in Nat /\ Len(new) \in Nat
  BY <1>1
<1>4. \A i \in 1 .. Len(analyzed'.log) :
         \/ i \in 1 .. Len(analyzed.log)
         \/ i - Len(analyzed.log) \in 1 .. Len(new)
               /\ analyzed'.log[i] = new[i - Len(analyzed.log)]
  BY <1>1, <1>2, <1>3
<1>5. \A i \in 1 .. Len(analyzed.log) : analyzed'.log[i] = analyzed.log[i]
  BY <1>1, <1>2
<1>6. QED
  BY <1>2, <1>4, <1>5

(* The events of a batch carry the mentions of their origins.              *)
LEMMA BatchProvenance ==
    ASSUME PipelineIInv, NEW a \in Analyzers, NEW order \in P!InOrder(good[a])
    PROVE  /\ P!EventsOf(order) \in Seq(P!StoredEvent)
           /\ \A j \in 1 .. Len(P!EventsOf(order)) :
                 P!EventsOf(order)[j].mention = raw.log[P!EventsOf(order)[j].origin]
<1>1. P!EventsOf(order) \in Seq(P!AnalyzedEvent)
  <2>1. good[a] \in SUBSET P!Delivered /\ P!TypeOK
    BY Streams DEF P!Delivered, PipelineIInv, P!AnalyzerIInv
  <2>2. QED
    BY <2>1, ServiceAssumptions, P!BatchEvents
<1>2. P!AnalyzedEvent = P!StoredEvent
  BY DEF P!AnalyzedEvent, P!StoredEvent
<1>3. DOMAIN P!EventsOf(order) = 1 .. Len(P!EventsOf(order))
  BY <1>1
<1>4. \A j \in DOMAIN P!EventsOf(order) :
         P!EventsOf(order)[j] = [mention |-> raw.log[order[j]], origin |-> order[j]]
  BY DEF P!EventsOf
<1>5. QED
  BY <1>1, <1>2, <1>3, <1>4

(* A step of a collector.                                                  *)
LEMMA CollectorMovesInv ==
    ASSUME PipelineIInv,
           CollectionMoves \/ \E w \in Collector!Workers : CollectorMoves(w)
    PROVE  PipelineIInv'
<1>1. /\ UNCHANGED <<analyzerOnly, analyzed, queryOnly>>
      /\ P!CollectorEvents \/ \E w \in P!Workers : P!CollectorStep(w)
  BY SameCollectorStep, SameCollectorEvents
     DEF CollectionMoves, CollectorMoves, Collector!Workers, P!Workers
<1>2. P!CollectorIInv'
  BY <1>1, ServiceAssumptions, P!CollectorStepInv DEF PipelineIInv, P!CollectorNext
<1>3. P!QueryIInv'
  BY <1>1, ServiceAssumptions, P!QueryUnchangedInv DEF PipelineIInv, P!queryVars, queryOnly
<1>4. raw' = raw \/ \E new \in Seq(Mentions) : raw' \in P!XAdd(raw, new)
  BY <1>1, CollectorShape, CollectorEventsShape DEF PipelineIInv
<1>5. CASE raw' = raw
  <2>1. P!AnalyzerIInv'
    BY <1>1, <1>5, ServiceAssumptions, P!UnchangedInv
       DEF PipelineIInv, P!analyzerVars, analyzerOnly
  <2>2. Provenance'
    BY <1>1, <1>5 DEF PipelineIInv, Provenance
  <2>3. QED
    BY <1>2, <1>3, <2>1, <2>2 DEF PipelineIInv
<1>6. CASE \E new \in Seq(Mentions) : raw' \in P!XAdd(raw, new)
  <2>1. PICK new \in Seq(Mentions) : raw' \in P!XAdd(raw, new)
    BY <1>6
  <2>2. P!AnalyzerIInv'
    BY <1>1, <2>1, ServiceAssumptions, P!RawGrowsInv DEF PipelineIInv, analyzerOnly
  <2>3. \A i \in 1 .. Len(analyzed.log) : analyzed.log[i].origin \in 1 .. Len(raw.log)
    BY Streams
  <2>4. Provenance'
    BY <1>1, <2>1, <2>3, RawGrew DEF PipelineIInv, Provenance
  <2>5. QED
    BY <1>2, <1>3, <2>2, <2>4 DEF PipelineIInv
<1>7. QED
  BY <1>4, <1>5, <1>6

(* A step or a crash of an analyzer.                                       *)
LEMMA AnalyzerMovesInv ==
    ASSUME PipelineIInv, NEW a \in Analyzers, AnalyzerMoves(a) \/ AnalyzerCrashes(a)
    PROVE  PipelineIInv'
<1>1. /\ UNCHANGED <<collectorOnly, queryOnly>>
      /\ P!AnalyzerStep(a) \/ P!Crash(a)
  BY SameAnalyzerStep DEF AnalyzerMoves, AnalyzerCrashes
<1>2. P!AnalyzerIInv'
  BY <1>1, ServiceAssumptions, P!AnalyzerStepInv DEF PipelineIInv, P!AnalyzerNext
<1>3. AnalyzerMoved(a)
  BY <1>1, AnalyzerShape
<1>4. P!CollectorIInv'
  BY <1>1, <1>3, ServiceAssumptions, P!CollectorUnchangedInv
     DEF PipelineIInv, P!collectorVars, P!linkVars, collectorOnly, AnalyzerMoved
<1>5. CASE analyzed' = analyzed
  <2>1. P!QueryIInv'
    BY <1>1, <1>5, ServiceAssumptions, P!QueryUnchangedInv DEF PipelineIInv, P!queryVars, queryOnly
  <2>2. Provenance'
    BY <1>3, <1>5 DEF PipelineIInv, Provenance, AnalyzerMoved
  <2>3. QED
    BY <1>2, <1>4, <2>1, <2>2 DEF PipelineIInv
<1>6. CASE \E order \in P!InOrder(good[a]) : analyzed' \in P!XAdd(analyzed, P!EventsOf(order))
  <2>1. PICK order \in P!InOrder(good[a]) : analyzed' \in P!XAdd(analyzed, P!EventsOf(order))
    BY <1>6
  <2>2. PICK new \in Seq(P!StoredEvent) :
           /\ analyzed' \in P!XAdd(analyzed, new)
           /\ \A j \in 1 .. Len(new) : new[j].mention = raw.log[new[j].origin]
    BY <2>1, BatchProvenance
  <2>3. P!QueryIInv'
    BY <1>1, <2>2, ServiceAssumptions, P!AnalyzedGrowsInv DEF PipelineIInv, queryOnly
  <2>4. Provenance'
    <3>1. raw' = raw
      BY <1>3 DEF AnalyzerMoved
    <3>2. \A i \in 1 .. Len(analyzed.log) : analyzed'.log[i] = analyzed.log[i]
      BY <2>2, AnalyzedGrew
    <3>3. \A i \in 1 .. Len(analyzed'.log) :
             i \in 1 .. Len(analyzed.log) \/ \E j \in 1 .. Len(new) : analyzed'.log[i] = new[j]
      BY <2>2, AnalyzedGrew
    <3>4. \A i \in 1 .. Len(analyzed.log) :
             analyzed.log[i].mention = raw.log[analyzed.log[i].origin]
      BY DEF PipelineIInv, Provenance
    <3>5. \A i \in 1 .. Len(analyzed'.log) :
             analyzed'.log[i].mention = raw.log[analyzed'.log[i].origin]
      BY <2>2, <3>2, <3>3, <3>4
    <3>6. QED
      BY <3>1, <3>5 DEF Provenance
  <2>5. QED
    BY <1>2, <1>4, <2>3, <2>4 DEF PipelineIInv
<1>7. QED
  BY <1>3, <1>5, <1>6 DEF AnalyzerMoved

(* A step or a crash of the query service.                                 *)
LEMMA QueryMovesInv ==
    ASSUME PipelineIInv, NEW q \in Stores, QueryMoves(q) \/ QueryCrashes(q)
    PROVE  PipelineIInv'
<1>1. /\ UNCHANGED <<collectorOnly, raw, analyzerOnly>>
      /\ P!StoreStep(q) \/ P!CrashStore(q)
  BY SameStoreStep DEF QueryMoves, QueryCrashes
<1>2. P!QueryIInv'
  BY <1>1, ServiceAssumptions, P!QueryStepInv DEF PipelineIInv, P!QueryNext
<1>3. analyzed' = analyzed
  BY <1>1, StoreShape DEF StoreMoved
<1>4. P!CollectorIInv'
  BY <1>1, ServiceAssumptions, P!CollectorUnchangedInv
     DEF PipelineIInv, P!collectorVars, P!linkVars, collectorOnly
<1>5. P!AnalyzerIInv'
  BY <1>1, <1>3, ServiceAssumptions, P!UnchangedInv
     DEF PipelineIInv, P!analyzerVars, analyzerOnly
<1>6. Provenance'
  BY <1>1, <1>3 DEF PipelineIInv, Provenance
<1>7. QED
  BY <1>2, <1>4, <1>5, <1>6 DEF PipelineIInv

(* A stuttering step keeps the invariant.                                  *)
LEMMA PipelineUnchangedInv ==
    ASSUME PipelineIInv, UNCHANGED pipelineVars
    PROVE  PipelineIInv'
<1>1. UNCHANGED <<P!collectorVars, P!analyzerVars, P!queryVars>>
  BY DEF pipelineVars, collectorOnly, analyzerOnly, queryOnly, P!collectorVars, P!linkVars,
         P!analyzerVars, P!queryVars
<1>2. P!CollectorIInv' /\ P!AnalyzerIInv' /\ P!QueryIInv'
  BY <1>1, ServiceAssumptions, P!CollectorUnchangedInv, P!UnchangedInv, P!QueryUnchangedInv
     DEF PipelineIInv
<1>3. Provenance'
  BY DEF PipelineIInv, Provenance, pipelineVars
<1>4. QED
  BY <1>2, <1>3 DEF PipelineIInv

(* The inductive invariant of the pipeline holds: the services keep their  *)
(* invariants when each feeds the next, and every analysed event carries   *)
(* the mention of the raw entry it names.                                  *)
THEOREM PipelineInvariant == PipelineSpec => []PipelineIInv
<1>1. PipelineIInv /\ [PipelineNext]_pipelineVars => PipelineIInv'
  BY CollectorMovesInv, AnalyzerMovesInv, QueryMovesInv, PipelineUnchangedInv DEF PipelineNext
<1>2. QED
  BY <1>1, PipelineInitInv, PTL DEF PipelineSpec

(* In the composition as alone, whatever the services feed each other: a   *)
(* post is published at most once per coroutine and life of its key by     *)
(* those that look at the key, an entry is forwarded at most once and never*)
(* also dead-lettered, a mention has one row, and an acknowledged entry is *)
(* accounted for, both times.                                              *)
THEOREM PipelineIsSafe ==
    PipelineSpec =>
        [](/\ Collector!OnePublishPerWorker
           /\ Analyzer!ForwardedAtMostOnce
           /\ Analyzer!NeverForwardedAndDead
           /\ Analyzer!AckedIsAccountedFor
           /\ Query!StoredOnce
           /\ Query!AckedIsStoredOrDead)
<1>1. ASSUME PipelineIInv PROVE Collector!OnePublishPerWorker
  <2>1. P!OnePublishPerWorker
    BY <1>1, ServiceAssumptions, P!WithinIsBounded DEF PipelineIInv
  <2>2. QED
    BY <2>1, SameCardinality
       DEF P!OnePublishPerWorker, Collector!OnePublishPerWorker, P!Ids, Collector!Ids,
           P!Workers, Collector!Workers
<1>2. ASSUME PipelineIInv
      PROVE  Analyzer!ForwardedAtMostOnce /\ Analyzer!NeverForwardedAndDead
             /\ Analyzer!AckedIsAccountedFor
  BY <1>2 DEF PipelineIInv, P!AnalyzerIInv, P!ForwardedAtMostOnce, Analyzer!ForwardedAtMostOnce,
         P!NeverForwardedAndDead, Analyzer!NeverForwardedAndDead, P!AckedIsAccountedFor,
         Analyzer!AckedIsAccountedFor, P!Origins, Analyzer!Origins, P!DeadLetters,
         Analyzer!DeadLetters, P!Ids, Analyzer!Ids
<1>3. ASSUME PipelineIInv PROVE Query!StoredOnce /\ Query!AckedIsStoredOrDead
  BY <1>3 DEF PipelineIInv, P!QueryIInv, P!StoredOnce, Query!StoredOnce, P!AckedIsStoredOrDead,
         Query!AckedIsStoredOrDead, P!Stored, Query!Stored, P!MentionOf, Query!MentionOf,
         P!DeadIds, Query!DeadIds
<1>4. QED
  BY <1>1, <1>2, <1>3, PipelineInvariant, PTL

-----------------------------------------------------------------------------
(* The refinement of MentionDelivery, one kind of step at a time.          *)

DeliveryStep == [Delivery!DeliveryNext]_(Delivery!deliveryVars)

Elements(seq) == {seq[i] : i \in 1 .. Len(seq)}

GivenUpRaw == {raw.log[id] : id \in P!DeadLetters}

GivenUpAnalyzed == {analyzed.log[id].mention : id \in P!DeadIds}

(* What the refinement mapping reads, in the names of the services.        *)
LEMMA Mapping ==
    /\ Collected = Elements(raw.log) /\ Collected' = Elements(raw'.log)
    /\ GivenUp = GivenUpRaw \cup GivenUpAnalyzed /\ GivenUp' = GivenUpRaw' \cup GivenUpAnalyzed'
    /\ Delivery!InStore = P!Stored
BY DEF Collected, GivenUp, Elements, GivenUpRaw, GivenUpAnalyzed, Analyzer!Ids,
       Analyzer!DeadLetters, P!DeadLetters, Query!DeadIds, P!DeadIds, Delivery!InStore, P!Stored

(* The elements of a log and a batch together.                             *)
LEMMA ElementsTogether ==
    ASSUME NEW S, NEW s \in Seq(S), NEW t \in Seq(S)
    PROVE  Elements(s \o t) = Elements(s) \cup Elements(t) /\ Elements(t) \subseteq S
<1>1. /\ Len(s \o t) = Len(s) + Len(t) /\ Len(s) \in Nat /\ Len(t) \in Nat
      /\ \A i \in 1 .. Len(s) : (s \o t)[i] = s[i]
      /\ \A i \in 1 .. Len(t) : (s \o t)[Len(s) + i] = t[i]
  OBVIOUS
<1>2. \A i \in 1 .. Len(s \o t) :
         \/ i \in 1 .. Len(s) /\ (s \o t)[i] = s[i]
         \/ i - Len(s) \in 1 .. Len(t) /\ (s \o t)[i] = t[i - Len(s)]
  BY <1>1
<1>3. Elements(s \o t) \subseteq Elements(s) \cup Elements(t)
  BY <1>2 DEF Elements
<1>4. Elements(s) \subseteq Elements(s \o t)
  BY <1>1 DEF Elements
<1>5. ASSUME NEW i \in 1 .. Len(t) PROVE t[i] \in Elements(s \o t)
  <2>1. Len(s) + i \in 1 .. Len(s \o t) /\ (s \o t)[Len(s) + i] = t[i]
    BY <1>1
  <2>2. QED
    BY <2>1 DEF Elements
<1>6. Elements(t) \subseteq Elements(s \o t) /\ Elements(t) \subseteq S
  BY <1>5 DEF Elements
<1>7. QED
  BY <1>3, <1>4, <1>6

(* What is collected is a mention, and so is what an event carries, which  *)
(* was collected.                                                          *)
LEMMA OnlyCollected ==
    ASSUME PipelineIInv
    PROVE  /\ Collected \subseteq Mentions
           /\ \A i \in 1 .. Len(analyzed.log) : analyzed.log[i].mention \in Collected
<1>1. Collected \subseteq Mentions
  BY Mapping, Streams DEF Elements
<1>2. ASSUME NEW i \in 1 .. Len(analyzed.log) PROVE analyzed.log[i].mention \in Collected
  <2>1. analyzed.log[i].mention = raw.log[analyzed.log[i].origin]
    BY DEF PipelineIInv, Provenance
  <2>2. analyzed.log[i].origin \in 1 .. Len(raw.log)
    BY Streams
  <2>3. QED
    BY <2>1, <2>2, Mapping DEF Elements
<1>3. QED
  BY <1>1, <1>2

(* The refinement mapping takes the initial states to initial states.      *)
LEMMA RefinesInit == PipelineInit => Delivery!DeliveryInit
<1> SUFFICES ASSUME PipelineInit PROVE Delivery!DeliveryInit
  OBVIOUS
<1>1. /\ Len(raw.log) = 0 /\ rawDlq = << >> /\ rows = << >> /\ indexed = {}
      /\ analyzedDlq = << >>
  BY SameInit DEF P!AnalyzerInit, P!QueryInit, P!EmptyStream
<1>2. P!DeadLetters = {} /\ P!DeadIds = {}
  BY <1>1 DEF P!DeadLetters, P!DeadIds
<1>3. QED
  BY <1>1, <1>2, Mapping DEF Delivery!DeliveryInit, Elements, GivenUpRaw, GivenUpAnalyzed

(* A collector collects mentions or stutters.                              *)
LEMMA CollectorRefines ==
    ASSUME PipelineIInv,
           CollectionMoves \/ \E w \in Collector!Workers : CollectorMoves(w)
    PROVE  DeliveryStep
<1>1. /\ UNCHANGED <<analyzerOnly, analyzed, queryOnly>>
      /\ P!CollectorEvents \/ \E w \in P!Workers : P!CollectorStep(w)
  BY SameCollectorStep, SameCollectorEvents
     DEF CollectionMoves, CollectorMoves, Collector!Workers, P!Workers
<1>2. rows' = rows /\ indexed' = indexed /\ P!DeadLetters' = P!DeadLetters
      /\ P!DeadIds' = P!DeadIds /\ analyzed' = analyzed
  BY <1>1 DEF analyzerOnly, queryOnly, P!DeadLetters, P!DeadIds
<1>3. raw' = raw \/ \E new \in Seq(Mentions) : raw' \in P!XAdd(raw, new)
  BY <1>1, CollectorShape, CollectorEventsShape DEF PipelineIInv
<1>4. CASE raw' = raw
  <2>1. UNCHANGED <<Collected, GivenUp>>
    BY <1>2, <1>4, Mapping DEF GivenUpRaw, GivenUpAnalyzed
  <2>2. QED
    BY <1>2, <2>1 DEF DeliveryStep, Delivery!deliveryVars
<1>5. CASE \E new \in Seq(Mentions) : raw' \in P!XAdd(raw, new)
  <2>1. PICK new \in Seq(Mentions) : raw' \in P!XAdd(raw, new)
    BY <1>5
  <2>2. /\ raw'.log = raw.log \o new /\ raw.log \in Seq(Mentions)
        /\ \A i \in 1 .. Len(raw.log) : raw'.log[i] = raw.log[i]
    BY <2>1, RawGrew, Streams
  <2>3. Collected' = Collected \cup Elements(new) /\ Elements(new) \in SUBSET Mentions
    BY <2>2, Mapping, ElementsTogether
  <2>4. GivenUp' = GivenUp
    <3>1. \A id \in P!DeadLetters : id \in 1 .. Len(raw.log)
      BY Streams
    <3>2. GivenUpRaw' = GivenUpRaw /\ GivenUpAnalyzed' = GivenUpAnalyzed
      BY <1>2, <2>2, <3>1 DEF GivenUpRaw, GivenUpAnalyzed
    <3>3. QED
      BY <3>2, Mapping
  <2>5. Delivery!CollectMentions(Elements(new))
    BY <1>2, <2>3, <2>4 DEF Delivery!CollectMentions
  <2>6. QED
    BY <2>3, <2>5 DEF DeliveryStep, Delivery!DeliveryNext
<1>6. QED
  BY <1>3, <1>4, <1>5

(* An analyzer gives a mention up or stutters.                             *)
LEMMA AnalyzerRefines ==
    ASSUME PipelineIInv, NEW a \in Analyzers, AnalyzerMoves(a) \/ AnalyzerCrashes(a)
    PROVE  DeliveryStep
<1>1. /\ UNCHANGED <<collectorOnly, queryOnly>>
      /\ P!AnalyzerStep(a) \/ P!Crash(a)
  BY SameAnalyzerStep DEF AnalyzerMoves, AnalyzerCrashes
<1>2. rows' = rows /\ indexed' = indexed /\ P!DeadIds' = P!DeadIds
  BY <1>1 DEF queryOnly, P!DeadIds
<1>3. AnalyzerMoved(a)
  BY <1>1, AnalyzerShape
<1>4. raw' = raw /\ Collected' = Collected
  BY <1>3, Mapping DEF AnalyzerMoved
<1>5. ASSUME rawDlq' = rawDlq, GivenUpAnalyzed' = GivenUpAnalyzed
      PROVE  DeliveryStep
  <2>1. GivenUpRaw' = GivenUpRaw
    BY <1>4, <1>5 DEF GivenUpRaw, P!DeadLetters
  <2>2. GivenUp' = GivenUp
    BY <1>5, <2>1, Mapping
  <2>3. QED
    BY <1>2, <1>4, <2>2 DEF DeliveryStep, Delivery!deliveryVars
<1>6. CASE analyzed' = analyzed /\ rawDlq' = rawDlq
  BY <1>2, <1>5, <1>6 DEF GivenUpAnalyzed
<1>7. CASE /\ rawDlq' = rawDlq
           /\ \E order \in P!InOrder(good[a]) :
                 analyzed' \in P!XAdd(analyzed, P!EventsOf(order))
  <2>1. PICK new \in Seq(P!StoredEvent) : analyzed' \in P!XAdd(analyzed, new)
    BY <1>7, BatchProvenance
  <2>2. \A i \in 1 .. Len(analyzed.log) : analyzed'.log[i] = analyzed.log[i]
    BY <2>1, AnalyzedGrew
  <2>3. \A id \in P!DeadIds : id \in 1 .. Len(analyzed.log)
    BY Streams
  <2>4. GivenUpAnalyzed' = GivenUpAnalyzed
    BY <1>2, <2>2, <2>3 DEF GivenUpAnalyzed
  <2>5. QED
    BY <1>5, <1>7, <2>4
<1>8. CASE analyzed' = analyzed /\ \E id \in bad[a] : rawDlq' = Append(rawDlq, id)
  <2>1. PICK id \in bad[a] : rawDlq' = Append(rawDlq, id)
    BY <1>8
  <2>2. id \in 1 .. Len(raw.log) /\ id \in Nat
    BY Streams
  <2>3. P!DeadLetters' = P!DeadLetters \cup {id}
    BY <2>1, <2>2, ServiceAssumptions, P!AppendedDead DEF PipelineIInv, P!AnalyzerIInv
  <2>4. GivenUpRaw' = GivenUpRaw \cup {raw.log[id]} /\ GivenUpAnalyzed' = GivenUpAnalyzed
    BY <1>2, <1>4, <1>8, <2>3 DEF GivenUpRaw, GivenUpAnalyzed
  <2>5. GivenUp' = GivenUp \cup {raw.log[id]}
    BY <2>4, Mapping
  <2>6. raw.log[id] \in Collected /\ raw.log[id] \in Mentions
    BY <2>2, Mapping, OnlyCollected DEF Elements
  <2>7. Delivery!GiveUp(raw.log[id])
    BY <1>2, <1>4, <2>5, <2>6 DEF Delivery!GiveUp
  <2>8. QED
    BY <2>6, <2>7 DEF DeliveryStep, Delivery!DeliveryNext
<1>9. QED
  BY <1>3, <1>6, <1>7, <1>8 DEF AnalyzerMoved

(* The query service stores a mention, makes one searchable, gives one up, *)
(* or stutters.                                                            *)
LEMMA QueryRefines ==
    ASSUME PipelineIInv, NEW q \in Stores, QueryMoves(q) \/ QueryCrashes(q)
    PROVE  DeliveryStep
<1>1. /\ UNCHANGED <<collectorOnly, raw, analyzerOnly>>
      /\ P!StoreStep(q) \/ P!CrashStore(q)
  BY SameStoreStep DEF QueryMoves, QueryCrashes
<1>2. StoreMoved(q)
  BY <1>1, StoreShape
<1>3. raw' = raw /\ Collected' = Collected /\ analyzed' = analyzed
  BY <1>1, <1>2, Mapping DEF StoreMoved
<1>4. GivenUpRaw' = GivenUpRaw
  BY <1>1 DEF GivenUpRaw, P!DeadLetters, analyzerOnly
<1>5. ASSUME analyzedDlq' = analyzedDlq PROVE GivenUp' = GivenUp
  BY <1>3, <1>4, <1>5, Mapping DEF GivenUpAnalyzed, P!DeadIds
<1>6. CASE UNCHANGED <<rows, indexed, analyzedDlq>>
  BY <1>3, <1>5, <1>6 DEF DeliveryStep, Delivery!deliveryVars
<1>7. ASSUME NEW id \in batch[q]
      PROVE  /\ id \in Nat /\ id \in 1 .. Len(analyzed.log)
             /\ P!MentionOf(id) = analyzed.log[id].mention
             /\ P!MentionOf(id) \in Collected /\ P!MentionOf(id) \in Mentions
  <2>1. id \in 1 .. Len(analyzed.log)
    BY Streams
  <2>2. QED
    BY <2>1, OnlyCollected DEF P!MentionOf
<1>8. ASSUME NEW id \in batch[q], P!MentionOf(id) \notin P!Stored,
             rows' = Append(rows, P!MentionOf(id)), UNCHANGED <<indexed, analyzedDlq>>
      PROVE  DeliveryStep
  <2>1. Delivery!StoreMention(P!MentionOf(id))
    BY <1>3, <1>5, <1>7, <1>8, Mapping DEF Delivery!StoreMention
  <2>2. QED
    BY <1>7, <2>1 DEF DeliveryStep, Delivery!DeliveryNext
<1>9. ASSUME NEW id \in batch[q], P!IsNext(q, id), qpc[q] = "index",
             indexed' = indexed \cup {P!MentionOf(id)}, UNCHANGED <<rows, analyzedDlq>>
      PROVE  DeliveryStep
  <2>1. P!MentionOf(id) \in P!Stored
    BY <1>9 DEF PipelineIInv, P!QueryIInv, P!Justified
  <2>2. Delivery!MakeSearchable(P!MentionOf(id))
    BY <1>3, <1>5, <1>9, <2>1, Mapping DEF Delivery!MakeSearchable
  <2>3. QED
    BY <1>7, <2>2 DEF DeliveryStep, Delivery!DeliveryNext
<1>10. ASSUME NEW id \in batch[q], UNCHANGED <<rows, indexed>>,
              analyzedDlq' = Append(analyzedDlq, [id |-> id, error |-> error[q]])
       PROVE  DeliveryStep
  <2>1. PICK entry \in P!DLQEntry : entry.id = id /\ analyzedDlq' = Append(analyzedDlq, entry)
    BY <1>7, <1>10 DEF PipelineIInv, P!QueryIInv, P!QueryTypeOK, P!DLQEntry
  <2>2. P!DeadIds' = P!DeadIds \cup {id}
    BY <2>1, ServiceAssumptions, P!AppendedDeadId DEF PipelineIInv, P!QueryIInv
  <2>3. GivenUpAnalyzed' = GivenUpAnalyzed \cup {P!MentionOf(id)}
    BY <1>3, <1>7, <2>2 DEF GivenUpAnalyzed
  <2>4. GivenUp' = GivenUp \cup {P!MentionOf(id)}
    BY <1>4, <2>3, Mapping
  <2>5. Delivery!GiveUp(P!MentionOf(id))
    BY <1>3, <1>7, <1>10, <2>4 DEF Delivery!GiveUp
  <2>6. QED
    BY <1>7, <2>5 DEF DeliveryStep, Delivery!DeliveryNext
<1>11. QED
  BY <1>2, <1>6, <1>8, <1>9, <1>10 DEF StoreMoved

(* Nothing moves.                                                          *)
LEMMA StutterRefines ==
    ASSUME UNCHANGED pipelineVars
    PROVE  DeliveryStep
<1>1. Collected' = Collected /\ GivenUp' = GivenUp
  BY DEF pipelineVars, analyzerOnly, queryOnly, Collected, GivenUp, Analyzer!Ids,
         Analyzer!DeadLetters, Query!DeadIds
<1>2. rows' = rows /\ indexed' = indexed
  BY DEF pipelineVars, queryOnly
<1>3. QED
  BY <1>1, <1>2 DEF DeliveryStep, Delivery!deliveryVars

(* The pipeline implements MentionDelivery: for any numbers of replicas,   *)
(* any batch sizes and trimming, and any crashes and lost replies, only    *)
(* what was collected is stored or dead-lettered, it is stored once, and   *)
(* only what is stored is searchable.                                      *)
THEOREM PipelineRefinesDelivery == PipelineSpec => ImplementsDelivery
<1>1. PipelineIInv /\ [PipelineNext]_pipelineVars => DeliveryStep
  BY CollectorRefines, AnalyzerRefines, QueryRefines, StutterRefines DEF PipelineNext
<1>2. QED
  BY <1>1, RefinesInit, PipelineInvariant, PTL
     DEF PipelineSpec, ImplementsDelivery, Delivery!DeliverySpec, DeliveryStep
=============================================================================
