--------------------------- MODULE ConsumerProofs ---------------------------
(***************************************************************************)
(* Proofs about the consumers around the pipeline (Media, Reports,         *)
(* AuditTrail, Enrichment, ExportJobs, DeadLetters, Notification,          *)
(* Workflows), the two report schedules (ReportSchedule), and their        *)
(* composition (Consumers), for any number of replicas, messages, rows,    *)
(* requests and ticks.                                                     *)
(*                                                                         *)
(* The first section proves what every consumer loop keeps: LoopIInv, the  *)
(* types of stream, group and batches, and that an entry is in the batch   *)
(* of one replica at most and was delivered.  Each of the other sections   *)
(* extends it by what the service knows at its awaits:                     *)
(*   MediaIInv         a row is about to be written only for a result that *)
(*                     was announced;                                      *)
(*   ReportsIInv       a request about to be acknowledged was answered;    *)
(*   RetentionIInv     the rows a round has doomed are too old for a       *)
(*                     policy that was in force during it;                 *)
(*   PurgeIInv         a purge that has selected an organisation's logs    *)
(*                     has them all, and an event not stored left no row;  *)
(*   EnrichmentIInv    a mention's results and the replicas about to       *)
(*                     announce or to remember it stay within a budget     *)
(*                     that a lapse of its key renews;                     *)
(*   ExportsIInv       who works on a job, and on what;                    *)
(*   DeadLettersIInv   where each message is, the copies an operator has   *)
(*                     published and not yet deleted included;             *)
(*   NotificationIInv  what the counters count, what alert_logs holds and  *)
(*                     what was sent;                                      *)
(*   WorkflowsIInv     a run that a replica holds was not counted yet;     *)
(*   ReporterIInv, SchedulerIInv                                           *)
(*                     a loop has made one report more than it started     *)
(*                     anew only if it is past the project and the hour.   *)
(* The last sections add to each what its type says besides (MediaFits,    *)
(* ReportsFit, ...): where a replica may be, and what it may hold there.   *)
(***************************************************************************)
EXTENDS Consumers, FiniteSetTheorems, TLAPS

-----------------------------------------------------------------------------
(* The loop the services share.                                            *)

IsOn(f, S) == f = [x \in S |-> f[x]]

(* The group has delivered entries of the stream only, each to one replica *)
(* that has not disposed of it, and a replica without any is idle.         *)
LoopIInv(Entry) ==
    /\ stream \in StreamOf(Entry)
    /\ group \in Group
    /\ group.last <= Len(stream.log)
    /\ group.pending \cup group.acked \subseteq 1 .. group.last
    /\ IsOn(place, Workers)
    /\ todo \in [Workers -> SUBSET (1 .. group.last)]
    /\ \A w \in Workers : place[w] = "idle" <=> todo[w] = {}
    /\ \A v, w \in Workers : v # w => todo[v] \cap todo[w] = {}

(* The log only grows, and is trimmed at its beginning.                    *)
Grows ==
    /\ Len(stream.log) <= Len(stream'.log)
    /\ stream.first <= stream'.first
    /\ \A id \in 1 .. Len(stream.log) : stream'.log[id] = stream.log[id]

(* Only the replica w moves.                                               *)
Moves(w) ==
    \A v \in Workers : v # w => place'[v] = place[v] /\ todo'[v] = todo[v]

(* Replica w goes on with what it has left, and may acknowledge id.        *)
GoesOn(w, id) ==
    /\ stream' = stream
    /\ group' \in {group, XAck(group, id)}
    /\ Moves(w)
    /\ IsOn(place', Workers) /\ IsOn(todo', Workers)
    /\ todo'[w] \subseteq todo[w]
    /\ place'[w] = "idle" <=> todo'[w] = {}

(* A replica that goes on keeps the loop's invariant.                      *)
LEMMA GoesOnInv ==
    ASSUME NEW Entry, LoopIInv(Entry), NEW w \in Workers, NEW id \in Nat, GoesOn(w, id)
    PROVE  LoopIInv(Entry)'
<1>1. /\ group' \in Group /\ group'.last = group.last
      /\ group'.pending \cup group'.acked \subseteq 1 .. group.last
  <2>1. CASE group' = group
    BY <2>1 DEF LoopIInv
  <2>2. CASE group' = XAck(group, id)
    BY <2>2 DEF LoopIInv, XAck, Group
  <2>3. QED
    BY <2>1, <2>2 DEF GoesOn
<1>2. \A v \in Workers : todo'[v] \subseteq todo[v]
  BY DEF GoesOn, Moves
<1>3. todo' \in [Workers -> SUBSET (1 .. group.last)]
  BY <1>2 DEF GoesOn, LoopIInv, IsOn
<1>4. \A v \in Workers : place'[v] = "idle" <=> todo'[v] = {}
  BY DEF GoesOn, Moves, LoopIInv
<1>5. QED
  BY <1>1, <1>2, <1>3, <1>4 DEF GoesOn, LoopIInv

(* A step inside the handler.                                              *)
LEMMA StepMoves ==
    ASSUME NEW Entry, LoopIInv(Entry), NEW w \in Workers, NEW where, NEW id \in todo[w],
           where # "idle", Step(w, where)
    PROVE  /\ id \in Nat /\ GoesOn(w, id)
           /\ UNCHANGED <<stream, group, todo>>
           /\ place'[w] = where
BY DEF Step, Goto, GoesOn, Moves, IsOn, LoopIInv

(* The next entry of the batch.                                            *)
LEMMA FinishedMoves ==
    ASSUME NEW Entry, LoopIInv(Entry), NEW w \in Workers, NEW id \in todo[w],
           Finished(w, id), stream' = stream, group' \in {group, XAck(group, id)}
    PROVE  /\ id \in Nat /\ GoesOn(w, id)
           /\ todo'[w] = todo[w] \ {id}
           /\ place'[w] \in {"idle", "handle"}
<1>1. todo' = [todo EXCEPT ![w] = @ \ {id}] /\ todo \in [Workers -> SUBSET Nat] /\ id \in Nat
  BY DEF Finished, LoopIInv
<1>2. todo'[w] = todo[w] \ {id} /\ IsOn(todo', Workers)
      /\ \A v \in Workers : v # w => todo'[v] = todo[v]
  BY <1>1 DEF IsOn
<1>3. PICK where \in {"idle", "handle"} :
         /\ place' = [place EXCEPT ![w] = where]
         /\ where = "idle" <=> todo'[w] = {}
  BY DEF Finished, Goto
<1>4. place'[w] = where /\ IsOn(place', Workers) /\ \A v \in Workers : v # w => place'[v] = place[v]
  BY <1>3 DEF IsOn, LoopIInv
<1>5. QED
  BY <1>1, <1>2, <1>3, <1>4 DEF GoesOn, Moves

(* The batch is given up.                                                  *)
LEMMA AbandonMoves ==
    ASSUME NEW Entry, LoopIInv(Entry), NEW w \in Workers, NEW id \in Nat,
           Abandon(w), stream' = stream, group' \in {group, XAck(group, id)}
    PROVE  GoesOn(w, id) /\ todo'[w] = {} /\ place'[w] = "idle"
BY DEF Abandon, Goto, GoesOn, Moves, IsOn, LoopIInv

(* XACK of the entry at hand.                                              *)
LEMMA AcknowledgeMoves ==
    ASSUME NEW Entry, LoopIInv(Entry), NEW w \in Workers, NEW id \in todo[w], NEW reply,
           Acknowledge(w, id, reply)
    PROVE  /\ id \in Nat /\ GoesOn(w, id)
           /\ todo'[w] = {} \/ todo'[w] = todo[w] \ {id}
           /\ place'[w] \in {"idle", "handle"}
<1>1. id \in Nat /\ stream' = stream /\ group' \in {group, XAck(group, id)}
  BY DEF Acknowledge, LoopIInv
<1>2. QED
  BY <1>1, FinishedMoves, AbandonMoves DEF Acknowledge

(* A new entry.                                                            *)
LEMMA AddGrows ==
    ASSUME NEW Entry, LoopIInv(Entry), NEW entry \in Entry, Enter(entry) \/ Add(entry)
    PROVE  /\ LoopIInv(Entry)' /\ Grows
           /\ UNCHANGED <<group, place, todo>>
           /\ Len(stream'.log) = Len(stream.log) + 1
           /\ stream'.log[Len(stream.log) + 1] = entry
<1>1. stream.log \in Seq(Entry) /\ stream.first \in Nat \ {0} /\ Len(stream.log) \in Nat
  BY DEF LoopIInv, StreamOf
<1>2. PICK f \in stream.first .. Len(stream.log \o <<entry>>) :
         stream' = [log |-> stream.log \o <<entry>>, first |-> f]
  BY DEF Add, Enter, XAdd
<1> DEFINE log == stream.log \o <<entry>>
<1>3. /\ log \in Seq(Entry) /\ Len(log) = Len(stream.log) + 1
      /\ \A id \in 1 .. Len(stream.log) : log[id] = stream.log[id]
      /\ log[Len(stream.log) + 1] = entry
  BY <1>1
<1>4. stream'.log = log /\ stream'.first = f /\ f \in Nat \ {0} /\ stream.first <= f
  BY <1>1, <1>2, <1>3
<1>5. stream' \in StreamOf(Entry)
  BY <1>2, <1>3, <1>4 DEF StreamOf
<1> HIDE DEF log
<1>6. UNCHANGED <<group, place, todo>>
  BY DEF Add, Enter
<1>7. LoopIInv(Entry)'
  <2>1. group.last \in Nat /\ group'.last <= Len(stream'.log)
    BY <1>1, <1>3, <1>4, <1>6 DEF LoopIInv, Group
  <2>2. QED
    BY <1>5, <1>6, <2>1 DEF LoopIInv
<1>8. QED
  BY <1>1, <1>3, <1>4, <1>6, <1>7 DEF Grows

(* XREADGROUP gives the replica entries that nobody has had.               *)
LEMMA ConsumeMoves ==
    ASSUME NEW Entry, LoopIInv(Entry), NEW w \in Workers, NEW reply, Consume(w, reply)
    PROVE  /\ LoopIInv(Entry)' /\ Moves(w)
           /\ stream' = stream
           /\ group'.acked = group.acked
           /\ group'.last >= group.last
           /\ group'.pending = group.pending \cup Fresh(stream, group, BatchSize)
           /\ \A id \in Fresh(stream, group, BatchSize) :
                 id > group.last /\ id <= Len(stream.log)
           /\ \A id \in group.last + 1 .. group'.last :
                 id \in Fresh(stream, group, BatchSize) \/ id < stream.first
           /\ todo'[w] = IF Raised(reply) THEN {} ELSE Fresh(stream, group, BatchSize)
           /\ place'[w] \in {"idle", "handle"}
<1> DEFINE new == Fresh(stream, group, BatchSize)
           low == FirstFresh(stream, group)
           high == LastFresh(stream, group, BatchSize)
<1>1. stream.first \in Nat \ {0} /\ Len(stream.log) \in Nat /\ group.last \in Nat
      /\ BatchSize \in Nat \ {0} /\ group.last <= Len(stream.log)
  BY LoopAssumption DEF LoopIInv, StreamOf, Group
<1>2. low \in Nat /\ high \in Int /\ low > group.last /\ high <= Len(stream.log)
      /\ \A id \in group.last + 1 .. low - 1 : id < stream.first
  BY <1>1 DEF FirstFresh, LastFresh
<1>3. new = low .. high
  BY DEF Fresh
<1>4. new # {} /\ group' = [last |-> high, pending |-> group.pending \cup new, acked |-> group.acked]
  BY DEF Consume, XReadGroup
<1> HIDE DEF new, low, high
<1>5. high >= low /\ high \in Nat
  BY <1>2, <1>3, <1>4
<1>6. group' \in Group /\ group'.last = high /\ group'.acked = group.acked
      /\ group'.pending = group.pending \cup new
  <2>1. group.pending \subseteq Nat /\ group.acked \subseteq Nat
    BY DEF LoopIInv, Group
  <2>2. QED
    BY <1>2, <1>3, <1>4, <1>5, <2>1 DEF Group
<1>7. group'.pending \cup group'.acked \subseteq 1 .. high
  BY <1>1, <1>2, <1>3, <1>5, <1>6 DEF LoopIInv
<1>8. \A id \in group.last + 1 .. high : id \in new \/ id < stream.first
  BY <1>1, <1>2, <1>3, <1>5
<1>9. /\ stream' = stream /\ Moves(w)
      /\ todo'[w] = (IF Raised(reply) THEN {} ELSE new)
      /\ place'[w] = (IF Raised(reply) THEN "idle" ELSE "handle")
      /\ IsOn(place', Workers) /\ IsOn(todo', Workers)
  BY DEF Consume, Goto, Moves, IsOn, LoopIInv, new
<1>10. new \subseteq 1 .. high /\ \A v \in Workers : todo[v] \subseteq 1 .. high
  BY <1>1, <1>2, <1>3, <1>5 DEF LoopIInv
<1>11. todo' \in [Workers -> SUBSET (1 .. high)]
  BY <1>9, <1>10 DEF Moves, IsOn
<1>12. \A v \in Workers : place'[v] = "idle" <=> todo'[v] = {}
  BY <1>4, <1>9 DEF Moves, LoopIInv
<1>13. \A v \in Workers : todo[v] \cap new = {}
  BY <1>1, <1>2, <1>3 DEF LoopIInv
<1>14. \A u, v \in Workers : u # v => todo'[u] \cap todo'[v] = {}
  BY <1>9, <1>13 DEF Moves, LoopIInv
<1>15. LoopIInv(Entry)'
  BY <1>2, <1>6, <1>7, <1>9, <1>11, <1>12, <1>14 DEF LoopIInv
<1>16. QED
  BY <1>1, <1>2, <1>3, <1>5, <1>6, <1>8, <1>9, <1>15 DEF new

(* A crash gives up the batch.                                             *)
LEMMA CrashMoves ==
    ASSUME NEW Entry, LoopIInv(Entry), NEW w \in Workers, CrashLoop(w)
    PROVE  /\ GoesOn(w, 1) /\ todo'[w] = {} /\ place'[w] = "idle"
           /\ UNCHANGED <<stream, group>>
BY AbandonMoves DEF CrashLoop

(* There is one entry at hand.                                             *)
LEMMA OneAtHand ==
    ASSUME NEW Entry, LoopIInv(Entry), NEW w \in Workers, NEW where, NEW other, NEW i, NEW j,
           At(w, where, i), At(w, other, j)
    PROVE  where = other /\ i = j /\ i \in Nat
<1>1. i \in Nat /\ j \in Nat /\ i <= j /\ j <= i
  BY DEF At, LoopIInv
<1>2. QED
  BY <1>1 DEF At

(* The loop begins with nothing.                                           *)
LEMMA LoopInitInv ==
    ASSUME NEW Entry, LoopInit
    PROVE  LoopIInv(Entry)
BY DEF LoopInit, LoopIInv, EmptyStream, NewGroup, StreamOf, Group, IsOn

(* If nothing moves nothing changes.                                       *)
LEMMA LoopStays ==
    ASSUME NEW Entry, LoopIInv(Entry), UNCHANGED loopVars
    PROVE  LoopIInv(Entry)'
BY DEF LoopIInv, loopVars

-----------------------------------------------------------------------------
(* The media service.                                                      *)

(* A replica that is about to write a row has announced what it writes.    *)
MediaIInv ==
    /\ LoopIInv(MediaRequests)
    /\ IsOn(result, Workers) /\ IsOn(mediaRow, MediaMentions)
    /\ MediaRowWasAnnounced
    /\ \A w \in Workers : \A id \in todo[w] :
          At(w, "update", id) => <<EntryAt(id).mention, result[w]>> \in mediaResults

(* A step that leaves result, announcements and rows alone, or one of the  *)
(* replica at hand that does not lead to "update".                         *)
LEMMA MediaQuietInv ==
    ASSUME MediaIInv, NEW w \in Workers, LoopIInv(MediaRequests)', Moves(w), stream' = stream,
           place'[w] # "update", UNCHANGED <<mediaResults, mediaRow>>,
           IsOn(result', Workers), \A v \in Workers : v # w => result'[v] = result[v]
    PROVE  MediaIInv'
<1>1. ASSUME NEW v \in Workers, NEW id \in todo'[v], At(v, "update", id)'
      PROVE  <<EntryAt(id)', result'[v]>> = <<EntryAt(id), result[v]>> /\ At(v, "update", id)
             /\ id \in todo[v]
  <2>1. v # w
    BY <1>1 DEF At
  <2>2. QED
    BY <1>1, <2>1 DEF At, Moves, EntryAt
<1>2. QED
  BY <1>1 DEF MediaIInv, MediaRowWasAnnounced

(* A request, a batch, and a crash.                                        *)
LEMMA MediaLoopInv ==
    ASSUME MediaIInv,
           \/ \E request \in MediaRequests : RequestMedia(request)
           \/ \E w \in Workers, reply \in Replies :
                 Consume(w, reply) /\ UNCHANGED <<result, mediaResults, mediaRow>>
           \/ \E w \in Workers : CrashLoop(w) /\ ForgetResult(w)
    PROVE  MediaIInv'
<1>1. ASSUME NEW request \in MediaRequests, RequestMedia(request)
      PROVE  MediaIInv'
  <2>1. /\ LoopIInv(MediaRequests)' /\ Grows
        /\ UNCHANGED <<group, place, todo, result, mediaResults, mediaRow>>
    BY <1>1, AddGrows DEF MediaIInv, RequestMedia
  <2>2. ASSUME NEW w \in Workers, NEW id \in todo[w]
        PROVE  EntryAt(id)' = EntryAt(id)
    <3>1. id \in 1 .. Len(stream.log)
      BY <2>2 DEF MediaIInv, LoopIInv, StreamOf, Group
    <3>2. QED
      BY <2>1, <3>1 DEF Grows, EntryAt
  <2>3. QED
    BY <2>1, <2>2 DEF MediaIInv, MediaRowWasAnnounced, At
<1>2. ASSUME NEW w \in Workers, NEW reply \in Replies, Consume(w, reply),
             UNCHANGED <<result, mediaResults, mediaRow>>
      PROVE  MediaIInv'
  <2>1. LoopIInv(MediaRequests)' /\ Moves(w) /\ stream' = stream /\ place'[w] \in {"idle", "handle"}
    BY <1>2, ConsumeMoves DEF MediaIInv
  <2>2. QED
    BY <1>2, <2>1, MediaQuietInv DEF MediaIInv
<1>3. ASSUME NEW w \in Workers, CrashLoop(w), ForgetResult(w)
      PROVE  MediaIInv'
  <2>1. GoesOn(w, 1) /\ place'[w] = "idle"
    BY <1>3, CrashMoves DEF MediaIInv
  <2>2. LoopIInv(MediaRequests)' /\ Moves(w) /\ stream' = stream
    BY <2>1, GoesOnInv DEF MediaIInv, GoesOn
  <2>3. QED
    BY <1>3, <2>1, <2>2, MediaQuietInv DEF MediaIInv, ForgetResult, IsOn
<1>4. QED
  BY <1>1, <1>2, <1>3

(* The steps of a handler before it writes the row.                        *)
LEMMA MediaHandlerInv ==
    ASSUME MediaIInv, NEW w \in Workers, NEW id \in todo[w],
           \/ SkipMedia(w, id)
           \/ \E arrived \in BOOLEAN : Download(w, id, arrived)
           \/ \E parts : \E readable \in BOOLEAN : AnalyzeImage(w, id, parts, readable)
           \/ \E parts : AnalyzeSound(w, id, parts)
    PROVE  MediaIInv'
<1>1. PICK where \in {"finally", "analyze", "publish"} : Step(w, where)
  BY DEF SkipMedia, Download, AnalyzeImage, AnalyzeSound
<1>2. GoesOn(w, id) /\ place'[w] = where /\ id \in Nat
  BY <1>1, StepMoves DEF MediaIInv
<1>3. LoopIInv(MediaRequests)' /\ Moves(w) /\ stream' = stream
  BY <1>2, GoesOnInv DEF MediaIInv, GoesOn
<1>4. /\ UNCHANGED <<mediaResults, mediaRow>> /\ IsOn(result', Workers)
      /\ \A v \in Workers : v # w => result'[v] = result[v]
  BY DEF SkipMedia, Download, AnalyzeImage, AnalyzeSound, MediaIInv, IsOn
<1>5. QED
  BY <1>1, <1>2, <1>3, <1>4, MediaQuietInv

(* The announcement, the row, and the acknowledgement.                     *)
LEMMA MediaResultInv ==
    ASSUME MediaIInv, NEW w \in Workers, NEW id \in todo[w], NEW reply \in Replies,
           \/ PublishResult(w, id, reply)
           \/ UpdateMention(w, id, reply)
           \/ AckFinally(w, id, reply) /\ ForgetResult(w)
    PROVE  MediaIInv'
<1>1. ASSUME PublishResult(w, id, reply) PROVE MediaIInv'
  <2>1. PICK where \in {"finally", "update"} :
           Step(w, where) /\ (where = "update" => Applied(reply))
    BY <1>1 DEF PublishResult, Raised, Applied
  <2>2. GoesOn(w, id) /\ place'[w] = where /\ id \in Nat /\ todo' = todo
    BY <2>1, StepMoves DEF MediaIInv
  <2>3. LoopIInv(MediaRequests)' /\ Moves(w) /\ stream' = stream
    BY <2>2, GoesOnInv DEF MediaIInv, GoesOn
  <2>4. /\ mediaResults \subseteq mediaResults'
        /\ Applied(reply) => <<EntryAt(id).mention, result[w]>> \in mediaResults'
        /\ UNCHANGED <<result, mediaRow>>
    BY <1>1 DEF PublishResult
  <2>5. ASSUME NEW v \in Workers, NEW j \in todo'[v], At(v, "update", j)'
        PROVE  <<EntryAt(j)'.mention, result'[v]>> \in mediaResults'
    <3>1. EntryAt(j)' = EntryAt(j) /\ j \in todo[v]
      BY <2>2, <2>3 DEF EntryAt
    <3>2. CASE v # w
      <4>1. At(v, "update", j)
        BY <2>3, <2>5, <3>2 DEF At, Moves
      <4>2. QED
        BY <2>4, <3>1, <4>1 DEF MediaIInv
    <3>3. CASE v = w
      <4>1. At(w, "publish", id) /\ At(w, "publish", j)
        BY <1>1, <2>2, <2>5, <3>3 DEF At, PublishResult
      <4>2. j = id
        BY <4>1, OneAtHand DEF MediaIInv
      <4>3. Applied(reply)
        BY <2>1, <2>2, <2>5, <3>3 DEF At
      <4>4. QED
        BY <2>4, <3>1, <3>3, <4>2, <4>3
    <3>4. QED
      BY <3>2, <3>3
  <2>6. QED
    BY <2>3, <2>4, <2>5 DEF MediaIInv, MediaRowWasAnnounced
<1>2. ASSUME UpdateMention(w, id, reply) PROVE MediaIInv'
  <2>1. At(w, "update", id) /\ Step(w, "finally")
    BY <1>2 DEF UpdateMention
  <2>2. GoesOn(w, id) /\ place'[w] = "finally" /\ id \in Nat
    BY <2>1, StepMoves DEF MediaIInv
  <2>3. LoopIInv(MediaRequests)' /\ Moves(w) /\ stream' = stream
    BY <2>2, GoesOnInv DEF MediaIInv, GoesOn
  <2>4. <<EntryAt(id).mention, result[w]>> \in mediaResults
    BY <2>1 DEF MediaIInv
  <2>5. /\ IsOn(mediaRow', MediaMentions) /\ UNCHANGED <<result, mediaResults>>
        /\ \A m \in MediaMentions :
              mediaRow'[m] = mediaRow[m] \/ (m = EntryAt(id).mention /\ mediaRow'[m] = result[w])
    BY <1>2 DEF UpdateMention, MediaIInv, IsOn
  <2>6. MediaRowWasAnnounced'
    BY <2>4, <2>5 DEF MediaIInv, MediaRowWasAnnounced
  <2>7. ASSUME NEW v \in Workers, NEW j \in todo'[v], At(v, "update", j)'
        PROVE  <<EntryAt(j)'.mention, result'[v]>> \in mediaResults'
    <3>1. v # w
      BY <2>2, <2>7 DEF At
    <3>2. At(v, "update", j) /\ j \in todo[v] /\ EntryAt(j)' = EntryAt(j)
      BY <2>3, <2>7, <3>1 DEF At, Moves, EntryAt
    <3>3. QED
      BY <2>5, <3>2 DEF MediaIInv
  <2>8. QED
    BY <2>3, <2>5, <2>6, <2>7 DEF MediaIInv
<1>3. ASSUME AckFinally(w, id, reply), ForgetResult(w) PROVE MediaIInv'
  <2>1. GoesOn(w, id) /\ place'[w] \in {"idle", "handle"} /\ id \in Nat
    BY <1>3, AcknowledgeMoves DEF MediaIInv, AckFinally
  <2>2. LoopIInv(MediaRequests)' /\ Moves(w) /\ stream' = stream
    BY <2>1, GoesOnInv DEF MediaIInv, GoesOn
  <2>3. QED
    BY <1>3, <2>1, <2>2, MediaQuietInv DEF MediaIInv, ForgetResult, IsOn
<1>4. QED
  BY <1>1, <1>2, <1>3

(* Every step of the media service keeps its invariant.                    *)
LEMMA MediaStepInv == MediaIInv /\ [MediaNext]_mediaVars => MediaIInv'
<1>1. ASSUME MediaIInv, UNCHANGED mediaVars PROVE MediaIInv'
  <2>1. LoopIInv(MediaRequests)'
    BY <1>1, LoopStays DEF MediaIInv, mediaVars
  <2>2. QED
    BY <1>1, <2>1 DEF MediaIInv, mediaVars, loopVars, MediaRowWasAnnounced, At, EntryAt
<1>2. ASSUME MediaIInv, MediaNext PROVE MediaIInv'
  <2>1. CASE \E request \in MediaRequests : RequestMedia(request)
    BY <1>2, <2>1, MediaLoopInv
  <2>2. ASSUME NEW w \in Workers, CrashLoop(w) /\ ForgetResult(w) PROVE MediaIInv'
    BY <1>2, <2>2, MediaLoopInv
  <2>3. ASSUME NEW w \in Workers, MediaStep(w) PROVE MediaIInv'
    <3>1. CASE \E reply \in Replies :
                  Consume(w, reply) /\ UNCHANGED <<result, mediaResults, mediaRow>>
      BY <1>2, <3>1, MediaLoopInv
    <3>2. ASSUME NEW id \in todo[w],
                 \/ SkipMedia(w, id)
                 \/ \E arrived \in BOOLEAN : Download(w, id, arrived)
                 \/ \E parts : \E readable \in BOOLEAN : AnalyzeImage(w, id, parts, readable)
                 \/ \E parts : AnalyzeSound(w, id, parts)
          PROVE  MediaIInv'
      BY <1>2, <3>2, MediaHandlerInv
    <3>3. ASSUME NEW id \in todo[w], NEW reply \in Replies,
                 \/ PublishResult(w, id, reply)
                 \/ UpdateMention(w, id, reply)
                 \/ AckFinally(w, id, reply) /\ ForgetResult(w)
          PROVE  MediaIInv'
      BY <1>2, <3>3, MediaResultInv
    <3>4. QED
      BY <2>3, <3>1, <3>2, <3>3 DEF MediaStep
  <2>4. QED
    BY <1>2, <2>1, <2>2, <2>3 DEF MediaNext
<1>3. QED
  BY <1>1, <1>2

(* No mention has a result, nor a row.                                     *)
LEMMA MediaInitInv == MediaInit => MediaIInv
BY LoopInitInv DEF MediaInit, MediaIInv, MediaRowWasAnnounced, IsOn, LoopInit

(* A mention's media columns never hold what was not announced first,      *)
(* whatever fails or crashes in between and however requests for one       *)
(* mention overlap, for any number of replicas and any batch size.         *)
THEOREM MediaAnnouncesFirst == MediaSpec => []MediaRowWasAnnounced
<1>1. MediaIInv => MediaRowWasAnnounced
  BY DEF MediaIInv
<1>2. QED
  BY MediaInitInv, <1>1, MediaStepInv, PTL DEF MediaSpec

-----------------------------------------------------------------------------
(* The report service.                                                     *)

Answerable(id) == EntryAt(id).project \in KnownProjects /\ EntryAt(id).type \in ReportTypes

Reported(id) == \E r \in reports : r.for = id

(* A listener that has come to the announcement has stored the report, and *)
(* one that has come to the acknowledgement has announced it as well.      *)
Earned(w) ==
    \A id \in todo[w] : Answerable(id) =>
        /\ At(w, "ready", id) => Reported(id)
        /\ At(w, "ack", id) => Reported(id) /\ id \in ready

ReportsIInv ==
    /\ LoopIInv(ReportRequests)
    /\ AckedIsReported
    /\ \A w \in Workers : Earned(w)

(* What one listener does is not undone, and the others know what they     *)
(* knew.                                                                   *)
LEMMA ReportsMoveInv ==
    ASSUME ReportsIInv, NEW w \in Workers, LoopIInv(ReportRequests)', Moves(w), stream' = stream,
           reports \subseteq reports', ready \subseteq ready', Earned(w)',
           \A id \in group'.acked \ group.acked : Answerable(id) => Reported(id)' /\ id \in ready'
    PROVE  ReportsIInv'
<1>1. \A id : (Answerable(id)' <=> Answerable(id)) /\ (Reported(id) => Reported(id)')
  BY DEF Answerable, EntryAt, Reported
<1>2. ASSUME NEW v \in Workers, v # w PROVE Earned(v)'
  <2>1. todo'[v] = todo[v] /\ place'[v] = place[v]
    BY <1>2 DEF Moves
  <2>2. QED
    BY <1>1, <2>1 DEF ReportsIInv, Earned, At
<1>3. AckedIsReported'
  <2>1. \A id \in group'.acked : Answerable(id) => Reported(id)' /\ id \in ready'
    BY <1>1 DEF ReportsIInv, AckedIsReported, Answerable, Reported
  <2>2. QED
    BY <1>1, <2>1 DEF AckedIsReported, Answerable, Reported
<1>4. QED
  BY <1>2, <1>3 DEF ReportsIInv

(* A listener that does not go to "ready" or "ack" has nothing to have     *)
(* earned.                                                                 *)
LEMMA NothingToEarn ==
    ASSUME NEW w \in Workers, place'[w] \notin {"ready", "ack"}
    PROVE  Earned(w)'
BY DEF Earned, At

(* A request, a batch, and a crash.                                        *)
LEMMA ReportsLoopInv ==
    ASSUME ReportsIInv,
           \/ \E request \in ReportRequests : AskReport(request)
           \/ \E w \in Workers, reply \in Replies :
                 Consume(w, reply) /\ UNCHANGED <<draft, reports, ready>>
           \/ \E w \in Workers : CrashReports(w)
    PROVE  ReportsIInv'
<1>1. ASSUME NEW request \in ReportRequests, AskReport(request)
      PROVE  ReportsIInv'
  <2>1. /\ LoopIInv(ReportRequests)' /\ Grows
        /\ UNCHANGED <<group, place, todo, reports, ready>>
    BY <1>1, AddGrows DEF ReportsIInv, AskReport
  <2>2. \A id \in 1 .. group.last : EntryAt(id)' = EntryAt(id)
    BY <2>1 DEF Grows, EntryAt, ReportsIInv, LoopIInv, StreamOf, Group
  <2>3. \A w \in Workers : \A id \in todo[w] : id \in 1 .. group.last
    BY DEF ReportsIInv, LoopIInv
  <2>4. \A id \in group.acked : id \in 1 .. group.last
    BY DEF ReportsIInv, LoopIInv
  <2>5. AckedIsReported'
    BY <2>1, <2>2, <2>4 DEF ReportsIInv, AckedIsReported
  <2>6. ASSUME NEW w \in Workers PROVE Earned(w)'
    BY <2>1, <2>2, <2>3 DEF ReportsIInv, Earned, Answerable, Reported, At
  <2>7. QED
    BY <2>1, <2>5, <2>6 DEF ReportsIInv
<1>2. ASSUME NEW w \in Workers, NEW reply \in Replies, Consume(w, reply),
             UNCHANGED <<draft, reports, ready>>
      PROVE  ReportsIInv'
  <2>1. /\ LoopIInv(ReportRequests)' /\ Moves(w) /\ stream' = stream
        /\ place'[w] \in {"idle", "handle"} /\ group'.acked = group.acked
    BY <1>2, ConsumeMoves DEF ReportsIInv
  <2>2. QED
    BY <1>2, <2>1, ReportsMoveInv, NothingToEarn
<1>3. ASSUME NEW w \in Workers, CrashReports(w)
      PROVE  ReportsIInv'
  <2>1. GoesOn(w, 1) /\ place'[w] = "idle" /\ group' = group
    BY <1>3, CrashMoves DEF ReportsIInv, CrashReports
  <2>2. LoopIInv(ReportRequests)' /\ Moves(w) /\ stream' = stream
    BY <2>1, GoesOnInv DEF ReportsIInv, GoesOn
  <2>3. QED
    BY <1>3, <2>1, <2>2, ReportsMoveInv, NothingToEarn DEF CrashReports
<1>4. QED
  BY <1>1, <1>2, <1>3

(* An entry that is given up stays pending.                                *)
LEMMA LeavingInv ==
    ASSUME ReportsIInv, NEW w \in Workers, NEW id \in todo[w],
           LeavePending(w, id) \/ (Abandon(w) /\ UNCHANGED <<stream, group>>),
           reports \subseteq reports', ready \subseteq ready'
    PROVE  ReportsIInv'
<1>1. id \in Nat
  BY DEF ReportsIInv, LoopIInv
<1>2. GoesOn(w, id) /\ place'[w] \in {"idle", "handle"} /\ group' = group
  BY <1>1, FinishedMoves, AbandonMoves DEF ReportsIInv, LeavePending
<1>3. LoopIInv(ReportRequests)' /\ Moves(w) /\ stream' = stream
  BY <1>1, <1>2, GoesOnInv DEF ReportsIInv, GoesOn
<1>4. QED
  BY <1>2, <1>3, ReportsMoveInv, NothingToEarn

(* The listener goes to its next await.                                    *)
LEMMA ReportStepInv ==
    ASSUME ReportsIInv, NEW w \in Workers, NEW id \in todo[w], NEW from, At(w, from, id),
           NEW where \in {"commit", "ready", "ack"}, Step(w, where),
           reports \subseteq reports', ready \subseteq ready',
           Answerable(id) =>
               /\ where = "ready" => Reported(id)'
               /\ where = "ack" => Reported(id)' /\ id \in ready'
    PROVE  ReportsIInv'
<1>1. GoesOn(w, id) /\ place'[w] = where /\ UNCHANGED <<stream, group, todo>> /\ id \in Nat
  BY StepMoves DEF ReportsIInv
<1>2. LoopIInv(ReportRequests)' /\ Moves(w)
  BY <1>1, GoesOnInv DEF ReportsIInv, GoesOn
<1>3. \A j \in todo'[w] : (At(w, "ready", j)' \/ At(w, "ack", j)') => j = id
  <2>1. ASSUME NEW j \in todo'[w], At(w, "ready", j)' \/ At(w, "ack", j)'
        PROVE  At(w, from, j)
    BY <1>1, <2>1 DEF At
  <2>2. QED
    BY <2>1, OneAtHand DEF ReportsIInv
<1>4. Answerable(id)' <=> Answerable(id)
  BY <1>1 DEF Answerable, EntryAt
<1>5. Earned(w)'
  BY <1>1, <1>3, <1>4 DEF Earned, At
<1>6. QED
  BY <1>1, <1>2, <1>5, ReportsMoveInv

(* The handler up to the acknowledgement.                                  *)
LEMMA ReportHandlerInv ==
    ASSUME ReportsIInv, NEW w \in Workers, NEW id \in todo[w], NEW reply \in Replies,
           \/ MalformedRequest(w, id)
           \/ BuildReport(w, id, reply)
           \/ CommitReport(w, id, reply)
           \/ PublishReady(w, id, reply)
    PROVE  ReportsIInv'
<1>1. ASSUME MalformedRequest(w, id) PROVE ReportsIInv'
  BY <1>1, LeavingInv DEF MalformedRequest
<1>2. ASSUME BuildReport(w, id, reply) PROVE ReportsIInv'
  <2>1. At(w, "handle", id) /\ UNCHANGED <<reports, ready>>
    BY <1>2 DEF BuildReport
  <2>2. \/ LeavePending(w, id)
        \/ ~Answerable(id) /\ Step(w, "ack")
        \/ Step(w, "commit")
    BY <1>2 DEF BuildReport, Answerable
  <2>3. QED
    BY <2>1, <2>2, LeavingInv, ReportStepInv
<1>3. ASSUME CommitReport(w, id, reply) PROVE ReportsIInv'
  <2>1. At(w, "commit", id) /\ reports \subseteq reports' /\ ready' = ready
    BY <1>3 DEF CommitReport
  <2>2. Applied(reply) => Reported(id)'
    <3>1. PICK file : reports' = IF Applied(reply) THEN reports \cup {NewReport(EntryAt(id), file, id)}
                                 ELSE reports
      BY <1>3 DEF CommitReport
    <3>2. NewReport(EntryAt(id), file, id).for = id
      BY DEF NewReport
    <3>3. QED
      BY <3>1, <3>2 DEF Reported
  <2>3. LeavePending(w, id) \/ (Step(w, "ready") /\ Reported(id)')
    BY <1>3, <2>2 DEF CommitReport, Raised, Applied
  <2>4. QED
    BY <2>1, <2>3, LeavingInv, ReportStepInv
<1>4. ASSUME PublishReady(w, id, reply) PROVE ReportsIInv'
  <2>1. At(w, "ready", id) /\ reports' = reports /\ ready \subseteq ready'
    BY <1>4 DEF PublishReady
  <2>2. LeavePending(w, id) \/ (Step(w, "ack") /\ id \in ready')
    BY <1>4 DEF PublishReady, Raised, Applied
  <2>3. Answerable(id) => Reported(id)'
    BY <2>1 DEF ReportsIInv, Earned, Reported
  <2>4. QED
    BY <2>1, <2>2, <2>3, LeavingInv, ReportStepInv
<1>5. QED
  BY <1>1, <1>2, <1>3, <1>4

(* The acknowledgement.                                                    *)
LEMMA AckReportInv ==
    ASSUME ReportsIInv, NEW w \in Workers, NEW id \in todo[w], NEW reply \in Replies,
           AckReport(w, id, reply)
    PROVE  ReportsIInv'
<1>1. At(w, "ack", id) /\ Acknowledge(w, id, reply) /\ UNCHANGED <<reports, ready>>
  BY DEF AckReport
<1>2. GoesOn(w, id) /\ place'[w] \in {"idle", "handle"} /\ id \in Nat
  BY <1>1, AcknowledgeMoves DEF ReportsIInv
<1>3. LoopIInv(ReportRequests)' /\ Moves(w) /\ stream' = stream
  BY <1>2, GoesOnInv DEF ReportsIInv, GoesOn
<1>4. group'.acked \ group.acked \subseteq {id}
  BY <1>2 DEF GoesOn, XAck
<1>5. Answerable(id) => Reported(id)' /\ id \in ready'
  BY <1>1 DEF ReportsIInv, Earned, Reported
<1>6. QED
  BY <1>1, <1>2, <1>3, <1>4, <1>5, ReportsMoveInv, NothingToEarn

(* Every step of the report service keeps its invariant.                   *)
LEMMA ReportsStepInv == ReportsIInv /\ [ReportsNext]_reportVars => ReportsIInv'
<1>1. ASSUME ReportsIInv, UNCHANGED reportVars PROVE ReportsIInv'
  <2>1. LoopIInv(ReportRequests)'
    BY <1>1, LoopStays DEF ReportsIInv, reportVars
  <2>2. QED
    BY <1>1, <2>1 DEF ReportsIInv, reportVars, loopVars, AckedIsReported, Earned, Answerable,
                      Reported, At, EntryAt
<1>2. ASSUME ReportsIInv, ReportsNext PROVE ReportsIInv'
  <2>1. CASE \E request \in ReportRequests : AskReport(request)
    BY <1>2, <2>1, ReportsLoopInv
  <2>2. ASSUME NEW w \in Workers, CrashReports(w) PROVE ReportsIInv'
    BY <1>2, <2>2, ReportsLoopInv
  <2>3. ASSUME NEW w \in Workers, Listen(w) PROVE ReportsIInv'
    BY <1>2, <2>3, ReportsLoopInv, ReportHandlerInv, AckReportInv DEF Listen
  <2>4. QED
    BY <1>2, <2>1, <2>2, <2>3 DEF ReportsNext
<1>3. QED
  BY <1>1, <1>2

(* It begins with nothing acknowledged.                                    *)
LEMMA ReportsInitInv == ReportsInit => ReportsIInv
<1> SUFFICES ASSUME ReportsInit PROVE ReportsIInv
  OBVIOUS
<1>1. LoopIInv(ReportRequests) /\ group.acked = {} /\ \A w \in Workers : todo[w] = {}
  BY LoopInitInv DEF ReportsInit, LoopInit, NewGroup
<1>2. QED
  BY <1>1 DEF ReportsIInv, AckedIsReported, Earned

(* A request that can be answered and is acknowledged has its report in    *)
(* the table and has been announced, whatever fails or crashes between the *)
(* commit, the announcement and the acknowledgement, for any number of     *)
(* listeners.                                                              *)
THEOREM ReportsAreAnswered == ReportsSpec => []AckedIsReported
<1>1. ReportsIInv => AckedIsReported
  BY DEF ReportsIInv
<1>2. QED
  BY <1>1, ReportsInitInv, ReportsStepInv, PTL DEF ReportsSpec

-----------------------------------------------------------------------------
(* The audit service: retention.                                           *)

HasFields(r, fields) == DOMAIN r = fields /\ r = [f \in fields |-> r[f]]

RoundFields == {"at", "day", "plan", "left", "doomed", "inForce"}

(* A round knows of every policy there has been since it began, the plan   *)
(* it follows among them, and goes by the default where there is none.     *)
RoundFits(t) ==
    /\ HasFields(round[t], RoundFields)
    /\ round[t].at # "idle" => \A org \in Orgs : <<org, policy[org]>> \in round[t].inForce
    /\ round[t].at = "orgs" =>
          \A org \in round[t].left : <<org, round[t].plan[org]>> \in round[t].inForce
    /\ round[t].at = "default" =>
          \A org \in round[t].left : <<org, NoPolicy>> \in round[t].inForce

RetentionIInv ==
    /\ IsOn(round, Rounds) /\ IsOn(policy, Orgs)
    /\ \A t \in Rounds : RoundFits(t)
    /\ DeletedWasExpired

Expired(row, r) ==
    \E pair \in r.inForce : pair[1] = row.org /\ row.born < r.day - DaysOf(pair[2], row.kind)

(* What OlderThan selects by a policy in force is expired.                 *)
LEMMA OldIsExpired ==
    ASSUME NEW r, NEW org, NEW kind, NEW p, <<org, p>> \in r.inForce,
           NEW row \in OlderThan(org, kind, p, r.day)
    PROVE  Expired(row, r)
BY DEF OlderThan, RowsOf, Expired

(* One round moves.                                                        *)
LEMMA RoundMoveInv ==
    ASSUME RetentionIInv, NEW t \in Rounds, NEW r, round' = [round EXCEPT ![t] = r],
           policy' = policy, HasFields(r, RoundFields),
           r.at # "idle" => \A org \in Orgs : <<org, policy[org]>> \in r.inForce,
           r.at = "orgs" => \A org \in r.left : <<org, r.plan[org]>> \in r.inForce,
           r.at = "default" => \A org \in r.left : <<org, NoPolicy>> \in r.inForce,
           \A row \in r.doomed : Expired(row, r)
    PROVE  RetentionIInv'
<1>1. IsOn(round', Rounds) /\ round'[t] = r /\ \A u \in Rounds : u # t => round'[u] = round[u]
  BY DEF RetentionIInv, IsOn
<1>2. ASSUME NEW u \in Rounds PROVE RoundFits(u)'
  BY <1>1 DEF RetentionIInv, RoundFits
<1>3. DeletedWasExpired'
  BY <1>1 DEF RetentionIInv, DeletedWasExpired, Expired
<1>4. QED
  BY <1>1, <1>2, <1>3 DEF RetentionIInv

(* The rounds of retention_loop and execute_retention.                     *)
LEMMA RetentionStepInv ==
    ASSUME RetentionIInv, NEW t \in Rounds, Retention(t)
    PROVE  RetentionIInv'
<1>1. RoundFits(t) /\ HasFields(round[t], RoundFields) /\ \A row \in round[t].doomed : Expired(row, round[t])
  BY DEF RetentionIInv, RoundFits, DeletedWasExpired, Expired
<1>2. ASSUME NEW orgs, orgs \subseteq Orgs, BeginRound(t, orgs) PROVE RetentionIInv'
  <2> DEFINE r == [at |-> "orgs", day |-> day, plan |-> policy, doomed |-> {},
                   left |-> {org \in orgs : policy[org] # NoPolicy},
                   inForce |-> {<<org, policy[org]>> : org \in Orgs}]
  <2>1. round' = [round EXCEPT ![t] = r] /\ policy' = policy
    BY <1>2 DEF BeginRound
  <2>2. HasFields(r, RoundFields)
    BY DEF HasFields, RoundFields
  <2>3. \A org \in Orgs : <<org, policy[org]>> \in r.inForce
    OBVIOUS
  <2>4. /\ r.at = "orgs" /\ r.plan = policy /\ r.left \subseteq Orgs
        /\ \A row \in r.doomed : Expired(row, r)
    BY <1>2
  <2> HIDE DEF r
  <2>5. QED
    BY <2>1, <2>2, <2>3, <2>4, RoundMoveInv
<1>3. ASSUME NEW org \in Orgs, DeleteOfOrg(t, org) PROVE RetentionIInv'
  <2> DEFINE old == UNION {OlderThan(org, kind, round[t].plan[org], round[t].day) : kind \in Kinds}
             r == [round[t] EXCEPT !.left = @ \ {org}, !.doomed = @ \cup old]
  <2>1. round' = [round EXCEPT ![t] = r] /\ policy' = policy /\ round[t].at = "orgs"
        /\ org \in round[t].left
    BY <1>3 DEF DeleteOfOrg, RetentionIInv, IsOn
  <2>2. <<org, round[t].plan[org]>> \in round[t].inForce
    BY <1>1, <2>1 DEF RoundFits
  <2>3. \A row \in old : Expired(row, round[t])
    BY <2>2, OldIsExpired
  <2>4. /\ HasFields(r, RoundFields) /\ r.at = round[t].at /\ r.plan = round[t].plan
        /\ r.left = round[t].left \ {org} /\ r.doomed = round[t].doomed \cup old
        /\ r.inForce = round[t].inForce /\ r.day = round[t].day
    BY <1>1 DEF HasFields, RoundFields
  <2> HIDE DEF r, old
  <2>5. \A row \in r.doomed : Expired(row, r)
    BY <1>1, <2>3, <2>4 DEF Expired
  <2>6. QED
    BY <1>1, <2>1, <2>4, <2>5, RoundMoveInv DEF RoundFits
<1>4. ASSUME ReadPolicyOrgs(t) PROVE RetentionIInv'
  <2> DEFINE r == [round[t] EXCEPT !.at = "default", !.left = {org \in Orgs : policy[org] = NoPolicy}]
  <2>1. round' = [round EXCEPT ![t] = r] /\ policy' = policy /\ round[t].at = "orgs"
    BY <1>4 DEF ReadPolicyOrgs, RetentionIInv, IsOn
  <2>2. /\ HasFields(r, RoundFields) /\ r.at = "default"
        /\ r.left = {org \in Orgs : policy[org] = NoPolicy} /\ r.doomed = round[t].doomed
        /\ r.inForce = round[t].inForce /\ r.day = round[t].day
    BY <1>1 DEF HasFields, RoundFields
  <2> HIDE DEF r
  <2>3. \A row \in r.doomed : Expired(row, r)
    BY <1>1, <2>2 DEF Expired
  <2>4. \A org \in Orgs : <<org, policy[org]>> \in r.inForce
    BY <1>1, <2>1, <2>2 DEF RoundFits
  <2>5. \A org \in r.left : <<org, NoPolicy>> \in r.inForce
    BY <2>2, <2>4
  <2>6. QED
    BY <2>1, <2>2, <2>3, <2>4, <2>5, RoundMoveInv
<1>5. ASSUME DeleteByDefault(t) PROVE RetentionIInv'
  <2> DEFINE old == UNION {OlderThan(org, "audit", NoPolicy, round[t].day) : org \in round[t].left}
             r == [round[t] EXCEPT !.at = "commit", !.left = {}, !.doomed = @ \cup old]
  <2>1. round' = [round EXCEPT ![t] = r] /\ policy' = policy /\ round[t].at = "default"
    BY <1>5 DEF DeleteByDefault, RetentionIInv, IsOn
  <2>2. \A row \in old : Expired(row, round[t])
    BY <1>1, <2>1, OldIsExpired DEF RoundFits
  <2>3. /\ HasFields(r, RoundFields) /\ r.at = "commit" /\ r.doomed = round[t].doomed \cup old
        /\ r.inForce = round[t].inForce /\ r.day = round[t].day
    BY <1>1 DEF HasFields, RoundFields
  <2> HIDE DEF r, old
  <2>4. \A row \in r.doomed : Expired(row, r)
    BY <1>1, <2>2, <2>3 DEF Expired
  <2>5. \A org \in Orgs : <<org, policy[org]>> \in r.inForce
    BY <1>1, <2>1, <2>3 DEF RoundFits
  <2>6. QED
    BY <2>1, <2>3, <2>4, <2>5, RoundMoveInv
<1>6. ASSUME NEW reply \in Replies, CommitRound(t, reply) PROVE RetentionIInv'
  <2>1. round' = [round EXCEPT ![t] = Idle] /\ policy' = policy
    BY <1>6 DEF CommitRound
  <2>2. HasFields(Idle, RoundFields) /\ Idle.at = "idle" /\ Idle.doomed = {}
    BY DEF Idle, HasFields, RoundFields
  <2>3. QED
    BY <2>1, <2>2, RoundMoveInv
<1>7. QED
  BY <1>2, <1>3, <1>4, <1>5, <1>6 DEF Retention

(* A change of policy is in force for the rounds under way.                *)
LEMMA ConfigureRetentionInv ==
    ASSUME RetentionIInv, NEW org \in Orgs, NEW p \in Policies, ConfigureRetention(org, p)
    PROVE  RetentionIInv'
<1>1. IsOn(policy', Orgs) /\ policy'[org] = {p} /\ \A o \in Orgs : o # org => policy'[o] = policy[o]
  BY DEF ConfigureRetention, RetentionIInv, IsOn
<1>2. IsOn(round', Rounds)
  BY DEF ConfigureRetention, IsOn
<1>3. ASSUME NEW t \in Rounds
      PROVE  /\ HasFields(round'[t], RoundFields)
             /\ \A f \in RoundFields \ {"inForce"} : round'[t][f] = round[t][f]
             /\ round'[t].inForce = (IF round[t].at = "idle" THEN round[t].inForce
                                     ELSE round[t].inForce \cup {<<org, {p}>>})
  <2>1. round'[t] = [round[t] EXCEPT !.inForce = IF round[t].at = "idle" THEN @
                                                 ELSE @ \cup {<<org, {p}>>}]
    BY DEF ConfigureRetention
  <2>2. HasFields(round[t], RoundFields)
    BY DEF RetentionIInv, RoundFits
  <2>3. QED
    BY <2>1, <2>2 DEF HasFields, RoundFields
<1>4. ASSUME NEW t \in Rounds
      PROVE  /\ round'[t].at = round[t].at /\ round'[t].plan = round[t].plan
             /\ round'[t].left = round[t].left /\ round'[t].doomed = round[t].doomed
             /\ round'[t].day = round[t].day /\ round[t].inForce \subseteq round'[t].inForce
             /\ round[t].at # "idle" => <<org, {p}>> \in round'[t].inForce
  <2>1. {"at", "plan", "left", "doomed", "day"} \subseteq RoundFields \ {"inForce"}
    BY DEF RoundFields
  <2>2. QED
    BY <1>3, <2>1
<1>5. ASSUME NEW t \in Rounds PROVE RoundFits(t)'
  <2>1. RoundFits(t)
    BY DEF RetentionIInv
  <2>2. QED
    BY <1>1, <1>3, <1>4, <2>1 DEF RoundFits
<1>6. DeletedWasExpired'
  BY <1>4 DEF RetentionIInv, DeletedWasExpired
<1>7. QED
  BY <1>1, <1>2, <1>5, <1>6 DEF RetentionIInv

(* Every step of the audit service keeps the invariant of its rounds.      *)
LEMMA RetentionNextInv == RetentionIInv /\ [AuditNext]_auditVars => RetentionIInv'
<1>1. ASSUME RetentionIInv, UNCHANGED <<round, policy>> PROVE RetentionIInv'
  BY <1>1 DEF RetentionIInv, RoundFits, DeletedWasExpired
<1>2. CASE UNCHANGED auditVars
  BY <1>1, <1>2 DEF auditVars
<1>3. ASSUME NEW event \in AuditEvents, PublishAudit(event) PROVE UNCHANGED <<round, policy>>
  BY <1>3 DEF PublishAudit
<1>4. ASSUME NEW w \in Workers, AuditConsumer(w) \/ (CrashLoop(w) /\ AuditUnchanged)
      PROVE  UNCHANGED <<round, policy>>
  BY <1>4 DEF AuditConsumer, AuditUnchanged, StoreAudit
<1>5. ASSUME NEW p \in Purges, Purging(p) PROVE UNCHANGED <<round, policy>>
  BY <1>5 DEF Purging, BeginPurge, FlushPurge, CommitPurge
<1>6. ASSUME NextDay PROVE UNCHANGED <<round, policy>>
  BY <1>6 DEF NextDay
<1>7. QED
  BY <1>1, <1>2, <1>3, <1>4, <1>5, <1>6, RetentionStepInv, ConfigureRetentionInv DEF AuditNext

(* No round runs at first.                                                 *)
LEMMA RetentionInitInv == AuditInit => RetentionIInv
<1> SUFFICES ASSUME AuditInit PROVE RetentionIInv
  OBVIOUS
<1>1. IsOn(round, Rounds) /\ IsOn(policy, Orgs) /\ \A t \in Rounds : round[t] = Idle
  BY DEF AuditInit, IsOn
<1>2. HasFields(Idle, RoundFields) /\ Idle.at = "idle" /\ Idle.doomed = {}
  BY DEF Idle, HasFields, RoundFields
<1>3. QED
  BY <1>1, <1>2 DEF RetentionIInv, RoundFits, DeletedWasExpired

(* Each row a round deletes is older than a policy of its organisation, or *)
(* the lack of one, that was in force during the round allows, however     *)
(* many rounds overlap and policies change.                                *)
THEOREM RetentionDeletesExpired == AuditSpec => []DeletedWasExpired
<1>1. RetentionIInv => DeletedWasExpired
  BY DEF RetentionIInv
<1>2. QED
  BY RetentionInitInv, <1>1, RetentionNextInv, PTL DEF AuditSpec

-----------------------------------------------------------------------------
(* The audit service: the purges.                                          *)

PurgeFields == {"at", "org", "user", "selected", "last"}

(* The consumer has still to store the event: no row bears its id.         *)
Unstored(id) ==
    \/ id > group.last
    \/ \E w \in Workers : id \in todo[w] /\ ~At(w, "finally", id)

NoTraceOf(id) ==
    /\ \A row \in rows : row.kind = "audit" => row.id # id
    /\ \A n \in named : n[3] # id
    /\ \A p \in Purges : \A row \in purge[p].selected : row.id # id

(* A purge has selected every log of its user that bears the id of a log   *)
(* it has selected.                                                        *)
SelectedAll(p) ==
    LET u == purge[p]
    IN  /\ HasFields(u, PurgeFields)
        /\ IF u.at = "idle" THEN u.selected = {} ELSE u.user \in Users
        /\ \A log \in u.selected : log \in AuditLog /\ log.org = u.org
        /\ \A row \in RowsOf("audit", u.org), log \in u.selected :
              row.id = log.id /\ row.user = u.user => row \in u.selected

PurgeIInv ==
    /\ LoopIInv(AuditEvents)
    /\ rows \subseteq AuditLog \cup ProjectRow
    /\ IsOn(purge, Purges)
    /\ \A p \in Purges : SelectedAll(p)
    /\ named \subseteq Orgs \X Users \X Nat
    /\ \A id \in Nat \ {0} : Unstored(id) => NoTraceOf(id)
    /\ PurgedIsForgotten

(* Rows that go, and events that are no more to be stored, take nothing    *)
(* from it.                                                                *)
LEMMA FewerRowsInv ==
    ASSUME PurgeIInv, rows' \subseteq rows, UNCHANGED <<purge, named>>, LoopIInv(AuditEvents)',
           \A id \in Nat \ {0} : Unstored(id)' => Unstored(id)
    PROVE  PurgeIInv'
<1>1. \A kind, org : RowsOf(kind, org)' \subseteq RowsOf(kind, org)
  BY DEF RowsOf
<1>2. ASSUME NEW p \in Purges PROVE SelectedAll(p)'
  BY <1>1 DEF PurgeIInv, SelectedAll
<1>3. PurgedIsForgotten'
  BY <1>1 DEF PurgeIInv, PurgedIsForgotten
<1>4. \A id \in Nat \ {0} : Unstored(id)' => NoTraceOf(id)'
  BY DEF PurgeIInv, NoTraceOf
<1>5. QED
  BY <1>2, <1>3, <1>4 DEF PurgeIInv

(* The consumer's loop.                                                    *)
LEMMA AuditLoopInv ==
    ASSUME PurgeIInv,
           \/ \E event \in AuditEvents : PublishAudit(event)
           \/ \E w \in Workers : CrashLoop(w) /\ AuditUnchanged
           \/ \E w \in Workers, reply \in Replies : Consume(w, reply) /\ AuditUnchanged
           \/ \E w \in Workers : \E id \in todo[w], reply \in Replies :
                 AckFinally(w, id, reply) /\ AuditUnchanged
    PROVE  PurgeIInv'
<1>1. ASSUME NEW event \in AuditEvents, PublishAudit(event) PROVE PurgeIInv'
  <2>1. LoopIInv(AuditEvents)' /\ UNCHANGED <<group, place, todo, rows, purge, named>>
    BY <1>1, AddGrows DEF PurgeIInv, PublishAudit
  <2>2. \A id \in Nat \ {0} : Unstored(id)' => Unstored(id)
    BY <2>1 DEF Unstored, At
  <2>3. QED
    BY <2>1, <2>2, FewerRowsInv
<1>2. ASSUME NEW w \in Workers, NEW id \in Nat, GoesOn(w, id), AuditUnchanged,
             \A j \in todo'[w] : ~At(w, "finally", j)
      PROVE  PurgeIInv'
  <2>1. LoopIInv(AuditEvents)' /\ Moves(w) /\ todo'[w] \subseteq todo[w] /\ group'.last = group.last
    BY <1>2, GoesOnInv DEF PurgeIInv, GoesOn, XAck
  <2>2. ASSUME NEW j \in Nat \ {0}, Unstored(j)' PROVE Unstored(j)
    <3>1. CASE j > group'.last
      BY <2>1, <3>1 DEF Unstored
    <3>2. ASSUME NEW v \in Workers, j \in todo'[v], ~At(v, "finally", j)' PROVE Unstored(j)
      <4>1. CASE v = w
        BY <1>2, <2>1, <3>2, <4>1 DEF Unstored
      <4>2. CASE v # w
        BY <2>1, <3>2, <4>2 DEF Unstored, Moves, At
      <4>3. QED
        BY <4>1, <4>2
    <3>3. QED
      BY <2>2, <3>1, <3>2 DEF Unstored
  <2>3. QED
    BY <1>2, <2>1, <2>2, FewerRowsInv DEF AuditUnchanged
<1>3. ASSUME NEW w \in Workers, CrashLoop(w), AuditUnchanged PROVE PurgeIInv'
  <2>1. GoesOn(w, 1) /\ todo'[w] = {}
    BY <1>3, CrashMoves DEF PurgeIInv
  <2>2. QED
    BY <1>2, <1>3, <2>1
<1>4. ASSUME NEW w \in Workers, NEW reply \in Replies, Consume(w, reply), AuditUnchanged
      PROVE  PurgeIInv'
  <2>1. /\ LoopIInv(AuditEvents)' /\ Moves(w)
        /\ group'.last >= group.last /\ group.last \in Nat /\ group'.last \in Nat
        /\ \A id \in todo'[w] : id > group.last
    BY <1>4, ConsumeMoves DEF PurgeIInv, LoopIInv, Group
  <2>2. ASSUME NEW j \in Nat \ {0}, Unstored(j)' PROVE Unstored(j)
    <3>1. CASE j > group'.last
      <4>1. \A m, l \in Nat : m >= l /\ j > m => j > l
        BY <2>2
      <4>2. j > group.last
        BY <2>1, <3>1, <4>1
      <4>3. QED
        BY <4>2 DEF Unstored
    <3>2. ASSUME NEW v \in Workers, j \in todo'[v], ~At(v, "finally", j)' PROVE Unstored(j)
      BY <2>1, <3>2 DEF Unstored, Moves, At
    <3>3. QED
      BY <2>2, <3>1, <3>2 DEF Unstored
  <2>3. QED
    BY <1>4, <2>1, <2>2, FewerRowsInv DEF AuditUnchanged
<1>5. ASSUME NEW w \in Workers, NEW id \in todo[w], NEW reply \in Replies,
             AckFinally(w, id, reply), AuditUnchanged
      PROVE  PurgeIInv'
  <2>1. /\ At(w, "finally", id) /\ GoesOn(w, id) /\ id \in Nat
        /\ todo'[w] = {} \/ todo'[w] = todo[w] \ {id}
    BY <1>5, AcknowledgeMoves DEF PurgeIInv, AckFinally
  <2>2. \A j \in todo[w] : At(w, "finally", j) => j = id
    BY <2>1, OneAtHand DEF PurgeIInv
  <2>3. \A j \in todo'[w] : ~At(w, "finally", j)
    BY <2>1, <2>2 DEF GoesOn
  <2>4. QED
    BY <1>2, <1>5, <2>1, <2>3
<1>6. QED
  BY <1>1, <1>3, <1>4, <1>5

(* The consumer stores an event under an id no row has had.                *)
LEMMA StoreAuditInv ==
    ASSUME PurgeIInv, NEW w \in Workers, NEW id \in todo[w], NEW reply \in Replies,
           StoreAudit(w, id, reply), day \in Int
    PROVE  PurgeIInv'
<1>1. /\ At(w, "handle", id) /\ Step(w, "finally") /\ UNCHANGED <<purge, named>>
  BY DEF StoreAudit
<1>2. /\ id \in Nat \ {0} /\ id \in 1 .. group.last /\ id \in 1 .. Len(stream.log)
      /\ GoesOn(w, id) /\ place'[w] = "finally" /\ UNCHANGED <<stream, group, todo>>
  BY <1>1, StepMoves DEF PurgeIInv, LoopIInv, StreamOf, Group
<1>3. LoopIInv(AuditEvents)' /\ Moves(w)
  BY <1>2, GoesOnInv DEF PurgeIInv, GoesOn
<1>4. At(w, "finally", id)' /\ ~At(w, "finally", id)
  BY <1>1, <1>2 DEF At
<1>5. Unstored(id) /\ NoTraceOf(id)
  BY <1>2, <1>4 DEF PurgeIInv, Unstored
<1>6. ASSUME NEW j \in Nat \ {0}, Unstored(j)' PROVE Unstored(j) /\ j # id
  <2>1. CASE j > group'.last
    <3>1. group'.last = group.last /\ j > group.last
      BY <1>2, <2>1
    <3>2. group.last \in Nat /\ j # id
      BY <1>2, <3>1 DEF PurgeIInv, LoopIInv, Group
    <3>3. QED
      BY <3>1, <3>2 DEF Unstored
  <2>2. ASSUME NEW v \in Workers, j \in todo'[v], ~At(v, "finally", j)' PROVE Unstored(j) /\ j # id
    <3>1. CASE v = w
      <4>1. j \in todo[w] /\ ~At(w, "finally", j) /\ j # id
        BY <1>1, <1>2, <1>4, <2>2, <3>1 DEF At
      <4>2. QED
        BY <4>1 DEF Unstored
    <3>2. CASE v # w
      <4>1. j \in todo[v] /\ ~At(v, "finally", j)
        BY <1>2, <1>3, <2>2, <3>2 DEF At, Moves
      <4>2. j # id
        BY <3>2, <4>1 DEF PurgeIInv, LoopIInv
      <4>3. QED
        BY <4>1, <4>2 DEF Unstored
    <3>3. QED
      BY <3>1, <3>2
  <2>3. QED
    BY <1>6, <2>1, <2>2 DEF Unstored
<1>7. EntryAt(id) \in AuditEvents
  BY <1>2 DEF PurgeIInv, LoopIInv, StreamOf, EntryAt
<1> DEFINE log == [kind |-> "audit", org |-> EntryAt(id).org, id |-> id, born |-> day,
                   user |-> EntryAt(id).user]
<1>8. log \in AuditLog /\ log.id = id
  <2>1. EntryAt(id).org \in Orgs /\ EntryAt(id).user \in Users
    BY <1>7, AuditAssumption
  <2>2. QED
    BY <1>2, <2>1 DEF AuditLog
<1>9. rows' \subseteq rows \cup {log}
  BY DEF StoreAudit
<1> HIDE DEF log
<1>10. rows' \subseteq AuditLog \cup ProjectRow
  BY <1>8, <1>9 DEF PurgeIInv
<1>11. \A kind, org : RowsOf(kind, org)' \subseteq RowsOf(kind, org) \cup {log}
  BY <1>9 DEF RowsOf
<1>12. ASSUME NEW p \in Purges PROVE SelectedAll(p)'
  BY <1>1, <1>5, <1>8, <1>11 DEF PurgeIInv, SelectedAll, NoTraceOf
<1>13. PurgedIsForgotten'
  BY <1>1, <1>5, <1>8, <1>11 DEF PurgeIInv, PurgedIsForgotten, NoTraceOf
<1>14. \A j \in Nat \ {0} : Unstored(j)' => NoTraceOf(j)'
  BY <1>1, <1>6, <1>8, <1>9 DEF PurgeIInv, NoTraceOf
<1>15. QED
  BY <1>1, <1>3, <1>10, <1>12, <1>13, <1>14 DEF PurgeIInv

(* A purge that moves, without a change of rows.                           *)
LEMMA PurgeMoveInv ==
    ASSUME PurgeIInv, NEW p \in Purges, NEW u, purge' = [purge EXCEPT ![p] = u],
           HasFields(u, PurgeFields), IF u.at = "idle" THEN u.selected = {} ELSE u.user \in Users,
           \A log \in u.selected : log \in AuditLog /\ log.org = u.org,
           \A row \in RowsOf("audit", u.org), log \in u.selected :
              row.id = log.id /\ row.user = u.user => row \in u.selected,
           u.selected \subseteq rows \cup purge[p].selected,
           UNCHANGED <<loopVars, rows, named>>
    PROVE  PurgeIInv'
<1>1. IsOn(purge', Purges) /\ purge'[p] = u /\ \A q \in Purges : q # p => purge'[q] = purge[q]
  BY DEF PurgeIInv, IsOn
<1>2. LoopIInv(AuditEvents)'
  BY LoopStays DEF PurgeIInv
<1>3. ASSUME NEW q \in Purges PROVE SelectedAll(q)'
  BY <1>1 DEF PurgeIInv, SelectedAll, RowsOf
<1>4. \A id : (Unstored(id)' <=> Unstored(id))
  BY DEF Unstored, At, loopVars
<1>5. ASSUME NEW id \in Nat \ {0}, Unstored(id) PROVE NoTraceOf(id)'
  <2>1. NoTraceOf(id)
    BY <1>5 DEF PurgeIInv
  <2>2. ASSUME NEW q \in Purges, NEW log \in purge'[q].selected PROVE log.id # id
    <3>1. CASE q # p
      BY <1>1, <2>1, <2>2, <3>1 DEF NoTraceOf
    <3>2. CASE q = p
      <4>1. log.kind = "audit" /\ log \in rows \cup purge[p].selected
        BY <1>1, <2>2, <3>2 DEF AuditLog
      <4>2. QED
        BY <2>1, <4>1 DEF NoTraceOf
    <3>3. QED
      BY <3>1, <3>2
  <2>3. QED
    BY <2>1, <2>2 DEF NoTraceOf
<1>6. PurgedIsForgotten'
  BY DEF PurgeIInv, PurgedIsForgotten, RowsOf
<1>7. QED
  BY <1>1, <1>2, <1>3, <1>4, <1>5, <1>6 DEF PurgeIInv

(* The COMMIT of a purge: the logs it has selected name nobody.            *)
LEMMA CommitPurgeInv ==
    ASSUME PurgeIInv, NEW p \in Purges, purge[p].at = "commit",
           LET u == purge[p]
           IN  /\ rows' = (rows \ u.selected)
                             \cup {[row EXCEPT !.user = NoUser] : row \in u.selected}
               /\ named' = named \cup {<<u.org, u.user, row.id>> : row \in u.selected},
           purge' = [purge EXCEPT ![p] = IdlePurge], UNCHANGED loopVars
    PROVE  PurgeIInv'
<1> DEFINE u == purge[p]
           freed == {[row EXCEPT !.user = NoUser] : row \in u.selected}
<1>1. /\ SelectedAll(p) /\ u.user \in Users
      /\ \A log \in u.selected : log \in AuditLog /\ log.org = u.org
  BY DEF PurgeIInv, SelectedAll
<1>2. \A new \in freed :
         /\ new \in AuditLog /\ new.user = NoUser /\ new.org = u.org
         /\ \E log \in u.selected : new.id = log.id
  <2>1. ASSUME NEW log \in u.selected
        PROVE  LET new == [log EXCEPT !.user = NoUser]
               IN  new \in AuditLog /\ new.user = NoUser /\ new.org = u.org /\ new.id = log.id
    BY <1>1 DEF AuditLog
  <2>2. QED
    BY <2>1
<1>3. rows' = (rows \ u.selected) \cup freed
  OBVIOUS
<1>4. \A n \in named' : n \in named \/ \E log \in u.selected : n = <<u.org, u.user, log.id>>
  OBVIOUS
<1> HIDE DEF freed
<1>5. rows' \subseteq AuditLog \cup ProjectRow
  BY <1>2, <1>3 DEF PurgeIInv
<1>6. /\ IsOn(purge', Purges) /\ purge'[p] = IdlePurge
       /\ \A q \in Purges : q # p => purge'[q] = purge[q]
  BY DEF PurgeIInv, IsOn
<1>7. /\ HasFields(IdlePurge, PurgeFields) /\ IdlePurge.at = "idle" /\ IdlePurge.selected = {}
  BY DEF IdlePurge, HasFields, PurgeFields
<1>8. named' \subseteq Orgs \X Users \X Nat
  <2>1. \A log \in u.selected : u.org \in Orgs /\ u.user \in Users /\ log.id \in Nat
    BY <1>1 DEF AuditLog
  <2>2. QED
    BY <1>4, <2>1 DEF PurgeIInv
<1>9. LoopIInv(AuditEvents)' /\ \A id : (Unstored(id)' <=> Unstored(id))
  BY LoopStays DEF PurgeIInv, Unstored, At, loopVars
<1>10. ASSUME NEW id \in Nat \ {0}, Unstored(id) PROVE NoTraceOf(id)'
  <2>1. NoTraceOf(id) /\ \A log \in u.selected : log.id # id
    BY <1>10 DEF PurgeIInv, NoTraceOf
  <2>2. \A row \in rows' : row.kind = "audit" => row.id # id
    BY <1>2, <1>3, <2>1 DEF NoTraceOf
  <2>3. \A n \in named' : n[3] # id
    BY <1>4, <2>1 DEF NoTraceOf
  <2>4. \A q \in Purges : \A row \in purge'[q].selected : row.id # id
    BY <1>6, <1>7, <2>1 DEF NoTraceOf
  <2>5. QED
    BY <2>2, <2>3, <2>4 DEF NoTraceOf
<1>11. \A kind, org : \A row \in RowsOf(kind, org)' :
         row \in RowsOf(kind, org) \ u.selected \/ row.user = NoUser
  BY <1>2, <1>3 DEF RowsOf
<1>12. ASSUME NEW q \in Purges PROVE SelectedAll(q)'
  <2>1. SelectedAll(q)
    BY DEF PurgeIInv
  <2>2. \A log \in purge[q].selected : purge[q].user \in Users
    BY <2>1 DEF SelectedAll
  <2>3. ASSUME q # p, NEW row \in RowsOf("audit", purge[q].org)', NEW log \in purge[q].selected,
               row.id = log.id, row.user = purge[q].user
        PROVE  row \in purge[q].selected
    <3>1. row \in RowsOf("audit", purge[q].org) \/ row.user = NoUser
      BY <1>6, <1>11, <2>3
    <3>2. CASE row \in RowsOf("audit", purge[q].org)
      BY <2>1, <2>3, <3>2 DEF SelectedAll
    <3>3. CASE row.user = NoUser
      BY <2>2, <2>3, <3>3, AuditAssumption
    <3>4. QED
      BY <3>1, <3>2, <3>3
  <2>4. CASE q # p
    BY <1>6, <2>1, <2>3, <2>4 DEF SelectedAll
  <2>5. CASE q = p
    BY <1>6, <1>7, <2>5 DEF SelectedAll
  <2>6. QED
    BY <2>4, <2>5
<1>13. PurgedIsForgotten'
  <2>1. ASSUME NEW n \in named', NEW row \in RowsOf("audit", n[1])', row.id = n[3]
        PROVE  row.user # n[2]
    <3>1. n[2] \in Users
      BY <1>8, <2>1
    <3>2. CASE row.user = NoUser
      BY <3>1, <3>2, AuditAssumption
    <3>3. CASE row \in RowsOf("audit", n[1]) \ u.selected
      <4>1. CASE n \in named
        BY <2>1, <3>3, <4>1 DEF PurgeIInv, PurgedIsForgotten
      <4>2. ASSUME NEW log \in u.selected, n = <<u.org, u.user, log.id>>
            PROVE  row.user # n[2]
        BY <1>1, <2>1, <3>3, <4>2 DEF SelectedAll
      <4>3. QED
        BY <1>4, <4>1, <4>2
    <3>4. QED
      BY <1>11, <2>1, <3>2, <3>3
  <2>2. QED
    BY <2>1 DEF PurgedIsForgotten
<1>14. QED
  BY <1>5, <1>8, <1>9, <1>10, <1>12, <1>13, <1>6 DEF PurgeIInv

(* A purge.                                                                *)
LEMMA PurgingInv ==
    ASSUME PurgeIInv, NEW p \in Purges, Purging(p)
    PROVE  PurgeIInv'
<1>1. SelectedAll(p) /\ IsOn(purge, Purges)
  BY DEF PurgeIInv
<1>2. /\ HasFields(IdlePurge, PurgeFields) /\ IdlePurge.at = "idle"
      /\ IdlePurge.selected = {}
  BY DEF IdlePurge, HasFields, PurgeFields
<1>3. ASSUME NEW org \in Orgs, NEW user \in Users, BeginPurge(p, org, user) PROVE PurgeIInv'
  <2> DEFINE sel == {row \in RowsOf("audit", org) : row.user = user}
             u == [IdlePurge EXCEPT !.at = "flush", !.org = org, !.user = user, !.selected = sel]
  <2>1. purge' = [purge EXCEPT ![p] = u] /\ UNCHANGED <<loopVars, rows, named>>
    BY <1>3 DEF BeginPurge
  <2>2. /\ HasFields(u, PurgeFields) /\ u.at = "flush" /\ u.org = org /\ u.user = user
        /\ u.selected = sel
    BY DEF IdlePurge, HasFields, PurgeFields
  <2>3. \A log \in sel : log \in AuditLog /\ log.org = org /\ log \in rows
    <3>1. \A row \in AuditLog \cup ProjectRow : row.kind = "audit" => row \in AuditLog
      BY DEF AuditLog, ProjectRow
    <3>2. QED
      BY <3>1 DEF PurgeIInv, RowsOf
  <2>4. \A row \in RowsOf("audit", org) : row.user = user => row \in sel
    OBVIOUS
  <2> HIDE DEF u, sel
  <2>5. QED
    BY <2>1, <2>2, <2>3, <2>4, PurgeMoveInv
<1>4. ASSUME FlushPurge(p) PROVE PurgeIInv'
  <2> DEFINE last == \A m \in members : m[2] = purge[p].user => m[1] = purge[p].org
             u == [purge[p] EXCEPT !.at = "commit", !.last = last]
  <2>1. UNCHANGED <<loopVars, rows, named>> /\ purge[p].at = "flush"
    BY <1>4 DEF FlushPurge
  <2>2. CASE purge' = [purge EXCEPT ![p] = IdlePurge]
    BY <1>2, <2>1, <2>2, PurgeMoveInv
  <2>3. CASE purge' = [purge EXCEPT ![p].at = "commit", ![p].last = last]
    <3>1. purge' = [purge EXCEPT ![p] = u]
      BY <1>1, <2>3 DEF IsOn
    <3>2. /\ HasFields(u, PurgeFields) /\ u.at = "commit" /\ u.org = purge[p].org
          /\ u.user = purge[p].user /\ u.selected = purge[p].selected
      BY <1>1 DEF SelectedAll, HasFields, PurgeFields
    <3> HIDE DEF u, last
    <3>3. QED
      BY <1>1, <2>1, <3>1, <3>2, PurgeMoveInv DEF SelectedAll
  <2>4. QED
    BY <1>4, <2>2, <2>3 DEF FlushPurge
<1>5. ASSUME NEW reply \in Replies, CommitPurge(p, reply) PROVE PurgeIInv'
  <2>1. /\ purge' = [purge EXCEPT ![p] = IdlePurge] /\ purge[p].at = "commit"
        /\ UNCHANGED loopVars
    BY <1>5 DEF CommitPurge
  <2>2. CASE UNCHANGED <<rows, named>>
    BY <1>2, <2>1, <2>2, PurgeMoveInv
  <2>3. CASE Applied(reply)
    BY <1>5, <2>1, <2>3, CommitPurgeInv DEF CommitPurge
  <2>4. QED
    BY <1>5, <2>2, <2>3 DEF CommitPurge
<1>6. QED
  BY <1>3, <1>4, <1>5 DEF Purging

(* Every step of the audit service keeps the invariant of its purges.      *)
LEMMA PurgeNextInv == PurgeIInv /\ day \in Int /\ [AuditNext]_auditVars
                      => PurgeIInv' /\ day' \in Int
<1> SUFFICES ASSUME PurgeIInv, day \in Int, [AuditNext]_auditVars
             PROVE  PurgeIInv' /\ day' \in Int
  OBVIOUS
<1>1. ASSUME rows' \subseteq rows, UNCHANGED <<loopVars, day, purge, named>>
      PROVE  PurgeIInv' /\ day' \in Int
  <2>1. LoopIInv(AuditEvents)' /\ \A id : Unstored(id)' => Unstored(id)
    BY <1>1, LoopStays DEF PurgeIInv, Unstored, At, loopVars
  <2>2. QED
    BY <1>1, <2>1, FewerRowsInv
<1>2. CASE UNCHANGED auditVars
  BY <1>1, <1>2 DEF auditVars
<1>3. ASSUME NEW event \in AuditEvents, PublishAudit(event) PROVE PurgeIInv' /\ day' \in Int
  BY <1>3, AuditLoopInv DEF PublishAudit
<1>4. ASSUME NEW w \in Workers, AuditConsumer(w) PROVE PurgeIInv' /\ day' \in Int
  <2>1. PICK reply \in Replies :
          \/ Consume(w, reply) /\ AuditUnchanged
          \/ \E id \in todo[w] : \/ StoreAudit(w, id, reply)
                                 \/ AckFinally(w, id, reply) /\ AuditUnchanged
    BY <1>4 DEF AuditConsumer
  <2>2. CASE Consume(w, reply) /\ AuditUnchanged
    BY <2>2, AuditLoopInv DEF AuditUnchanged
  <2>3. ASSUME NEW id \in todo[w], StoreAudit(w, id, reply) PROVE PurgeIInv' /\ day' \in Int
    <3>1. day' = day
      BY <2>3 DEF StoreAudit
    <3>2. QED
      BY <2>3, <3>1, StoreAuditInv
  <2>4. ASSUME NEW id \in todo[w], AckFinally(w, id, reply) /\ AuditUnchanged
        PROVE  PurgeIInv' /\ day' \in Int
    BY <2>4, AuditLoopInv DEF AuditUnchanged
  <2>5. QED
    BY <2>1, <2>2, <2>3, <2>4
<1>5. ASSUME NEW w \in Workers, CrashLoop(w) /\ AuditUnchanged PROVE PurgeIInv' /\ day' \in Int
  BY <1>5, AuditLoopInv DEF AuditUnchanged
<1>6. ASSUME NEW org \in Orgs, NEW p \in Policies, ConfigureRetention(org, p)
      PROVE  PurgeIInv' /\ day' \in Int
  BY <1>1, <1>6 DEF ConfigureRetention
<1>7. ASSUME NEW t \in Rounds, Retention(t) PROVE PurgeIInv' /\ day' \in Int
  <2>1. UNCHANGED <<loopVars, day, purge, named>> /\ rows' \subseteq rows
    BY <1>7 DEF Retention, BeginRound, DeleteOfOrg, ReadPolicyOrgs, DeleteByDefault, CommitRound
  <2>2. QED
    BY <1>1, <2>1
<1>8. ASSUME NEW p \in Purges, Purging(p) PROVE PurgeIInv' /\ day' \in Int
  <2>1. day' = day
    BY <1>8 DEF Purging, BeginPurge, FlushPurge, CommitPurge
  <2>2. QED
    BY <1>8, <2>1, PurgingInv
<1>9. ASSUME NextDay PROVE PurgeIInv' /\ day' \in Int
  <2>1. UNCHANGED <<loopVars, rows, purge, named>> /\ day' = day + 1
    BY <1>9 DEF NextDay
  <2>2. LoopIInv(AuditEvents)' /\ \A id : Unstored(id)' => Unstored(id)
    BY <2>1, LoopStays DEF PurgeIInv, Unstored, At, loopVars
  <2>3. QED
    BY <2>1, <2>2, FewerRowsInv
<1>10. QED
  BY <1>2, <1>3, <1>4, <1>5, <1>6, <1>7, <1>8, <1>9 DEF AuditNext

(* No purge runs at first, and no row came from an event.                  *)
LEMMA PurgeInitInv == AuditInit => PurgeIInv /\ day \in Int
<1> SUFFICES ASSUME AuditInit PROVE PurgeIInv /\ day \in Int
  OBVIOUS
<1>1. LoopIInv(AuditEvents) /\ day = 0 /\ rows = InitialRows /\ named = {}
  BY LoopInitInv DEF AuditInit
<1>2. IsOn(purge, Purges) /\ \A p \in Purges : purge[p] = IdlePurge
  BY DEF AuditInit, IsOn
<1>3. HasFields(IdlePurge, PurgeFields) /\ IdlePurge.at = "idle" /\ IdlePurge.selected = {}
  BY DEF IdlePurge, HasFields, PurgeFields
<1>4. rows \subseteq AuditLog \cup ProjectRow
  BY <1>1, AuditAssumption
<1>5. \A row \in rows : row.kind = "audit" => row.id = 0
  BY <1>1, AuditAssumption DEF ProjectRow
<1>6. \A id \in Nat \ {0} : NoTraceOf(id)
  BY <1>1, <1>2, <1>3, <1>5 DEF NoTraceOf
<1>7. QED
  BY <1>1, <1>2, <1>3, <1>4, <1>6 DEF PurgeIInv, SelectedAll, PurgedIsForgotten

(* Once a purge has committed, the audit logs it found name the user no    *)
(* more, whatever retention, other purges and the consumer did meanwhile:  *)
(* a log that another purge has selected as well is selected of a user     *)
(* only if it was written for that user, and no log is written twice.      *)
THEOREM PurgesForget == AuditSpec => []PurgedIsForgotten
<1>1. PurgeIInv => PurgedIsForgotten
  BY DEF PurgeIInv
<1>2. QED
  <2>1. PurgeIInv /\ day \in Int /\ [AuditNext]_auditVars => (PurgeIInv /\ day \in Int)'
    BY PurgeNextInv
  <2>2. QED
    BY PurgeInitInv, <1>1, <2>1, PTL DEF AuditSpec

-----------------------------------------------------------------------------
(* The enrichment service.                                                 *)

AtScores == {"enrich", "publish_scores", "remember"}

(* The replicas that are at a place with a request for mention m at hand.  *)
Working(where, m) ==
    {w \in Workers : \E id \in todo[w] : At(w, where, id) /\ EntryAt(id) = m}

Announcing(m) == Working("enrich", m) \cup Working("publish_scores", m)

Scored(m) == \E e \in enriched : e[1] = m

(* What n lapses of a key allow for.                                       *)
Bound(n) == Cardinality(Workers) * n

(* With its key there, a mention is announced once more by the replicas    *)
(* that missed it at most; without it, each announcement beyond what the   *)
(* lapses allow is that of a replica about to set the key.                 *)
WithinBudget(known, n, k, announcing, remembering) ==
    IF known THEN n + announcing <= Bound(k + 1) ELSE n <= Bound(k) + remembering

Budget(m) ==
    WithinBudget(m \in done, enrichResults[m], lapses[m],
                 Cardinality(Announcing(m)), Cardinality(Working("remember", m)))

EnrichmentIInv ==
    /\ LoopIInv(EnrichableMentions \cup {0})
    /\ enrichResults \in [EnrichableMentions -> Nat]
    /\ lapses \in [EnrichableMentions -> Nat]
    /\ \A m \in EnrichableMentions :
          /\ Budget(m)
          /\ m \in done \/ Working("remember", m) # {} => enrichResults[m] > 0 /\ Scored(m)
          /\ Working("publish_scores", m) # {} => Scored(m)
    /\ \A w \in Workers : \A where \in AtScores : \A id \in todo[w] :
          At(w, where, id) => EntryAt(id) \in EnrichableMentions

(* What a lapse adds.                                                      *)
LEMMA BoundGrows ==
    ASSUME NEW k \in Nat
    PROVE  /\ Cardinality(Workers) \in Nat
           /\ Bound(k) \in Nat /\ Bound(k + 1) \in Nat
           /\ Bound(k + 1) = Bound(k) + Cardinality(Workers)
<1>1. PICK n \in Nat : n = Cardinality(Workers)
  BY FS_CardinalityType, LoopAssumption
<1>2. n * k \in Nat /\ n * (k + 1) = n * k + n
  BY <1>1
<1>3. QED
  BY <1>1, <1>2 DEF Bound

(* Two sets of replicas that differ in one at most.                        *)
LEMMA OneReplicaApart ==
    ASSUME NEW w \in Workers, NEW S \in SUBSET Workers, NEW T \in SUBSET Workers,
           \A v \in Workers : v # w => (v \in S <=> v \in T)
    PROVE  /\ Cardinality(S) \in Nat /\ Cardinality(T) \in Nat
           /\ (w \in S <=> w \in T) => Cardinality(S) = Cardinality(T)
           /\ w \in S /\ w \notin T => Cardinality(S) = Cardinality(T) + 1
           /\ w \in T /\ w \notin S => Cardinality(T) = Cardinality(S) + 1
<1>1. IsFiniteSet(S) /\ IsFiniteSet(T)
  BY FS_Subset, LoopAssumption
<1>2. CASE w \in S <=> w \in T
  <2>1. S = T
    BY <1>2
  <2>2. QED
    BY <1>1, <1>2, <2>1, FS_CardinalityType
<1>3. CASE w \in S /\ w \notin T
  <2>1. S = T \cup {w}
    BY <1>3
  <2>2. QED
    BY <1>1, <1>3, <2>1, FS_AddElement, FS_CardinalityType
<1>4. CASE w \in T /\ w \notin S
  <2>1. T = S \cup {w}
    BY <1>4
  <2>2. QED
    BY <1>1, <1>4, <2>1, FS_AddElement, FS_CardinalityType
<1>5. QED
  BY <1>2, <1>3, <1>4

(* Where a replica that handles an entry goes.                             *)
LEMMA WorkingMoves ==
    ASSUME NEW Entry, LoopIInv(Entry), NEW w \in Workers, NEW id \in todo[w], NEW from, NEW to,
           At(w, from, id), Step(w, to), to # "idle"
    PROVE  \A where, m :
              /\ w \in Working(where, m) <=> where = from /\ m = EntryAt(id)
              /\ Working(where, m)' = IF where = to /\ m = EntryAt(id)
                                      THEN Working(where, m) \cup {w}
                                      ELSE Working(where, m) \ {w}
<1>1. Moves(w) /\ place'[w] = to /\ stream' = stream /\ todo' = todo
  BY StepMoves DEF GoesOn
<1>2. \A where, j : At(w, where, j) => where = from /\ j = id
  BY OneAtHand
<1>3. At(w, to, id)' /\ \A where, j : At(w, where, j)' => where = to /\ At(w, from, j)
  BY <1>1 DEF At
<1>4. ASSUME NEW where, NEW m
      PROVE  /\ w \in Working(where, m) <=> where = from /\ m = EntryAt(id)
             /\ w \in Working(where, m)' <=> where = to /\ m = EntryAt(id)
  BY <1>1, <1>2, <1>3 DEF Working, EntryAt
<1>5. ASSUME NEW where, NEW m, NEW v \in Workers, v # w
      PROVE  v \in Working(where, m)' <=> v \in Working(where, m)
  BY <1>1, <1>5 DEF Working, EntryAt, Moves, At
<1>6. ASSUME NEW where, NEW m
      PROVE  Working(where, m) \subseteq Workers /\ Working(where, m)' \subseteq Workers
  BY DEF Working
<1>7. ASSUME NEW where, NEW m
      PROVE  Working(where, m)' = IF where = to /\ m = EntryAt(id)
                                  THEN Working(where, m) \cup {w}
                                  ELSE Working(where, m) \ {w}
  BY <1>4, <1>5, <1>6
<1>8. QED
  BY <1>4, <1>7

(* A replica that leaves a batch or takes one works on nothing.            *)
LEMMA WorkingEnds ==
    ASSUME NEW Entry, LoopIInv(Entry), NEW w \in Workers, Moves(w), stream' = stream,
           place'[w] \in {"idle", "handle"}
    PROVE  \A where \in AtScores : \A m : Working(where, m)' = Working(where, m) \ {w}
<1>1. ASSUME NEW where \in AtScores, NEW m PROVE w \notin Working(where, m)'
  BY DEF Working, At, AtScores
<1>2. ASSUME NEW where, NEW m, NEW v \in Workers, v # w
      PROVE  v \in Working(where, m)' <=> v \in Working(where, m)
  BY <1>2 DEF Working, EntryAt, Moves, At
<1>3. ASSUME NEW where, NEW m
      PROVE  Working(where, m) \subseteq Workers /\ Working(where, m)' \subseteq Workers
  BY DEF Working
<1>4. QED
  BY <1>1, <1>2, <1>3

(* The counts of a budget.                                                 *)
LEMMA BudgetCounts ==
    ASSUME NEW m
    PROVE  /\ Announcing(m) \in SUBSET Workers /\ Announcing(m)' \in SUBSET Workers
           /\ Working("remember", m) \in SUBSET Workers
           /\ Working("remember", m)' \in SUBSET Workers
           /\ Cardinality(Announcing(m)) \in Nat /\ Cardinality(Announcing(m)') \in Nat
           /\ Cardinality(Working("remember", m)) \in Nat
           /\ Cardinality(Working("remember", m)') \in Nat
<1>1. /\ Announcing(m) \in SUBSET Workers /\ Announcing(m)' \in SUBSET Workers
      /\ Working("remember", m) \in SUBSET Workers /\ Working("remember", m)' \in SUBSET Workers
  BY DEF Announcing, Working
<1>2. \A S \in SUBSET Workers : Cardinality(S) \in Nat
  BY FS_Subset, FS_CardinalityType, LoopAssumption
<1>3. QED
  BY <1>1, <1>2

(* A mention that is neither announced nor forgotten.                      *)
LEMMA BudgetStays ==
    ASSUME EnrichmentIInv, NEW m \in EnrichableMentions,
           enrichResults'[m] = enrichResults[m], lapses'[m] = lapses[m], m \in done' <=> m \in done,
           m \in done => Announcing(m)' \subseteq Announcing(m),
           m \notin done => Working("remember", m) \subseteq Working("remember", m)'
    PROVE  Budget(m)'
<1>1. /\ Budget(m) /\ enrichResults[m] \in Nat /\ lapses[m] \in Nat
      /\ Bound(lapses[m]) \in Nat /\ Bound(lapses[m] + 1) \in Nat
  BY BoundGrows DEF EnrichmentIInv
<1>2. \A n : Bound(n)' = Bound(n)
  BY DEF Bound
<1>3. m \in done => Cardinality(Announcing(m)') <= Cardinality(Announcing(m))
  BY BudgetCounts, FS_Subset, LoopAssumption
<1>4. m \notin done => Cardinality(Working("remember", m)) <= Cardinality(Working("remember", m)')
  BY BudgetCounts, FS_Subset, LoopAssumption
<1>5. CASE m \in done
  <2>1. enrichResults[m] + Cardinality(Announcing(m)) <= Bound(lapses[m] + 1)
    BY <1>1, <1>5 DEF Budget, WithinBudget
  <2>2. enrichResults[m] + Cardinality(Announcing(m)') <= Bound(lapses[m] + 1)
    BY <1>1, <1>3, <1>5, <2>1, BudgetCounts
  <2>3. QED
    BY <1>2, <1>5, <2>2 DEF Budget, WithinBudget
<1>6. CASE m \notin done
  <2>1. enrichResults[m] <= Bound(lapses[m]) + Cardinality(Working("remember", m))
    BY <1>1, <1>6 DEF Budget, WithinBudget
  <2>2. enrichResults[m] <= Bound(lapses[m]) + Cardinality(Working("remember", m)')
    BY <1>1, <1>4, <1>6, <2>1, BudgetCounts
  <2>3. QED
    BY <1>2, <1>6, <2>2 DEF Budget, WithinBudget
<1>7. QED
  BY <1>5, <1>6

(* A lapse pays for a replica that does not set the key, and for a result. *)
LEMMA BudgetLapses ==
    ASSUME EnrichmentIInv, NEW m \in EnrichableMentions, NEW w \in Workers,
           enrichResults'[m] \in {enrichResults[m], enrichResults[m] + 1},
           lapses'[m] = lapses[m] + 1, m \in done' => m \in done,
           \A v \in Workers : v # w => (v \in Announcing(m) <=> v \in Announcing(m)'),
           \A v \in Workers :
              v # w => (v \in Working("remember", m) <=> v \in Working("remember", m)'),
           w \notin Announcing(m)',
           enrichResults'[m] # enrichResults[m] => w \in Announcing(m) /\ w \notin Working("remember", m)
    PROVE  Budget(m)'
<1>1. /\ Budget(m) /\ enrichResults[m] \in Nat /\ lapses[m] \in Nat /\ enrichResults'[m] \in Nat
  BY DEF EnrichmentIInv
<1>2. /\ Cardinality(Announcing(m)') <= Cardinality(Announcing(m))
      /\ w \in Announcing(m) => Cardinality(Announcing(m)') + 1 = Cardinality(Announcing(m))
      /\ Cardinality(Working("remember", m)) <= Cardinality(Working("remember", m)') + 1
      /\ w \notin Working("remember", m) =>
            Cardinality(Working("remember", m)) <= Cardinality(Working("remember", m)')
  <2>1. \A S, T \in SUBSET Workers :
          (\A v \in Workers : v # w => (v \in S <=> v \in T))
             => /\ Cardinality(S) \in Nat /\ Cardinality(T) \in Nat
                /\ (w \in S <=> w \in T) => Cardinality(S) = Cardinality(T)
                /\ w \in S /\ w \notin T => Cardinality(S) = Cardinality(T) + 1
                /\ w \in T /\ w \notin S => Cardinality(T) = Cardinality(S) + 1
    BY OneReplicaApart
  <2>2. PICK A, B \in SUBSET Workers : A = Announcing(m) /\ B = Announcing(m)'
    BY BudgetCounts
  <2>3. PICK R, Q \in SUBSET Workers : R = Working("remember", m) /\ Q = Working("remember", m)'
    BY BudgetCounts
  <2>4. /\ Cardinality(B) <= Cardinality(A)
        /\ w \in A => Cardinality(B) + 1 = Cardinality(A)
    <3>1. w \notin B /\ \A v \in Workers : v # w => (v \in A <=> v \in B)
      BY <2>2
    <3>2. /\ Cardinality(A) \in Nat /\ Cardinality(B) \in Nat
          /\ (w \in A <=> w \in B) => Cardinality(A) = Cardinality(B)
          /\ w \in A /\ w \notin B => Cardinality(A) = Cardinality(B) + 1
      BY <2>1, <3>1
    <3>3. QED
      BY <3>1, <3>2
  <2>5. /\ Cardinality(R) <= Cardinality(Q) + 1
        /\ w \notin R => Cardinality(R) <= Cardinality(Q)
    <3>1. \A v \in Workers : v # w => (v \in R <=> v \in Q)
      BY <2>3
    <3>2. /\ Cardinality(R) \in Nat /\ Cardinality(Q) \in Nat
          /\ (w \in R <=> w \in Q) => Cardinality(R) = Cardinality(Q)
          /\ w \in R /\ w \notin Q => Cardinality(R) = Cardinality(Q) + 1
          /\ w \in Q /\ w \notin R => Cardinality(Q) = Cardinality(R) + 1
      BY <2>1, <3>1
    <3>3. QED
      BY <3>2
  <2>6. QED
    BY <2>2, <2>3, <2>4, <2>5
<1>3. /\ Bound(lapses[m]) \in Nat /\ Bound(lapses[m] + 1) \in Nat /\ Bound(lapses[m] + 2) \in Nat
      /\ Bound(lapses[m] + 1) >= Bound(lapses[m]) + 1
      /\ Bound(lapses[m] + 2) >= Bound(lapses[m] + 1) + 1
  <2>1. Cardinality(Workers) \in Nat /\ Cardinality(Workers) # 0
    BY FS_CardinalityType, FS_EmptySet, LoopAssumption
  <2>2. lapses[m] + 1 \in Nat /\ (lapses[m] + 1) + 1 = lapses[m] + 2
    BY <1>1
  <2>3. QED
    BY <1>1, <2>1, <2>2, BoundGrows
<1>4. \A n : Bound(n)' = Bound(n)
  BY DEF Bound
<1>5. CASE m \in done
  <2>1. enrichResults[m] + Cardinality(Announcing(m)) <= Bound(lapses[m] + 1)
    BY <1>1, <1>5 DEF Budget, WithinBudget
  <2>2. enrichResults'[m] + Cardinality(Announcing(m)') <= Bound(lapses[m] + 1)
    BY <1>1, <1>2, <1>3, <2>1, BudgetCounts
  <2>3. enrichResults'[m] <= Bound(lapses[m] + 1) /\ lapses'[m] + 1 = lapses[m] + 2
    BY <1>1, <1>3, <2>2, BudgetCounts
  <2>4. enrichResults'[m] + Cardinality(Announcing(m)') <= Bound(lapses[m] + 2)
    BY <1>1, <1>3, <2>2, BudgetCounts
  <2>5. enrichResults'[m] <= Bound(lapses[m] + 1) + Cardinality(Working("remember", m)')
    BY <1>1, <1>3, <2>3, BudgetCounts
  <2>6. QED
    BY <1>4, <2>3, <2>4, <2>5 DEF Budget, WithinBudget
<1>6. CASE m \notin done
  <2>1. enrichResults[m] <= Bound(lapses[m]) + Cardinality(Working("remember", m))
    BY <1>1, <1>6 DEF Budget, WithinBudget
  <2>2. enrichResults'[m] <= Bound(lapses[m] + 1) + Cardinality(Working("remember", m)')
    BY <1>1, <1>2, <1>3, <2>1, BudgetCounts
  <2>3. QED
    BY <1>4, <1>6, <2>2 DEF Budget, WithinBudget
<1>7. QED
  BY <1>5, <1>6

(* An announcement by a replica that goes on to set the key.               *)
LEMMA BudgetAnnounces ==
    ASSUME EnrichmentIInv, NEW m \in EnrichableMentions, NEW w \in Workers,
           enrichResults'[m] = enrichResults[m] + 1, lapses'[m] = lapses[m],
           m \in done' <=> m \in done,
           Announcing(m)' = Announcing(m) \ {w}, w \in Announcing(m),
           Working("remember", m)' = Working("remember", m) \cup {w},
           w \notin Working("remember", m)
    PROVE  Budget(m)'
<1>1. /\ Budget(m) /\ enrichResults[m] \in Nat /\ lapses[m] \in Nat
      /\ Bound(lapses[m]) \in Nat /\ Bound(lapses[m] + 1) \in Nat
  BY BoundGrows DEF EnrichmentIInv
<1>2. \A n : Bound(n)' = Bound(n)
  BY DEF Bound
<1>3. PICK A, R \in SUBSET Workers : A = Announcing(m) /\ R = Working("remember", m)
  BY BudgetCounts
<1>4. Cardinality(A) = Cardinality(A \ {w}) + 1 /\ Cardinality(A \ {w}) \in Nat
  BY <1>3, OneReplicaApart
<1>5. Cardinality(R \cup {w}) = Cardinality(R) + 1 /\ Cardinality(R) \in Nat
  BY <1>3, OneReplicaApart
<1>6. CASE m \in done
  <2>1. enrichResults[m] + Cardinality(A) <= Bound(lapses[m] + 1)
    BY <1>1, <1>3, <1>6 DEF Budget, WithinBudget
  <2>2. enrichResults[m] + 1 + Cardinality(A \ {w}) <= Bound(lapses[m] + 1)
    BY <1>1, <1>4, <2>1
  <2>3. QED
    BY <1>2, <1>3, <1>6, <2>2 DEF Budget, WithinBudget
<1>7. CASE m \notin done
  <2>1. enrichResults[m] <= Bound(lapses[m]) + Cardinality(R)
    BY <1>1, <1>3, <1>7 DEF Budget, WithinBudget
  <2>2. enrichResults[m] + 1 <= Bound(lapses[m]) + Cardinality(R \cup {w})
    BY <1>1, <1>5, <2>1
  <2>3. QED
    BY <1>2, <1>3, <1>7, <2>2 DEF Budget, WithinBudget
<1>8. QED
  BY <1>6, <1>7

(* The key is set: each replica is announcing or has announced.            *)
LEMMA BudgetRemembers ==
    ASSUME EnrichmentIInv, NEW m \in EnrichableMentions,
           enrichResults'[m] = enrichResults[m], lapses'[m] = lapses[m], m \in done',
           Announcing(m)' \subseteq Announcing(m)
    PROVE  Budget(m)'
<1>1. /\ Budget(m) /\ enrichResults[m] \in Nat /\ lapses[m] \in Nat
      /\ Bound(lapses[m]) \in Nat /\ Bound(lapses[m] + 1) \in Nat
      /\ Bound(lapses[m] + 1) = Bound(lapses[m]) + Cardinality(Workers)
      /\ Cardinality(Workers) \in Nat
  BY BoundGrows DEF EnrichmentIInv
<1>2. \A n : Bound(n)' = Bound(n)
  BY DEF Bound
<1>3. PICK A, R \in SUBSET Workers : A = Announcing(m) /\ R = Working("remember", m)
  BY BudgetCounts
<1>4. A \cap R = {}
  <2>1. \A v \in Workers : \A i, j \in todo[v] : At(v, "remember", i) => ~At(v, "enrich", j) /\ ~At(v, "publish_scores", j)
    BY DEF At
  <2>2. QED
    BY <1>3, <2>1 DEF Announcing, Working
<1>5. Cardinality(A) + Cardinality(R) <= Cardinality(Workers)
  <2>1. IsFiniteSet(A) /\ IsFiniteSet(R) /\ IsFiniteSet(A \cup R)
        /\ Cardinality(A \cup R) <= Cardinality(Workers)
    BY <1>3, FS_Subset, LoopAssumption
  <2>2. Cardinality(A \cup R) = Cardinality(A) + Cardinality(R) - Cardinality(A \cap R)
    BY <2>1, FS_Union
  <2>3. Cardinality(A \cap R) = 0
    BY <1>4, FS_EmptySet
  <2>4. Cardinality(A) \in Nat /\ Cardinality(R) \in Nat
    BY <2>1, FS_CardinalityType
  <2>5. QED
    BY <2>1, <2>2, <2>3, <2>4
<1>6. Cardinality(A) \in Nat /\ Cardinality(R) \in Nat /\ Cardinality(Announcing(m)') \in Nat
      /\ Cardinality(Announcing(m)') <= Cardinality(A)
  BY <1>3, BudgetCounts, FS_Subset, LoopAssumption
<1>7. enrichResults[m] + Cardinality(A) <= Bound(lapses[m] + 1)
  <2>1. CASE m \in done
    BY <1>1, <1>3, <2>1 DEF Budget, WithinBudget
  <2>2. CASE m \notin done
    <3>1. enrichResults[m] <= Bound(lapses[m]) + Cardinality(R)
      BY <1>1, <1>3, <2>2 DEF Budget, WithinBudget
    <3>2. QED
      BY <1>1, <1>5, <1>6, <3>1
  <2>3. QED
    BY <2>1, <2>2
<1>8. enrichResults[m] + Cardinality(Announcing(m)') <= Bound(lapses[m] + 1)
  BY <1>1, <1>6, <1>7
<1>9. QED
  BY <1>2, <1>8 DEF Budget, WithinBudget

(* A step of a handler that announces nothing and does not touch the key.  *)
LEMMA EnrichQuietInv ==
    ASSUME EnrichmentIInv, NEW w \in Workers, NEW id \in todo[w], NEW from, NEW to,
           At(w, from, id), Step(w, to), from \notin {"remember", "idle"}, to \notin {"remember", "idle"},
           UNCHANGED <<enrichResults, done, lapses>>, \A m : Scored(m) => Scored(m)',
           to = "enrich" => EntryAt(id) \in EnrichableMentions \ done,
           to = "publish_scores" => from = "enrich" /\ \E e \in enriched' : e[1] = EntryAt(id)
    PROVE  EnrichmentIInv'
<1>1. /\ LoopIInv(EnrichableMentions \cup {0})' /\ Moves(w) /\ place'[w] = to
      /\ stream' = stream /\ todo' = todo
  BY StepMoves, GoesOnInv DEF EnrichmentIInv, GoesOn
<1>2. \A where, m :
         /\ w \in Working(where, m) <=> where = from /\ m = EntryAt(id)
         /\ Working(where, m)' = IF where = to /\ m = EntryAt(id)
                                 THEN Working(where, m) \cup {w}
                                 ELSE Working(where, m) \ {w}
  BY WorkingMoves DEF EnrichmentIInv
<1>3. \A m : Working("remember", m)' = Working("remember", m)
  BY <1>2
<1>4. ASSUME NEW m, m \in done PROVE Announcing(m)' \subseteq Announcing(m)
  BY <1>2, <1>4 DEF Announcing
<1>5. \A m \in EnrichableMentions : Budget(m)'
  BY <1>3, <1>4, BudgetStays
<1>6. ASSUME NEW m \in EnrichableMentions
      PROVE  /\ m \in done' \/ Working("remember", m)' # {} => enrichResults'[m] > 0 /\ Scored(m)'
             /\ Working("publish_scores", m)' # {} => Scored(m)'
  <2>1. Working("publish_scores", m)' # {} => Working("publish_scores", m) # {} \/ Scored(m)'
    <3>1. CASE to = "publish_scores" /\ m = EntryAt(id)
      BY <3>1 DEF Scored
    <3>2. CASE ~(to = "publish_scores" /\ m = EntryAt(id))
      <4>1. Working("publish_scores", m)' = Working("publish_scores", m) \ {w}
        BY <1>2, <3>2
      <4>2. QED
        BY <4>1
    <3>3. QED
      BY <3>1, <3>2
  <2>2. QED
    BY <1>3, <2>1 DEF EnrichmentIInv
<1>7. ASSUME NEW v \in Workers, NEW where \in AtScores, NEW j \in todo'[v], At(v, where, j)'
      PROVE  EntryAt(j)' \in EnrichableMentions
  <2>1. EntryAt(j)' = EntryAt(j) /\ j \in todo[v]
    BY <1>1 DEF EntryAt
  <2>2. CASE v # w
    <3>1. At(v, where, j)
      BY <1>1, <1>7, <2>2 DEF At, Moves
    <3>2. QED
      BY <2>1, <3>1 DEF EnrichmentIInv
  <2>3. CASE v = w
    <3>1. At(w, from, j) /\ where = to
      BY <1>1, <1>7, <2>3 DEF At
    <3>2. j = id
      BY <3>1, OneAtHand DEF EnrichmentIInv
    <3>3. to = "enrich" \/ (to = "publish_scores" /\ At(w, "enrich", id))
      BY <3>1 DEF AtScores
    <3>4. QED
      BY <2>1, <3>2, <3>3 DEF EnrichmentIInv, AtScores
  <2>4. QED
    BY <2>2, <2>3
<1>8. QED
  BY <1>1, <1>5, <1>6, <1>7 DEF EnrichmentIInv

(* A replica that takes a batch or is done with an entry.                  *)
LEMMA EnrichEndsInv ==
    ASSUME EnrichmentIInv, NEW w \in Workers, LoopIInv(EnrichableMentions \cup {0})', Moves(w),
           stream' = stream, place'[w] \in {"idle", "handle"}, place[w] # "remember",
           UNCHANGED <<enriched, enrichResults, done, lapses>>
    PROVE  EnrichmentIInv'
<1>1. \A where \in AtScores : \A m : Working(where, m)' = Working(where, m) \ {w}
  BY WorkingEnds DEF EnrichmentIInv
<1>2. \A m : w \notin Working("remember", m)
  BY DEF Working, At
<1>3. \A m : /\ Working("remember", m)' = Working("remember", m)
             /\ Announcing(m)' \subseteq Announcing(m)
             /\ Working("publish_scores", m)' \subseteq Working("publish_scores", m)
  BY <1>1, <1>2 DEF Announcing, AtScores
<1>4. \A m \in EnrichableMentions : Budget(m)'
  BY <1>3, BudgetStays
<1>5. \A m : Scored(m)' <=> Scored(m)
  BY DEF Scored
<1>6. ASSUME NEW v \in Workers, NEW where \in AtScores, NEW j \in todo'[v], At(v, where, j)'
      PROVE  EntryAt(j)' \in EnrichableMentions
  <2>1. v # w
    BY <1>6 DEF At, AtScores
  <2>2. At(v, where, j) /\ EntryAt(j)' = EntryAt(j) /\ j \in todo[v]
    BY <1>6, <2>1 DEF At, Moves, EntryAt
  <2>3. QED
    BY <2>2 DEF EnrichmentIInv
<1>7. QED
  BY <1>3, <1>4, <1>5, <1>6 DEF EnrichmentIInv

(* The announcement, the key, and a crash before the key is set.           *)
LEMMA EnrichPublishInv ==
    ASSUME EnrichmentIInv, NEW w \in Workers, NEW id \in todo[w], NEW reply \in Replies,
           PublishScores(w, id, reply)
    PROVE  EnrichmentIInv'
<1>0. PICK m : m = EntryAt(id)
  OBVIOUS
<1> DEFINE to == IF Raised(reply) THEN "finally" ELSE "remember"
<1>1. At(w, "publish_scores", id) /\ Step(w, to) /\ UNCHANGED <<enriched, done>>
  BY DEF PublishScores
<1>2. /\ LoopIInv(EnrichableMentions \cup {0})' /\ Moves(w) /\ place'[w] = to
      /\ stream' = stream /\ todo' = todo
  BY <1>1, StepMoves, GoesOnInv DEF EnrichmentIInv, GoesOn
<1>3. \A where, n :
         /\ w \in Working(where, n) <=> where = "publish_scores" /\ n = m
         /\ Working(where, n)' = IF where = to /\ n = m
                                 THEN Working(where, n) \cup {w}
                                 ELSE Working(where, n) \ {w}
  BY <1>0, <1>1, WorkingMoves DEF EnrichmentIInv
<1>4. m \in EnrichableMentions /\ Scored(m)
  <2>1. m \in EnrichableMentions
    BY <1>0, <1>1 DEF EnrichmentIInv, AtScores
  <2>2. Working("publish_scores", m) # {}
    BY <1>3
  <2>3. QED
    BY <2>1, <2>2 DEF EnrichmentIInv
<1>5. /\ enrichResults' = IF Applied(reply) THEN [enrichResults EXCEPT ![m] = @ + 1] ELSE enrichResults
      /\ lapses' = IF Raised(reply) THEN [lapses EXCEPT ![m] = @ + 1] ELSE lapses
  BY <1>0 DEF PublishScores, Lapse
<1>6. /\ enrichResults' \in [EnrichableMentions -> Nat] /\ lapses' \in [EnrichableMentions -> Nat]
      /\ \A n \in EnrichableMentions :
            n # m => enrichResults'[n] = enrichResults[n] /\ lapses'[n] = lapses[n]
      /\ enrichResults'[m] = (IF Applied(reply) THEN enrichResults[m] + 1 ELSE enrichResults[m])
      /\ lapses'[m] = (IF Raised(reply) THEN lapses[m] + 1 ELSE lapses[m])
  BY <1>4, <1>5 DEF EnrichmentIInv
<1>7. \A n : n # m => /\ Working("remember", n)' = Working("remember", n)
                      /\ Announcing(n)' = Announcing(n)
  BY <1>3 DEF Announcing
<1>8. /\ w \in Announcing(m) /\ w \notin Working("remember", m)
      /\ Announcing(m)' = Announcing(m) \ {w}
  BY <1>3 DEF Announcing
<1>9. Working("remember", m)' = IF to = "remember" THEN Working("remember", m) \cup {w}
                                ELSE Working("remember", m)
  BY <1>3, <1>8
<1>10. ASSUME NEW n \in EnrichableMentions PROVE Budget(n)'
  <2>1. CASE n # m
    BY <1>1, <1>6, <1>7, <2>1, BudgetStays
  <2>2. CASE n = m /\ Raised(reply)
    <3>1. /\ enrichResults'[m] \in {enrichResults[m], enrichResults[m] + 1}
          /\ lapses'[m] = lapses[m] + 1 /\ (m \in done' => m \in done)
      BY <1>1, <1>6, <2>2
    <3>2. /\ \A v \in Workers : v # w => (v \in Announcing(m) <=> v \in Announcing(m)')
          /\ \A v \in Workers :
                v # w => (v \in Working("remember", m) <=> v \in Working("remember", m)')
          /\ w \notin Announcing(m)'
      BY <1>8, <1>9
    <3>3. QED
      BY <1>4, <1>8, <2>2, <3>1, <3>2, BudgetLapses
  <2>3. CASE n = m /\ ~Raised(reply)
    <3>1. Applied(reply) /\ to = "remember"
      BY <2>3 DEF Raised, Applied
    <3>2. QED
      BY <1>1, <1>4, <1>6, <1>8, <1>9, <2>3, <3>1, BudgetAnnounces
  <2>4. QED
    BY <2>1, <2>2, <2>3
<1>11. \A n : Scored(n)' <=> Scored(n)
  BY <1>1 DEF Scored
<1>12. ASSUME NEW n \in EnrichableMentions
       PROVE  /\ n \in done' \/ Working("remember", n)' # {} => enrichResults'[n] > 0 /\ Scored(n)'
              /\ Working("publish_scores", n)' # {} => Scored(n)'
  <2>1. /\ enrichResults[n] \in Nat /\ enrichResults'[n] \in Nat
        /\ enrichResults'[n] >= enrichResults[n]
    BY <1>6 DEF EnrichmentIInv
  <2>2. Working("publish_scores", n)' # {} => Scored(n)'
    <3>1. to # "publish_scores" /\ Working("publish_scores", n)' = Working("publish_scores", n) \ {w}
      BY <1>3
    <3>2. QED
      BY <1>11, <3>1 DEF EnrichmentIInv
  <2>3. CASE n # m
    <3>1. n \in done' \/ Working("remember", n)' # {} => enrichResults[n] > 0 /\ Scored(n)
      BY <1>1, <1>7, <2>3 DEF EnrichmentIInv
    <3>2. enrichResults[n] > 0 => enrichResults'[n] > 0
      BY <2>1
    <3>3. QED
      BY <1>11, <2>2, <3>1, <3>2
  <2>4. CASE n = m /\ ~Raised(reply)
    <3>1. Applied(reply)
      BY <2>4 DEF Raised, Applied
    <3>2. enrichResults'[n] > 0
      BY <1>6, <2>1, <2>4, <3>1
    <3>3. QED
      BY <1>4, <1>11, <2>2, <2>4, <3>2
  <2>5. CASE n = m /\ Raised(reply)
    <3>1. Working("remember", n)' = Working("remember", n)
      BY <1>9, <2>5
    <3>2. n \in done' \/ Working("remember", n)' # {} => enrichResults[n] > 0
      BY <1>1, <3>1 DEF EnrichmentIInv
    <3>3. enrichResults[n] > 0 => enrichResults'[n] > 0
      BY <2>1
    <3>4. QED
      BY <1>4, <1>11, <2>2, <2>5, <3>2, <3>3
  <2>6. QED
    BY <2>3, <2>4, <2>5
<1>13. ASSUME NEW v \in Workers, NEW where \in AtScores, NEW j \in todo'[v], At(v, where, j)'
       PROVE  EntryAt(j)' \in EnrichableMentions
  <2>1. EntryAt(j)' = EntryAt(j) /\ j \in todo[v]
    BY <1>2 DEF EntryAt
  <2>2. CASE v # w
    BY <1>2, <1>13, <2>1, <2>2 DEF At, Moves, EnrichmentIInv
  <2>3. CASE v = w
    <3>1. At(w, "publish_scores", j)
      BY <1>1, <1>2, <1>13, <2>3 DEF At
    <3>2. QED
      BY <2>1, <2>3, <3>1 DEF EnrichmentIInv, AtScores
  <2>4. QED
    BY <2>2, <2>3
<1>14. QED
  BY <1>2, <1>6, <1>10, <1>12, <1>13 DEF EnrichmentIInv

(* SETEX of the key.                                                       *)
LEMMA EnrichRememberInv ==
    ASSUME EnrichmentIInv, NEW w \in Workers, NEW id \in todo[w], NEW reply \in Replies,
           Remember(w, id, reply)
    PROVE  EnrichmentIInv'
<1>1. At(w, "remember", id) /\ Step(w, "finally") /\ UNCHANGED <<enriched, enrichResults>>
  BY DEF Remember
<1>2. /\ LoopIInv(EnrichableMentions \cup {0})' /\ Moves(w) /\ place'[w] = "finally"
      /\ stream' = stream /\ todo' = todo
  BY <1>1, StepMoves, GoesOnInv DEF EnrichmentIInv, GoesOn
<1>3. PICK m : m = EntryAt(id)
  OBVIOUS
<1>4. \A where, n :
         /\ w \in Working(where, n) <=> where = "remember" /\ n = m
         /\ Working(where, n)' = IF where = "finally" /\ n = m
                                 THEN Working(where, n) \cup {w}
                                 ELSE Working(where, n) \ {w}
  BY <1>1, <1>3, WorkingMoves DEF EnrichmentIInv
<1>5. m \in EnrichableMentions /\ Scored(m) /\ enrichResults[m] > 0
  <2>1. m \in EnrichableMentions
    BY <1>1, <1>3 DEF EnrichmentIInv, AtScores
  <2>2. Working("remember", m) # {}
    BY <1>4
  <2>3. QED
    BY <2>1, <2>2 DEF EnrichmentIInv
<1>6. /\ done' = IF Applied(reply) THEN done \cup {m} ELSE done
      /\ lapses' = IF Applied(reply) THEN lapses ELSE [lapses EXCEPT ![m] = @ + 1]
  BY <1>3 DEF Remember, Lapse
<1>7. /\ lapses' \in [EnrichableMentions -> Nat]
      /\ \A n \in EnrichableMentions : n # m => lapses'[n] = lapses[n]
      /\ lapses'[m] = (IF Applied(reply) THEN lapses[m] ELSE lapses[m] + 1)
  BY <1>5, <1>6 DEF EnrichmentIInv
<1>8. \A n : /\ n # m => Working("remember", n)' = Working("remember", n)
             /\ Working("remember", n)' \subseteq Working("remember", n)
             /\ Working("publish_scores", n)' = Working("publish_scores", n)
             /\ Announcing(n)' = Announcing(n) /\ w \notin Announcing(n)
  BY <1>4 DEF Announcing
<1>9. \A n : Scored(n)' <=> Scored(n)
  BY <1>1 DEF Scored
<1>10. ASSUME NEW n \in EnrichableMentions PROVE Budget(n)'
  <2>1. CASE n # m
    <3>1. n \in done' <=> n \in done
      BY <1>6, <2>1
    <3>2. QED
      BY <1>1, <1>7, <1>8, <2>1, <3>1, BudgetStays
  <2>2. CASE n = m /\ Applied(reply)
    BY <1>1, <1>5, <1>6, <1>7, <1>8, <2>2, BudgetRemembers
  <2>3. CASE n = m /\ ~Applied(reply)
    <3>1. /\ enrichResults'[m] = enrichResults[m] /\ lapses'[m] = lapses[m] + 1
          /\ (m \in done' => m \in done)
      BY <1>1, <1>6, <1>7, <2>3
    <3>2. /\ \A v \in Workers : v # w => (v \in Announcing(m) <=> v \in Announcing(m)')
          /\ \A v \in Workers :
                v # w => (v \in Working("remember", m) <=> v \in Working("remember", m)')
          /\ w \notin Announcing(m)'
      <4>1. Working("remember", m)' = Working("remember", m) \ {w}
        BY <1>4
      <4>2. QED
        BY <1>8, <4>1
    <3>3. QED
      BY <1>5, <2>3, <3>1, <3>2, BudgetLapses
  <2>4. QED
    BY <2>1, <2>2, <2>3
<1>11. ASSUME NEW n \in EnrichableMentions
       PROVE  /\ n \in done' \/ Working("remember", n)' # {} => enrichResults'[n] > 0 /\ Scored(n)'
              /\ Working("publish_scores", n)' # {} => Scored(n)'
  <2>1. CASE n = m
    BY <1>1, <1>5, <1>9, <2>1
  <2>2. CASE n # m
    BY <1>1, <1>6, <1>8, <1>9, <2>2 DEF EnrichmentIInv
  <2>3. QED
    BY <2>1, <2>2
<1>12. ASSUME NEW v \in Workers, NEW where \in AtScores, NEW j \in todo'[v], At(v, where, j)'
       PROVE  EntryAt(j)' \in EnrichableMentions
  <2>1. v # w
    BY <1>2, <1>12 DEF At, AtScores
  <2>2. At(v, where, j) /\ EntryAt(j)' = EntryAt(j) /\ j \in todo[v]
    BY <1>2, <1>12, <2>1 DEF At, Moves, EntryAt
  <2>3. QED
    BY <2>2 DEF EnrichmentIInv
<1>13. enrichResults' \in [EnrichableMentions -> Nat]
  BY <1>1 DEF EnrichmentIInv
<1>14. QED
  BY <1>2, <1>7, <1>10, <1>11, <1>12, <1>13 DEF EnrichmentIInv

(* A crash.                                                                *)
LEMMA EnrichCrashInv ==
    ASSUME EnrichmentIInv, NEW w \in Workers, CrashEnrichment(w)
    PROVE  EnrichmentIInv'
<1>1. /\ LoopIInv(EnrichableMentions \cup {0})' /\ Moves(w) /\ place'[w] = "idle"
      /\ stream' = stream
  BY CrashMoves, GoesOnInv DEF EnrichmentIInv, GoesOn, CrashEnrichment
<1>2. CASE place[w] # "remember"
  BY <1>1, <1>2, EnrichEndsInv DEF CrashEnrichment
<1>3. CASE place[w] = "remember"
  <2>1. PICK id \in todo[w] : At(w, "remember", id) /\ Lapse(EntryAt(id))
    BY <1>3 DEF CrashEnrichment
  <2>2. PICK m : m = EntryAt(id)
    OBVIOUS
  <2>3. m \in EnrichableMentions
    BY <2>1, <2>2 DEF EnrichmentIInv, AtScores
  <2>4. /\ lapses' \in [EnrichableMentions -> Nat] /\ lapses'[m] = lapses[m] + 1
        /\ \A n \in EnrichableMentions : n # m => lapses'[n] = lapses[n]
        /\ UNCHANGED <<enriched, enrichResults, done>>
    BY <2>1, <2>2, <2>3 DEF Lapse, EnrichmentIInv, CrashEnrichment
  <2>5. \A where \in AtScores : \A n : Working(where, n)' = Working(where, n) \ {w}
    BY <1>1, WorkingEnds DEF EnrichmentIInv
  <2>6. \A where, n : w \in Working(where, n) => where = "remember" /\ n = m
    <3>1. \A where, j : At(w, where, j) => where = "remember" /\ j = id
      BY <2>1, OneAtHand DEF EnrichmentIInv
    <3>2. QED
      BY <2>2, <3>1 DEF Working
  <2>7. \A n : /\ n # m => Working("remember", n)' = Working("remember", n)
               /\ Working("remember", n)' = Working("remember", n) \ {w}
               /\ Working("publish_scores", n)' = Working("publish_scores", n)
               /\ Announcing(n)' = Announcing(n) /\ w \notin Announcing(n)
    <3>1. ASSUME NEW n
          PROVE  /\ Working("remember", n)' = Working("remember", n) \ {w}
                 /\ Working("publish_scores", n)' = Working("publish_scores", n) \ {w}
                 /\ Working("enrich", n)' = Working("enrich", n) \ {w}
      BY <2>5 DEF AtScores
    <3>2. ASSUME NEW n
          PROVE  /\ w \notin Working("publish_scores", n) /\ w \notin Working("enrich", n)
                 /\ n # m => w \notin Working("remember", n)
      BY <2>6
    <3>3. ASSUME NEW n
          PROVE  /\ n # m => Working("remember", n)' = Working("remember", n)
                 /\ Working("publish_scores", n)' = Working("publish_scores", n)
                 /\ Working("enrich", n)' = Working("enrich", n)
      BY <3>1, <3>2
    <3>4. \A n : Announcing(n)' = Announcing(n) /\ w \notin Announcing(n)
      BY <3>2, <3>3 DEF Announcing
    <3>5. QED
      BY <3>1, <3>3, <3>4
  <2>8. \A n : Scored(n)' <=> Scored(n)
    BY <2>4 DEF Scored
  <2>9. ASSUME NEW n \in EnrichableMentions PROVE Budget(n)'
    <3>1. CASE n # m
      BY <2>4, <2>7, <3>1, BudgetStays
    <3>2. CASE n = m
      <4>1. /\ enrichResults'[m] = enrichResults[m] /\ lapses'[m] = lapses[m] + 1
            /\ (m \in done' => m \in done)
        BY <2>4
      <4>2. /\ \A v \in Workers : v # w => (v \in Announcing(m) <=> v \in Announcing(m)')
            /\ \A v \in Workers :
                  v # w => (v \in Working("remember", m) <=> v \in Working("remember", m)')
            /\ w \notin Announcing(m)'
        BY <2>7
      <4>3. QED
        BY <2>3, <3>2, <4>1, <4>2, BudgetLapses
    <3>3. QED
      BY <3>1, <3>2
  <2>10. ASSUME NEW n \in EnrichableMentions
         PROVE  /\ n \in done' \/ Working("remember", n)' # {} => enrichResults'[n] > 0 /\ Scored(n)'
                /\ Working("publish_scores", n)' # {} => Scored(n)'
    <3>1. n \in done' \/ Working("remember", n)' # {} => n \in done \/ Working("remember", n) # {}
      BY <2>4, <2>7
    <3>2. QED
      BY <2>4, <2>7, <2>8, <3>1 DEF EnrichmentIInv
  <2>11. ASSUME NEW v \in Workers, NEW where \in AtScores, NEW j \in todo'[v], At(v, where, j)'
         PROVE  EntryAt(j)' \in EnrichableMentions
    <3>1. v # w
      BY <1>1, <2>11 DEF At, AtScores
    <3>2. At(v, where, j) /\ EntryAt(j)' = EntryAt(j) /\ j \in todo[v]
      BY <1>1, <2>11, <3>1 DEF At, Moves, EntryAt
    <3>3. QED
      BY <3>2 DEF EnrichmentIInv
  <2>12. enrichResults' \in [EnrichableMentions -> Nat]
    BY <2>4 DEF EnrichmentIInv
  <2>13. QED
    BY <1>1, <2>4, <2>9, <2>10, <2>11, <2>12 DEF EnrichmentIInv
<1>4. QED
  BY <1>2, <1>3

(* A request, a batch, and a key that expires.                             *)
LEMMA EnrichRestInv ==
    ASSUME EnrichmentIInv,
           \/ \E m \in EnrichableMentions \cup {0} : RequestEnrichment(m)
           \/ \E m \in EnrichableMentions : ExpireDone(m)
           \/ \E w \in Workers, reply \in Replies :
                 Consume(w, reply) /\ UNCHANGED <<enriched, enrichResults, done, lapses>>
    PROVE  EnrichmentIInv'
<1>1. ASSUME NEW m \in EnrichableMentions \cup {0}, RequestEnrichment(m) PROVE EnrichmentIInv'
  <2>1. /\ LoopIInv(EnrichableMentions \cup {0})' /\ Grows
        /\ UNCHANGED <<group, place, todo, enriched, enrichResults, done, lapses>>
    BY <1>1, AddGrows DEF EnrichmentIInv, RequestEnrichment
  <2>2. ASSUME NEW w \in Workers, NEW id \in todo[w]
        PROVE  EntryAt(id)' = EntryAt(id)
    <3>1. id \in 1 .. Len(stream.log)
      BY <2>2 DEF EnrichmentIInv, LoopIInv, StreamOf, Group
    <3>2. QED
      BY <2>1, <3>1 DEF Grows, EntryAt
  <2>3. \A where, n : Working(where, n)' = Working(where, n)
    BY <2>1, <2>2 DEF Working, At
  <2>4. \A n : Announcing(n)' = Announcing(n) /\ (Scored(n)' <=> Scored(n))
    BY <2>1, <2>3 DEF Announcing, Scored
  <2>5. \A n \in EnrichableMentions : Budget(n)'
    BY <2>1, <2>3, <2>4, BudgetStays
  <2>6. \A w \in Workers : \A where \in AtScores : \A id \in todo'[w] :
          At(w, where, id)' => EntryAt(id)' \in EnrichableMentions
    BY <2>1, <2>2 DEF EnrichmentIInv, At
  <2>7. QED
    BY <2>1, <2>3, <2>4, <2>5, <2>6 DEF EnrichmentIInv
<1>2. ASSUME NEW m \in EnrichableMentions, ExpireDone(m) PROVE EnrichmentIInv'
  <2>1. /\ UNCHANGED <<loopVars, enriched, enrichResults>> /\ done' = done \ {m} /\ m \in done
        /\ lapses' \in [EnrichableMentions -> Nat] /\ lapses'[m] = lapses[m] + 1
        /\ \A n \in EnrichableMentions : n # m => lapses'[n] = lapses[n]
    BY <1>2 DEF ExpireDone, Lapse, EnrichmentIInv
  <2>2. \A where, n : Working(where, n)' = Working(where, n)
    BY <2>1 DEF Working, At, loopVars, EntryAt
  <2>3. \A n : Announcing(n)' = Announcing(n) /\ (Scored(n)' <=> Scored(n))
    BY <2>1, <2>2 DEF Announcing, Scored
  <2>4. ASSUME NEW n \in EnrichableMentions PROVE Budget(n)'
    <3>1. CASE n # m
      BY <2>1, <2>2, <2>3, <3>1, BudgetStays
    <3>2. CASE n = m
      <4>1. /\ enrichResults[m] \in Nat /\ lapses[m] \in Nat /\ Bound(lapses[m] + 1) \in Nat
            /\ enrichResults[m] + Cardinality(Announcing(m)) <= Bound(lapses[m] + 1)
        BY <2>1, BoundGrows DEF EnrichmentIInv, Budget, WithinBudget
      <4>2. enrichResults[m] <= Bound(lapses[m] + 1) + Cardinality(Working("remember", m))
        BY <4>1, BudgetCounts
      <4>3. \A k : Bound(k)' = Bound(k)
        BY DEF Bound
      <4>4. QED
        BY <2>1, <2>2, <3>2, <4>2, <4>3 DEF Budget, WithinBudget
    <3>3. QED
      BY <3>1, <3>2
  <2>5. LoopIInv(EnrichableMentions \cup {0})'
    BY <2>1, LoopStays DEF EnrichmentIInv
  <2>6. \A w \in Workers : \A where \in AtScores : \A id \in todo'[w] :
          At(w, where, id)' => EntryAt(id)' \in EnrichableMentions
    BY <2>1 DEF EnrichmentIInv, At, loopVars, EntryAt
  <2>7. \A n \in EnrichableMentions :
           n \in done' \/ Working("remember", n)' # {} => enrichResults'[n] > 0 /\ Scored(n)'
    BY <2>1, <2>2, <2>3 DEF EnrichmentIInv
  <2>8. QED
    BY <2>1, <2>2, <2>3, <2>4, <2>5, <2>6, <2>7 DEF EnrichmentIInv
<1>3. ASSUME NEW w \in Workers, NEW reply \in Replies, Consume(w, reply),
             UNCHANGED <<enriched, enrichResults, done, lapses>>
      PROVE  EnrichmentIInv'
  <2>1. /\ LoopIInv(EnrichableMentions \cup {0})' /\ Moves(w) /\ stream' = stream
        /\ place'[w] \in {"idle", "handle"}
    BY <1>3, ConsumeMoves DEF EnrichmentIInv
  <2>2. place[w] # "remember"
    BY <1>3 DEF Consume
  <2>3. QED
    BY <1>3, <2>1, <2>2, EnrichEndsInv
<1>4. QED
  BY <1>1, <1>2, <1>3

(* The other steps of a handler.                                           *)
LEMMA EnrichHandlerInv ==
    ASSUME EnrichmentIInv, NEW w \in Workers, NEW id \in todo[w], NEW reply \in Replies,
           \/ RefuseMention(w, id)
           \/ LookUpDone(w, id, reply)
           \/ AckDuplicate(w, id, reply)
           \/ EnrichMention(w, id, reply)
           \/ AckFinally(w, id, reply) /\ UNCHANGED <<enriched, enrichResults, done, lapses>>
    PROVE  EnrichmentIInv'
<1>1. CASE RefuseMention(w, id)
  <2>1. \A m : Scored(m) => Scored(m)'
    BY <1>1 DEF RefuseMention, Scored
  <2>2. QED
    BY <1>1, <2>1, EnrichQuietInv DEF RefuseMention
<1>2. CASE LookUpDone(w, id, reply)
  <2>1. \A m : Scored(m) => Scored(m)'
    BY <1>2 DEF LookUpDone, Scored
  <2>2. PICK to \in {"finally", "ack_duplicate", "enrich"} :
           Step(w, to) /\ (to = "enrich" => EntryAt(id) \notin done)
    BY <1>2 DEF LookUpDone
  <2>3. EntryAt(id) \in EnrichableMentions \cup {0}
    <3>1. id \in 1 .. Len(stream.log)
      BY DEF EnrichmentIInv, LoopIInv, StreamOf, Group
    <3>2. QED
      BY <3>1 DEF EnrichmentIInv, LoopIInv, StreamOf, EntryAt
  <2>4. QED
    BY <1>2, <2>1, <2>2, <2>3, EnrichQuietInv DEF LookUpDone
<1>3. CASE AckDuplicate(w, id, reply)
  <2>1. /\ At(w, "ack_duplicate", id) /\ GoesOn(w, id) /\ id \in Nat
        /\ todo' = todo /\ place'[w] = "finally"
    <3>1. /\ At(w, "ack_duplicate", id) /\ stream' = stream /\ todo' = todo
          /\ group' \in {group, XAck(group, id)}
          /\ place' = [place EXCEPT ![w] = "finally"]
      BY <1>3 DEF AckDuplicate, Goto
    <3>2. /\ IsOn(place', Workers) /\ place'[w] = "finally"
          /\ \A v \in Workers : v # w => place'[v] = place[v]
      BY <3>1 DEF EnrichmentIInv, LoopIInv, IsOn
    <3>3. IsOn(todo', Workers) /\ id \in Nat /\ todo[w] # {}
      BY <3>1 DEF EnrichmentIInv, LoopIInv, IsOn
    <3>4. QED
      BY <3>1, <3>2, <3>3 DEF GoesOn, Moves
  <2>2. LoopIInv(EnrichableMentions \cup {0})' /\ Moves(w) /\ stream' = stream
    BY <2>1, GoesOnInv DEF EnrichmentIInv, GoesOn
  <2>3. UNCHANGED <<enriched, enrichResults, done, lapses>>
    BY <1>3 DEF AckDuplicate
  <2>4. \A where \in AtScores : \A m : Working(where, m)' = Working(where, m)
    <3>1. ASSUME NEW v \in Workers, NEW where \in AtScores, NEW j
          PROVE  At(v, where, j)' <=> At(v, where, j)
      <4>1. place[w] = "ack_duplicate"
        BY <2>1 DEF At
      <4>2. place'[v] = where <=> place[v] = where
        BY <2>1, <2>2, <4>1 DEF Moves, AtScores
      <4>3. QED
        BY <2>1, <4>2 DEF At
    <3>2. QED
      BY <2>1, <2>2, <3>1 DEF Working, EntryAt
  <2>5. \A n : Announcing(n)' = Announcing(n) /\ (Scored(n)' <=> Scored(n))
    BY <2>3, <2>4 DEF Announcing, Scored, AtScores
  <2>6. \A n \in EnrichableMentions : Budget(n)'
    BY <2>3, <2>4, <2>5, BudgetStays DEF AtScores
  <2>7. ASSUME NEW v \in Workers, NEW where \in AtScores, NEW j \in todo'[v], At(v, where, j)'
        PROVE  EntryAt(j)' \in EnrichableMentions
    <3>1. v # w
      BY <2>1, <2>7 DEF At, AtScores
    <3>2. At(v, where, j) /\ EntryAt(j)' = EntryAt(j) /\ j \in todo[v]
      BY <2>2, <2>7, <3>1 DEF At, Moves, EntryAt
    <3>3. QED
      BY <3>2 DEF EnrichmentIInv
  <2>8. QED
    BY <2>2, <2>3, <2>4, <2>5, <2>6, <2>7 DEF EnrichmentIInv, AtScores
<1>4. CASE EnrichMention(w, id, reply)
  <2>1. ASSUME NEW m, Scored(m) PROVE Scored(m)'
    <3>1. enriched' = enriched \/ enriched' = {e \in enriched : e[1] # EntryAt(id)}
                                     \cup {<<EntryAt(id), DetectBot(AuthorOf[EntryAt(id)])>>}
      BY <1>4 DEF EnrichMention
    <3>2. QED
      BY <2>1, <3>1 DEF Scored
  <2>2. PICK to \in {"finally", "publish_scores"} :
           Step(w, to) /\ (to = "publish_scores" => ~Raised(reply) /\ EntryAt(id) \notin MissingRows)
    BY <1>4 DEF EnrichMention
  <2>3. to = "publish_scores" => \E e \in enriched' : e[1] = EntryAt(id)
    <3>1. ~Raised(reply) => Applied(reply)
      BY DEF Raised, Applied
    <3>2. to = "publish_scores"
             => <<EntryAt(id), DetectBot(AuthorOf[EntryAt(id)])>> \in enriched'
      BY <1>4, <2>2, <3>1 DEF EnrichMention
    <3>3. QED
      BY <3>2
  <2>4. At(w, "enrich", id) /\ UNCHANGED <<enrichResults, done, lapses>>
    BY <1>4 DEF EnrichMention
  <2>5. QED
    BY <2>1, <2>2, <2>3, <2>4, EnrichQuietInv
<1>5. CASE AckFinally(w, id, reply) /\ UNCHANGED <<enriched, enrichResults, done, lapses>>
  <2>1. /\ GoesOn(w, id) /\ place'[w] \in {"idle", "handle"} /\ id \in Nat
        /\ place[w] # "remember"
    BY <1>5, AcknowledgeMoves DEF EnrichmentIInv, AckFinally, At
  <2>2. LoopIInv(EnrichableMentions \cup {0})' /\ Moves(w) /\ stream' = stream
    BY <2>1, GoesOnInv DEF EnrichmentIInv, GoesOn
  <2>3. QED
    BY <1>5, <2>1, <2>2, EnrichEndsInv
<1>6. QED
  BY <1>1, <1>2, <1>3, <1>4, <1>5

(* Every step of the enrichment service keeps its invariant.               *)
LEMMA EnrichmentStepInv == EnrichmentIInv /\ [EnrichmentNext]_enrichmentVars => EnrichmentIInv'
<1> SUFFICES ASSUME EnrichmentIInv, [EnrichmentNext]_enrichmentVars PROVE EnrichmentIInv'
  OBVIOUS
<1>1. CASE UNCHANGED enrichmentVars
  <2>1. LoopIInv(EnrichableMentions \cup {0})'
    BY <1>1, LoopStays DEF EnrichmentIInv, enrichmentVars
  <2>2. \A where, n : Working(where, n)' = Working(where, n)
    BY <1>1 DEF Working, At, EntryAt, enrichmentVars, loopVars
  <2>3. \A n : Announcing(n)' = Announcing(n) /\ (Scored(n)' <=> Scored(n))
    BY <1>1, <2>2 DEF Announcing, Scored, enrichmentVars
  <2>4. UNCHANGED <<enrichResults, done, lapses>>
    BY <1>1 DEF enrichmentVars
  <2>5. \A n \in EnrichableMentions : Budget(n)'
    BY <2>2, <2>3, <2>4, BudgetStays
  <2>6. \A w \in Workers : \A where \in AtScores : \A id \in todo'[w] :
          At(w, where, id)' => EntryAt(id)' \in EnrichableMentions
    BY <1>1 DEF EnrichmentIInv, At, EntryAt, enrichmentVars, loopVars
  <2>7. QED
    BY <2>1, <2>2, <2>3, <2>4, <2>5, <2>6 DEF EnrichmentIInv
<1>2. ASSUME NEW w \in Workers, EnrichmentStep(w) PROVE EnrichmentIInv'
  <2>1. PICK reply \in Replies :
          \/ Consume(w, reply) /\ UNCHANGED <<enriched, enrichResults, done, lapses>>
          \/ \E id \in todo[w] :
                \/ LookUpDone(w, id, reply)
                \/ AckDuplicate(w, id, reply)
                \/ EnrichMention(w, id, reply)
                \/ PublishScores(w, id, reply)
                \/ Remember(w, id, reply)
                \/ AckFinally(w, id, reply) /\ UNCHANGED <<enriched, enrichResults, done, lapses>>
    BY <1>2 DEF EnrichmentStep
  <2>2. CASE Consume(w, reply) /\ UNCHANGED <<enriched, enrichResults, done, lapses>>
    BY <2>2, EnrichRestInv
  <2>3. ASSUME NEW id \in todo[w],
               \/ LookUpDone(w, id, reply)
               \/ AckDuplicate(w, id, reply)
               \/ EnrichMention(w, id, reply)
               \/ AckFinally(w, id, reply) /\ UNCHANGED <<enriched, enrichResults, done, lapses>>
        PROVE  EnrichmentIInv'
    BY <2>3, EnrichHandlerInv
  <2>4. ASSUME NEW id \in todo[w], PublishScores(w, id, reply) PROVE EnrichmentIInv'
    BY <2>4, EnrichPublishInv
  <2>5. ASSUME NEW id \in todo[w], Remember(w, id, reply) PROVE EnrichmentIInv'
    BY <2>5, EnrichRememberInv
  <2>6. QED
    BY <2>1, <2>2, <2>3, <2>4, <2>5
<1>3. ASSUME NEW w \in Workers, NEW id \in todo[w], RefuseMention(w, id) PROVE EnrichmentIInv'
  BY <1>3, EnrichHandlerInv, LoopAssumption
<1>4. ASSUME NEW w \in Workers, CrashEnrichment(w) PROVE EnrichmentIInv'
  BY <1>4, EnrichCrashInv
<1>5. CASE \/ \E m \in EnrichableMentions \cup {0} : RequestEnrichment(m)
           \/ \E m \in EnrichableMentions : ExpireDone(m)
  BY <1>5, EnrichRestInv
<1>6. QED
  BY <1>1, <1>2, <1>3, <1>4, <1>5 DEF EnrichmentNext

(* No mention is scored at first.                                          *)
LEMMA EnrichmentInitInv == EnrichmentInit => EnrichmentIInv
<1> SUFFICES ASSUME EnrichmentInit PROVE EnrichmentIInv
  OBVIOUS
<1>1. LoopIInv(EnrichableMentions \cup {0}) /\ \A w \in Workers : todo[w] = {}
  BY LoopInitInv DEF EnrichmentInit, LoopInit
<1>2. \A where, m : Working(where, m) = {}
  BY <1>1 DEF Working
<1>3. ASSUME NEW m \in EnrichableMentions PROVE Budget(m)
  <2>1. enrichResults[m] = 0 /\ lapses[m] = 0 /\ m \notin done
    BY DEF EnrichmentInit
  <2>2. Bound(0) \in Nat /\ Cardinality(Working("remember", m)) \in Nat
    BY BoundGrows, BudgetCounts
  <2>3. 0 <= Bound(0) + Cardinality(Working("remember", m))
    BY <2>2
  <2>4. QED
    BY <2>1, <2>3 DEF Budget, WithinBudget
<1>4. QED
  BY <1>1, <1>2, <1>3 DEF EnrichmentIInv, EnrichmentInit

(* The budgets are what the property promises, and tighter.                *)
LEMMA BudgetsExplainRepeats == EnrichmentIInv => RepeatIsExplained
<1> SUFFICES ASSUME EnrichmentIInv, NEW m \in EnrichableMentions
             PROVE  /\ enrichResults[m] <= Cardinality(Workers) * (1 + lapses[m])
                    /\ m \in done => enrichResults[m] > 0 /\ \E e \in enriched : e[1] = m
  BY DEF RepeatIsExplained
<1>1. Budget(m) /\ enrichResults[m] \in Nat /\ lapses[m] \in Nat
  BY DEF EnrichmentIInv
<1>2. /\ Bound(lapses[m]) \in Nat /\ Bound(lapses[m] + 1) \in Nat /\ Cardinality(Workers) \in Nat
      /\ Bound(lapses[m] + 1) = Bound(lapses[m]) + Cardinality(Workers)
  BY <1>1, BoundGrows
<1>3. Cardinality(Working("remember", m)) <= Cardinality(Workers)
  BY BudgetCounts, FS_Subset, LoopAssumption
<1>4. enrichResults[m] <= Bound(lapses[m] + 1)
  <2>1. CASE m \in done
    <3>1. enrichResults[m] + Cardinality(Announcing(m)) <= Bound(lapses[m] + 1)
      BY <1>1, <2>1 DEF Budget, WithinBudget
    <3>2. QED
      BY <1>1, <1>2, <3>1, BudgetCounts
  <2>2. CASE m \notin done
    <3>1. enrichResults[m] <= Bound(lapses[m]) + Cardinality(Working("remember", m))
      BY <1>1, <2>2 DEF Budget, WithinBudget
    <3>2. QED
      BY <1>1, <1>2, <1>3, <3>1, BudgetCounts
  <2>3. QED
    BY <2>1, <2>2
<1>5. lapses[m] + 1 = 1 + lapses[m]
  BY <1>1
<1>6. QED
  BY <1>4, <1>5 DEF EnrichmentIInv, Scored, Bound

(* Every result of a mention beyond the first per replica has a lapse of   *)
(* its key to explain it, for any number of replicas and any interleaving  *)
(* of look-up, commit, publication and SETEX; and a key is only there for  *)
(* a mention that was scored and announced.                                *)
THEOREM EnrichmentRepeatsAreExplained == EnrichmentSpec => []RepeatIsExplained
<1>1. QED
  BY EnrichmentInitInv, BudgetsExplainRepeats, EnrichmentStepInv, PTL DEF EnrichmentSpec

-----------------------------------------------------------------------------
(* The export service.                                                     *)

JobFields == {"id", "ask", "status", "rows"}

(* The jobs are numbered, so the next one has a number of its own.         *)
JobsFit ==
    /\ IsFiniteSet(jobs)
    /\ \A job \in jobs : /\ HasFields(job, JobFields)
                         /\ job.id \in 1 .. Cardinality(jobs)
                         /\ job.ask \in ExportRequests
    /\ \A a, b \in jobs : a.id = b.id => a = b

(* A job is asked for once.                                                *)
AskedOnce ==
    /\ creating \subseteq 1 .. Cardinality(jobs)
    /\ \A i \in Ids(stream) : EntryAt(i) \in (1 .. Cardinality(jobs)) \ creating
    /\ \A i, j \in Ids(stream) : EntryAt(i) = EntryAt(j) => i = j

Settled(job) == job.status \notin {"PENDING", "PROCESSING"}

Shows(id, n) == \E file \in files : file.job = id /\ (file.shown = n \/ file.shown = PdfRows)

(* What a consumer has brought about when it comes to a place.             *)
JobAtHand(w) ==
    \A id \in todo[w] :
        /\ At(w, "finally", id) =>
              \A job \in jobs : job.id = EntryAt(id) => Settled(job) \/ job.id \in hit
        /\ At(w, "complete", id) => \A n \in exported[w] : Shows(EntryAt(id), n)

ExportsIInv ==
    /\ LoopIInv(Nat)
    /\ JobsFit
    /\ AskedOnce
    /\ IsOn(exported, Workers)
    /\ \A w \in Workers : JobAtHand(w)
    /\ StuckIsExplained

(* Rewriting the rows of a table one by one leaves as many.                *)
LEMMA RowsRewritten ==
    ASSUME NEW S, IsFiniteSet(S), NEW g, IsOn(g, S), \A x, y \in S : g[x] = g[y] => x = y,
           NEW T, T = {g[x] : x \in S}
    PROVE  IsFiniteSet(T) /\ Cardinality(T) = Cardinality(S)
<1>1. g \in Bijection(S, T)
  BY DEF IsOn, Bijection, Injection, Surjection, IsInjective
<1>2. ExistsBijection(S, T)
  BY <1>1 DEF ExistsBijection
<1>3. QED
  BY <1>2, FS_Bijection

(* A commit that writes columns of the job with the id e.                  *)
LEMMA JobsRewritten ==
    ASSUME JobsFit, NEW e, NEW g, IsOn(g, jobs), jobs' = {g[job] : job \in jobs},
           \A job \in jobs : /\ HasFields(g[job], JobFields)
                             /\ g[job].id = job.id /\ g[job].ask = job.ask
                             /\ job.id # e => g[job] = job
    PROVE  /\ JobsFit' /\ Cardinality(jobs') = Cardinality(jobs)
           /\ \A job \in jobs' : job \in jobs \/ job.id = e
<1>1. \A x, y \in jobs : g[x] = g[y] => x = y
  BY DEF JobsFit
<1>2. IsFiniteSet(jobs') /\ Cardinality(jobs') = Cardinality(jobs)
  BY <1>1, RowsRewritten DEF JobsFit
<1>3. \A new \in jobs' : \E job \in jobs : new = g[job]
  OBVIOUS
<1>4. ASSUME NEW new \in jobs'
      PROVE  /\ HasFields(new, JobFields) /\ new.id \in 1 .. Cardinality(jobs)
             /\ new.ask \in ExportRequests /\ (new \in jobs \/ new.id = e)
  <2>1. PICK job \in jobs : new = g[job]
    BY <1>3
  <2>2. /\ HasFields(new, JobFields) /\ new.id = job.id /\ new.ask = job.ask
        /\ job.id # e => new = job
    BY <2>1
  <2>3. QED
    BY <2>2 DEF JobsFit
<1>5. ASSUME NEW a \in jobs', NEW b \in jobs', a.id = b.id PROVE a = b
  <2>1. PICK x \in jobs : a = g[x]
    BY <1>3
  <2>2. PICK y \in jobs : b = g[y]
    BY <1>3
  <2>3. x.id = y.id
    BY <1>5, <2>1, <2>2
  <2>4. QED
    BY <2>1, <2>2, <2>3 DEF JobsFit
<1>6. QED
  BY <1>2, <1>4, <1>5 DEF JobsFit

(* What one consumer does is not undone, and no other has its jobs.        *)
LEMMA ExportsMoveInv ==
    ASSUME ExportsIInv, NEW w \in Workers, LoopIInv(Nat)', Moves(w), stream' = stream,
           JobsFit', Cardinality(jobs') = Cardinality(jobs),
           NEW e, e \in JobsOf(w) \/ jobs' = jobs,
           \A job \in jobs' : job \in jobs \/ job.id = e,
           \A job \in jobs' : job.id = e /\ job \notin jobs /\ job.status = "COMPLETED"
                                 => Shows(job.id, job.rows)',
           creating' \subseteq creating, \A id \in creating : id \in creating' \/ id \in hit',
           files \subseteq files', hit \subseteq hit',
           IsOn(exported', Workers), \A v \in Workers : v # w => exported'[v] = exported[v],
           \A i \in group'.pending \cup group'.acked :
              i \in group.pending \cup group.acked \/ EntryAt(i) \in JobsOf(w)' \cup hit',
           \A id \in JobsOf(w) \ JobsOf(w)' :
              id \in hit' \/ \A job \in jobs' : job.id = id => Settled(job),
           JobAtHand(w)'
    PROVE  ExportsIInv'
<1>1. \A i : EntryAt(i)' = EntryAt(i)
  BY DEF EntryAt
<1>2. AskedOnce'
  BY <1>1 DEF ExportsIInv, AskedOnce
<1>3. \A id, n : Shows(id, n) => Shows(id, n)'
  BY DEF Shows
<1>4. ASSUME NEW v \in Workers, v # w PROVE JobAtHand(v)'
  <2>1. todo'[v] = todo[v] /\ place'[v] = place[v] /\ exported'[v] = exported[v]
    BY <1>4 DEF Moves
  <2>2. ASSUME NEW id \in todo[v], At(v, "finally", id), NEW job \in jobs', job.id = EntryAt(id)
        PROVE  Settled(job) \/ job.id \in hit'
    <3>1. CASE job \in jobs
      BY <2>2, <3>1 DEF ExportsIInv, JobAtHand
    <3>2. CASE job \notin jobs
      <4>1. job.id = e /\ e \in JobsOf(w)
        BY <3>2
      <4>2. PICK i \in todo[w] : EntryAt(i) = EntryAt(id)
        BY <2>2, <4>1 DEF JobsOf
      <4>3. i \in Ids(stream) /\ id \in Ids(stream)
        BY DEF ExportsIInv, LoopIInv, StreamOf, Group, Ids
      <4>4. i = id
        BY <4>2, <4>3 DEF ExportsIInv, AskedOnce
      <4>5. QED
        BY <1>4, <4>4 DEF ExportsIInv, LoopIInv
    <3>3. QED
      BY <3>1, <3>2
  <2>3. ASSUME NEW id \in todo[v], At(v, "complete", id), NEW n \in exported[v]
        PROVE  Shows(EntryAt(id), n)'
    <3>1. Shows(EntryAt(id), n)
      BY <2>3 DEF ExportsIInv, JobAtHand
    <3>2. QED
      BY <3>1 DEF Shows, EntryAt
  <2>4. QED
    BY <1>1, <2>1, <2>2, <2>3 DEF JobAtHand, At
<1>5. ASSUME NEW id, NEW old \in jobs, old.id = id, Awaited(old)
      PROVE  \/ id \in creating' \/ id \in hit'
             \/ \E i \in Ids(stream) \ (group'.pending \cup group'.acked) : EntryAt(i) = id
             \/ \E v \in Workers : id \in JobsOf(v)'
             \/ \A job \in jobs' : job.id = id => Settled(job)
  <2>1. CASE id \in creating
    BY <2>1
  <2>2. ASSUME NEW i \in Ids(stream) \ (group.pending \cup group.acked), EntryAt(i) = id
        PROVE  \/ id \in hit' \/ id \in JobsOf(w)'
               \/ i \in Ids(stream) \ (group'.pending \cup group'.acked)
    BY <2>2
  <2>3. ASSUME NEW v \in Workers, id \in JobsOf(v), v # w PROVE id \in JobsOf(v)'
    BY <1>1, <2>3 DEF JobsOf, Moves
  <2>4. QED
    BY <1>5, <2>1, <2>2, <2>3 DEF Awaited
<1>6. ASSUME NEW job \in jobs', job.status \in {"PENDING", "PROCESSING"}
      PROVE  Awaited(job)' \/ job.id \in hit'
  <2>1. CASE job \in jobs
    <3>1. Awaited(job) \/ job.id \in hit
      BY <1>6, <2>1 DEF ExportsIInv, StuckIsExplained
    <3>2. CASE Awaited(job)
      <4>1. \/ job.id \in creating' \/ job.id \in hit'
            \/ \E i \in Ids(stream) \ (group'.pending \cup group'.acked) : EntryAt(i) = job.id
            \/ \E v \in Workers : job.id \in JobsOf(v)'
        BY <1>5, <1>6, <2>1, <3>2 DEF Settled
      <4>2. QED
        BY <1>1, <4>1 DEF Awaited, Ids
    <3>3. QED
      BY <3>1, <3>2
  <2>2. CASE job \notin jobs
    <3>1. job.id = e /\ e \in JobsOf(w)
      BY <2>2
    <3>2. job.id \in JobsOf(w)' \/ job.id \in hit'
      BY <1>6, <3>1 DEF Settled
    <3>3. QED
      BY <3>2 DEF Awaited
  <2>3. QED
    BY <2>1, <2>2
<1>7. ASSUME NEW job \in jobs', job.status = "COMPLETED" PROVE Shows(job.id, job.rows)'
  <2>1. CASE job \in jobs
    BY <1>3, <1>7, <2>1 DEF ExportsIInv, StuckIsExplained, Shows
  <2>2. QED
    BY <1>7, <2>1
<1>8. StuckIsExplained'
  BY <1>6, <1>7 DEF StuckIsExplained, Shows
<1>9. QED
  BY <1>2, <1>4, <1>8 DEF ExportsIInv

(* A step of the handler of the job e.                                     *)
LEMMA ExportStepInv ==
    ASSUME ExportsIInv, NEW w \in Workers, NEW id \in todo[w], NEW from, NEW to, NEW e, e = EntryAt(id),
           At(w, from, id), Step(w, to), to # "idle",
           JobsFit', Cardinality(jobs') = Cardinality(jobs),
           \A job \in jobs' : job \in jobs \/ job.id = e,
           \A job \in jobs' : job.id = e /\ job \notin jobs /\ job.status = "COMPLETED"
                                 => Shows(job.id, job.rows)',
           creating' = creating, files \subseteq files', hit \subseteq hit',
           IsOn(exported', Workers), \A v \in Workers : v # w => exported'[v] = exported[v],
           to = "finally" => \A job \in jobs' : job.id = e => Settled(job) \/ job.id \in hit',
           to = "complete" => \A n \in exported'[w] : Shows(e, n)'
    PROVE  ExportsIInv'
<1>1. /\ LoopIInv(Nat)' /\ Moves(w) /\ stream' = stream /\ todo' = todo /\ group' = group
      /\ place'[w] = to
  BY StepMoves, GoesOnInv DEF ExportsIInv, GoesOn
<1>2. JobsOf(w)' = JobsOf(w) /\ e \in JobsOf(w)
  BY <1>1 DEF JobsOf, EntryAt
<1>3. \A where, j : At(w, where, j)' => where = to /\ j = id
  <2>1. \A where, j : At(w, where, j)' => where = to /\ At(w, from, j)
    BY <1>1 DEF At
  <2>2. QED
    BY <2>1, OneAtHand DEF ExportsIInv
<1>4. JobAtHand(w)'
  <2>1. EntryAt(id)' = e
    BY <1>1 DEF EntryAt
  <2>2. ASSUME NEW j \in todo'[w], At(w, "finally", j)', NEW job \in jobs', job.id = EntryAt(j)'
        PROVE  Settled(job) \/ job.id \in hit'
    BY <1>3, <2>1, <2>2
  <2>3. ASSUME NEW j \in todo'[w], At(w, "complete", j)', NEW n \in exported'[w]
        PROVE  Shows(EntryAt(j), n)'
    <3>1. j = id /\ to = "complete" /\ Shows(e, n)'
      BY <1>3, <2>3
    <3>2. QED
      BY <2>1, <3>1 DEF Shows
  <2>4. QED
    BY <2>2, <2>3 DEF JobAtHand, Settled
<1>5. QED
  BY <1>1, <1>2, <1>4, ExportsMoveInv

(* The commits of the handler.                                             *)
LEMMA ExportMarksInv ==
    ASSUME ExportsIInv, NEW w \in Workers, NEW id \in todo[w], NEW reply \in Replies,
           StartJob(w, id, reply) \/ CompleteJob(w, id, reply) \/ FailJob(w, id, reply)
    PROVE  ExportsIInv'
<1>1. PICK e : e = EntryAt(id)
  OBVIOUS
<1>2. JobsFit /\ \A job \in jobs : HasFields(job, JobFields)
  BY DEF ExportsIInv, JobsFit
<1>3. \A id1, n : Shows(id1, n) /\ files' = files => Shows(id1, n)'
  BY DEF Shows
<1>4. UNCHANGED <<creating, files>> /\ hit \subseteq hit'
      /\ IsOn(exported', Workers) /\ \A v \in Workers : v # w => exported'[v] = exported[v]
  BY DEF StartJob, CompleteJob, FailJob, Cut, ExportsIInv, IsOn
<1>5. CASE jobs' = jobs
  <2>1. JobsFit' /\ Cardinality(jobs') = Cardinality(jobs)
    BY <1>2, <1>5 DEF JobsFit
  <2>2. CASE StartJob(w, id, reply)
    <3>1. PICK to \in {"finally", "generate"} :
             Step(w, to) /\ (to = "finally" => hit' = hit \cup {e})
      BY <1>1, <2>2 DEF StartJob, Cut
    <3>2. At(w, "handle", id)
      BY <2>2 DEF StartJob
    <3>3. QED
      BY <1>1, <1>4, <1>5, <2>1, <3>1, <3>2, ExportStepInv
  <2>3. CASE CompleteJob(w, id, reply) /\ Raised(reply)
    <3>1. Step(w, "fail") /\ At(w, "complete", id)
      BY <2>3 DEF CompleteJob
    <3>2. QED
      BY <1>1, <1>4, <1>5, <2>1, <3>1, ExportStepInv
  <2>4. CASE CompleteJob(w, id, reply) /\ ~Raised(reply)
    <3>1. Step(w, "finally") /\ At(w, "complete", id) /\ Applied(reply)
      BY <2>4 DEF CompleteJob, Raised, Applied
    <3>2. PICK n \in exported[w] : jobs' = Marked(e, "COMPLETED", n)
      BY <1>1, <2>4, <3>1 DEF CompleteJob, Mark
    <3>3. ASSUME NEW job \in jobs', job.id = e PROVE Settled(job)
      <4>1. PICK old \in jobs : job = IF old.id = e THEN [old EXCEPT !.status = "COMPLETED", !.rows = n]
                                      ELSE old
        BY <3>2 DEF Marked
      <4>2. HasFields(old, JobFields)
        BY <1>2
      <4>3. old.id = e => job.status = "COMPLETED"
        BY <4>1, <4>2 DEF HasFields, JobFields
      <4>4. QED
        BY <3>3, <4>1, <4>3 DEF Settled
    <3>4. QED
      BY <1>1, <1>4, <1>5, <2>1, <3>1, <3>3, ExportStepInv
  <2>5. CASE FailJob(w, id, reply)
    <3>1. Step(w, "finally") /\ At(w, "fail", id)
      BY <2>5 DEF FailJob
    <3>2. ASSUME NEW job \in jobs', job.id = e PROVE Settled(job) \/ job.id \in hit'
      <4>1. CASE Raised(reply)
        BY <1>1, <2>5, <3>2, <4>1 DEF FailJob, Cut
      <4>2. CASE ~Raised(reply)
        <5>1. jobs' = Failed(e)
          BY <1>1, <2>5, <4>2 DEF FailJob, Raised, Applied
        <5>2. PICK old \in jobs : job = IF old.id = e THEN [old EXCEPT !.status = "FAILED"] ELSE old
          BY <5>1 DEF Failed
        <5>3. HasFields(old, JobFields)
          BY <1>2
        <5>4. old.id = e => job.status = "FAILED"
          BY <5>2, <5>3 DEF HasFields, JobFields
        <5>5. QED
          BY <3>2, <5>2, <5>4 DEF Settled
      <4>3. QED
        BY <4>1, <4>2
    <3>3. QED
      BY <1>1, <1>4, <1>5, <2>1, <3>1, <3>2, ExportStepInv
  <2>6. QED
    BY <2>2, <2>3, <2>4, <2>5
<1>6. ASSUME NEW status, NEW n, jobs' = Marked(e, status, n)
      PROVE  /\ JobsFit' /\ Cardinality(jobs') = Cardinality(jobs)
             /\ \A job \in jobs' : job \in jobs \/ job.id = e
             /\ \A job \in jobs' : job.id = e => job.status = status /\ job.rows = n
  <2>0. PICK g : g = [job \in jobs |-> IF job.id = e THEN [job EXCEPT !.status = status, !.rows = n]
                                       ELSE job]
    OBVIOUS
  <2>1. IsOn(g, jobs) /\ jobs' = {g[job] : job \in jobs}
    BY <1>6, <2>0 DEF Marked, IsOn
  <2>2. ASSUME NEW job \in jobs
        PROVE  /\ HasFields(g[job], JobFields)
               /\ g[job].id = job.id /\ g[job].ask = job.ask /\ (job.id # e => g[job] = job)
               /\ (job.id = e => g[job].status = status /\ g[job].rows = n)
    BY <1>2, <2>0 DEF HasFields, JobFields
  <2>3. /\ JobsFit' /\ Cardinality(jobs') = Cardinality(jobs)
        /\ \A job \in jobs' : job \in jobs \/ job.id = e
    <3>1. \A job \in jobs : /\ HasFields(g[job], JobFields)
                            /\ g[job].id = job.id /\ g[job].ask = job.ask
                            /\ job.id # e => g[job] = job
      BY <2>2
    <3>2. JobsFit /\ IsOn(g, jobs) /\ jobs' = {g[job] : job \in jobs}
      BY <1>2, <2>1
    <3>3. JobsFit' /\ Cardinality(jobs') = Cardinality(jobs)
      BY <3>1, <3>2, JobsRewritten
    <3>4. \A job \in jobs' : job \in jobs \/ job.id = e
      BY <3>1, <3>2
    <3>5. QED
      BY <3>3, <3>4
  <2>4. ASSUME NEW new \in jobs', new.id = e PROVE new.status = status /\ new.rows = n
    <3>1. PICK job \in jobs : new = g[job]
      BY <2>1
    <3>2. QED
      BY <2>2, <2>4, <3>1
  <2>5. QED
    BY <2>3, <2>4
<1>7. CASE StartJob(w, id, reply) /\ jobs' = Marked(e, "PROCESSING", 0)
  <2>1. /\ JobsFit' /\ Cardinality(jobs') = Cardinality(jobs)
        /\ \A job \in jobs' : job \in jobs \/ job.id = e
        /\ \A job \in jobs' : job.id = e => job.status # "COMPLETED"
    BY <1>6, <1>7
  <2>2. PICK to \in {"finally", "generate"} :
           Step(w, to) /\ (to = "finally" => hit' = hit \cup {e})
    BY <1>1, <1>7 DEF StartJob, Cut
  <2>3. At(w, "handle", id)
    BY <1>7 DEF StartJob
  <2>4. QED
    BY <1>1, <1>4, <2>1, <2>2, <2>3, ExportStepInv
<1>8. ASSUME CompleteJob(w, id, reply), NEW n \in exported[w], jobs' = Marked(e, "COMPLETED", n)
      PROVE  ExportsIInv'
  <2>1. /\ JobsFit' /\ Cardinality(jobs') = Cardinality(jobs)
        /\ \A job \in jobs' : job \in jobs \/ job.id = e
        /\ \A job \in jobs' : job.id = e => job.status = "COMPLETED" /\ job.rows = n
    BY <1>6, <1>8
  <2>2. At(w, "complete", id) /\ \E to \in {"finally", "fail"} : Step(w, to)
    BY <1>8 DEF CompleteJob
  <2>3. Shows(e, n)
    BY <1>1, <1>8, <2>2 DEF ExportsIInv, JobAtHand
  <2>4. \A job \in jobs' : job.id = e => Settled(job) /\ Shows(job.id, job.rows)'
    BY <1>3, <1>4, <2>1, <2>3 DEF Settled
  <2>5. QED
    BY <1>1, <1>4, <2>1, <2>2, <2>4, ExportStepInv
<1>9. CASE FailJob(w, id, reply) /\ jobs' = Failed(e)
  <2>0. PICK g : g = [job \in jobs |-> IF job.id = e THEN [job EXCEPT !.status = "FAILED"] ELSE job]
    OBVIOUS
  <2>1. IsOn(g, jobs) /\ jobs' = {g[job] : job \in jobs}
    BY <1>9, <2>0 DEF Failed, IsOn
  <2>2. ASSUME NEW job \in jobs
        PROVE  /\ HasFields(g[job], JobFields)
               /\ g[job].id = job.id /\ g[job].ask = job.ask /\ (job.id # e => g[job] = job)
               /\ (job.id = e => g[job].status = "FAILED")
    BY <1>2, <2>0 DEF HasFields, JobFields
  <2>3. /\ JobsFit' /\ Cardinality(jobs') = Cardinality(jobs)
        /\ \A job \in jobs' : job \in jobs \/ job.id = e
    <3>1. \A job \in jobs : /\ HasFields(g[job], JobFields)
                            /\ g[job].id = job.id /\ g[job].ask = job.ask
                            /\ job.id # e => g[job] = job
      BY <2>2
    <3>2. JobsFit /\ IsOn(g, jobs) /\ jobs' = {g[job] : job \in jobs}
      BY <1>2, <2>1
    <3>3. JobsFit' /\ Cardinality(jobs') = Cardinality(jobs)
      BY <3>1, <3>2, JobsRewritten
    <3>4. \A job \in jobs' : job \in jobs \/ job.id = e
      BY <3>1, <3>2
    <3>5. QED
      BY <3>3, <3>4
  <2>4. \A job \in jobs' : job.id = e => job.status = "FAILED"
    <3>1. \A new \in jobs' : \E job \in jobs : new = g[job]
      BY <2>1
    <3>2. QED
      BY <2>2, <3>1
  <2>5. \A job \in jobs' : job.id = e => Settled(job) /\ job.status # "COMPLETED"
    BY <2>4 DEF Settled
  <2>6. At(w, "fail", id) /\ Step(w, "finally")
    BY <1>9 DEF FailJob
  <2>7. QED
    BY <1>1, <1>4, <2>3, <2>5, <2>6, ExportStepInv
<1>10. \/ jobs' = jobs
       \/ StartJob(w, id, reply) /\ jobs' = Marked(e, "PROCESSING", 0)
       \/ CompleteJob(w, id, reply) /\ \E n \in exported[w] : jobs' = Marked(e, "COMPLETED", n)
       \/ FailJob(w, id, reply) /\ jobs' = Failed(e)
  BY <1>1 DEF StartJob, CompleteJob, FailJob, Mark
<1>11. QED
  BY <1>5, <1>7, <1>8, <1>9, <1>10

(* The file.                                                               *)
LEMMA ExportGeneratesInv ==
    ASSUME ExportsIInv, NEW w \in Workers, NEW id \in todo[w], NEW reply \in Replies,
           Generate(w, id, reply)
    PROVE  ExportsIInv'
<1>1. PICK e : e = EntryAt(id)
  OBVIOUS
<1>2. /\ At(w, "generate", id) /\ UNCHANGED <<jobs, creating, hit>>
      /\ JobsFit' /\ Cardinality(jobs') = Cardinality(jobs)
  BY DEF Generate, ExportsIInv, JobsFit
<1>3. CASE Raised(reply)
  <2>1. Step(w, "fail") /\ UNCHANGED <<exported, files>>
    BY <1>3 DEF Generate
  <2>2. QED
    BY <1>1, <1>2, <2>1, ExportStepInv DEF ExportsIInv
<1>4. CASE ~Raised(reply)
  <2>1. PICK job \in jobs, drawn \in SUBSET Corpus :
           LET n == SelectedRows(drawn, job.ask.filters)
           IN  /\ job.id = EntryAt(id)
               /\ \E file \in ExportFiles(job.ask.format, job.id, n) : files' = files \cup {file}
               /\ exported' = [exported EXCEPT ![w] = {n}]
               /\ Step(w, "complete")
    BY <1>4 DEF Generate
  <2>2. PICK n : n = SelectedRows(drawn, job.ask.filters)
    OBVIOUS
  <2>3. PICK file \in ExportFiles(job.ask.format, e, n) : files' = files \cup {file}
    BY <1>1, <2>1, <2>2
  <2>4. file.job = e /\ (file.shown = n \/ file.shown = PdfRows)
    <3>1. job.ask.format \in Formats
      BY ExportAssumption DEF ExportsIInv, JobsFit
    <3>2. QED
      BY <2>3, <3>1 DEF Formats, ExportFiles, CsvFile, ExcelFile, JsonFile, PdfFile
  <2>5. Shows(e, n)'
    BY <2>3, <2>4 DEF Shows
  <2>6. exported' = [exported EXCEPT ![w] = {n}] /\ Step(w, "complete")
    BY <2>1, <2>2
  <2>7. /\ IsOn(exported', Workers) /\ \A v \in Workers : v # w => exported'[v] = exported[v]
        /\ \A m \in exported'[w] : m = n
    BY <2>6 DEF ExportsIInv, IsOn
  <2>8. files \subseteq files' /\ \A m \in exported'[w] : Shows(e, m)'
    BY <2>3, <2>5, <2>7
  <2>9. QED
    BY <1>1, <1>2, <2>6, <2>7, <2>8, ExportStepInv
<1>5. QED
  BY <1>3, <1>4

(* A consumer that leaves its handler or takes a batch: what it has no     *)
(* more is settled or known to be hit.                                     *)
LEMMA ExportLeavesInv ==
    ASSUME ExportsIInv, NEW w \in Workers, LoopIInv(Nat)', Moves(w), stream' = stream,
           place'[w] \in {"idle", "handle"}, UNCHANGED <<jobs, files>>, hit \subseteq hit',
           creating' \subseteq creating, \A id \in creating : id \in creating' \/ id \in hit',
           IsOn(exported', Workers), \A v \in Workers : v # w => exported'[v] = exported[v],
           \A i \in group'.pending \cup group'.acked :
              i \in group.pending \cup group.acked \/ EntryAt(i) \in JobsOf(w)' \cup hit',
           \A id \in JobsOf(w) \ JobsOf(w)' :
              id \in hit' \/ \A job \in jobs' : job.id = id => Settled(job)
    PROVE  ExportsIInv'
<1>1. JobAtHand(w)'
  BY DEF JobAtHand, At
<1>2. JobsFit' /\ Cardinality(jobs') = Cardinality(jobs)
  BY DEF ExportsIInv, JobsFit
<1>3. QED
  BY <1>1, <1>2, ExportsMoveInv

(* The batch, its end, and a crash.                                        *)
LEMMA ExportLoopInv ==
    ASSUME ExportsIInv, NEW w \in Workers,
           \/ \E reply \in Replies : ConsumeExports(w, reply)
           \/ \E reply \in Replies : \E id \in todo[w] : AckExport(w, id, reply)
           \/ CrashExports(w)
    PROVE  ExportsIInv'
<1>1. ASSUME NEW reply \in Replies, ConsumeExports(w, reply) PROVE ExportsIInv'
  <2>1. /\ LoopIInv(Nat)' /\ Moves(w) /\ stream' = stream /\ group'.acked = group.acked
        /\ group'.pending = group.pending \cup Fresh(stream, group, BatchSize)
        /\ todo'[w] = (IF Raised(reply) THEN {} ELSE Fresh(stream, group, BatchSize))
        /\ place'[w] \in {"idle", "handle"}
    BY <1>1, ConsumeMoves DEF ConsumeExports, ExportsIInv
  <2>2. /\ UNCHANGED <<jobs, creating, exported, files>>
        /\ hit' = IF Raised(reply) THEN hit \cup {EntryAt(id) : id \in Fresh(stream, group, BatchSize)}
                  ELSE hit
    BY <1>1 DEF ConsumeExports, Cut
  <2>3. todo[w] = {} /\ JobsOf(w) = {}
    BY <1>1 DEF ConsumeExports, Consume, ExportsIInv, LoopIInv, JobsOf
  <2>4. ASSUME NEW i \in Fresh(stream, group, BatchSize) PROVE EntryAt(i) \in JobsOf(w)' \cup hit'
    <3>1. CASE Raised(reply)
      BY <2>2, <3>1
    <3>2. CASE ~Raised(reply)
      BY <2>1, <3>2 DEF JobsOf, EntryAt
    <3>3. QED
      BY <3>1, <3>2
  <2>5. \A i \in group'.pending \cup group'.acked :
          i \in group.pending \cup group.acked \/ EntryAt(i) \in JobsOf(w)' \cup hit'
    BY <2>1, <2>4
  <2>6. hit \subseteq hit'
    BY <2>2
  <2>7. QED
    BY <2>1, <2>2, <2>3, <2>5, <2>6, ExportLeavesInv DEF ExportsIInv, IsOn
<1>2. ASSUME NEW reply \in Replies, NEW id \in todo[w], AckExport(w, id, reply) PROVE ExportsIInv'
  <2>1. /\ At(w, "finally", id) /\ GoesOn(w, id) /\ id \in Nat
        /\ todo'[w] = {} \/ todo'[w] = todo[w] \ {id}
        /\ place'[w] \in {"idle", "handle"}
    BY <1>2, AcknowledgeMoves DEF AckExport, AckFinally, ExportsIInv
  <2>2. LoopIInv(Nat)' /\ Moves(w) /\ stream' = stream
    BY <2>1, GoesOnInv DEF ExportsIInv, GoesOn
  <2>3. group'.pending \cup group'.acked = group.pending \cup group.acked
    BY <2>1 DEF GoesOn, XAck
  <2>4. /\ UNCHANGED <<jobs, creating, exported, files>>
        /\ hit' = IF Raised(reply) THEN hit \cup (JobsOf(w) \ {EntryAt(id)}) ELSE hit
    BY <1>2 DEF AckExport, Cut
  <2>5. ASSUME NEW x \in JobsOf(w) \ JobsOf(w)'
        PROVE  x \in hit' \/ \A job \in jobs' : job.id = x => Settled(job)
    <3>1. PICK j \in todo[w] : x = EntryAt(j)
      BY DEF JobsOf
    <3>2. CASE j = id
      BY <2>1, <2>4, <3>1, <3>2 DEF ExportsIInv, JobAtHand
    <3>3. CASE j # id /\ Raised(reply)
      <4>1. x # EntryAt(id)
        <5>1. id \in Ids(stream) /\ j \in Ids(stream)
          BY DEF ExportsIInv, LoopIInv, StreamOf, Group, Ids
        <5>2. QED
          BY <3>1, <3>3, <5>1 DEF ExportsIInv, AskedOnce
      <4>2. QED
        BY <2>4, <3>3, <4>1
    <3>4. CASE j # id /\ ~Raised(reply)
      <4>1. todo'[w] = todo[w] \ {id}
        BY <1>2, <3>4 DEF AckExport, AckFinally, Acknowledge, Finished, ExportsIInv, LoopIInv
      <4>2. QED
        BY <2>2, <3>1, <3>4, <4>1 DEF JobsOf, EntryAt
    <3>5. QED
      BY <3>2, <3>3, <3>4
  <2>6. hit \subseteq hit' /\ IsOn(exported', Workers)
    BY <2>4 DEF ExportsIInv, IsOn
  <2>7. QED
    BY <2>1, <2>2, <2>3, <2>4, <2>5, <2>6, ExportLeavesInv
<1>3. ASSUME CrashExports(w) PROVE ExportsIInv'
  <2>1. GoesOn(w, 1) /\ todo'[w] = {} /\ place'[w] = "idle" /\ UNCHANGED <<stream, group>>
    BY <1>3, CrashMoves DEF CrashExports, ExportsIInv
  <2>2. LoopIInv(Nat)' /\ Moves(w)
    BY <2>1, GoesOnInv DEF ExportsIInv, GoesOn
  <2>3. /\ UNCHANGED <<jobs, files>> /\ creating' = {} /\ hit' = hit \cup (JobsOf(w) \cup creating)
        /\ IsOn(exported', Workers) /\ \A v \in Workers : v # w => exported'[v] = exported[v]
    BY <1>3 DEF CrashExports, Cut, ExportsIInv, IsOn
  <2>4. QED
    BY <2>1, <2>2, <2>3, ExportLeavesInv
<1>4. QED
  BY <1>1, <1>2, <1>3

(* A POST: the row and the request.                                        *)
LEMMA ExportAskedInv ==
    ASSUME ExportsIInv, NEW reply \in Replies,
           \/ \E ask \in ExportRequests : CommitJob(ask, reply)
           \/ \E id \in creating : AskExport(id, reply)
    PROVE  ExportsIInv'
<1>1. ASSUME NEW ask \in ExportRequests, CommitJob(ask, reply) PROVE ExportsIInv'
  <2>1. PICK n \in Nat : n = Cardinality(jobs)
    BY FS_CardinalityType DEF ExportsIInv, JobsFit
  <2>2. /\ UNCHANGED <<loopVars, exported, files>> /\ hit \subseteq hit'
        /\ creating' = (IF Raised(reply) THEN creating ELSE creating \cup {n + 1})
        /\ reply = "lost" => n + 1 \in hit'
    BY <1>1, <2>1 DEF CommitJob, Cut
  <2>3. LoopIInv(Nat)'
    BY <2>2, LoopStays DEF ExportsIInv
  <2>4. \A w \in Workers : JobsOf(w)' = JobsOf(w)
    BY <2>2 DEF JobsOf, EntryAt, loopVars
  <2>5. CASE jobs' = jobs /\ ~Applied(reply)
    <3>1. creating' = creating
      BY <2>2, <2>5 DEF Applied, Raised
    <3>2. JobsFit' /\ AskedOnce'
      BY <2>2, <2>5, <3>1 DEF ExportsIInv, JobsFit, AskedOnce, Ids, EntryAt, loopVars
    <3>3. \A w \in Workers : JobAtHand(w)'
      BY <2>2, <2>5 DEF ExportsIInv, JobAtHand, At, EntryAt, Shows, loopVars
    <3>4. \A job : Awaited(job) => Awaited(job)'
      BY <2>2, <2>4, <3>1 DEF Awaited, Ids, EntryAt, loopVars
    <3>5. StuckIsExplained'
      BY <2>2, <2>5, <3>4 DEF ExportsIInv, StuckIsExplained
    <3>6. QED
      BY <2>2, <2>3, <3>2, <3>3, <3>5 DEF ExportsIInv, IsOn
  <2>6. CASE Applied(reply)
    <3>1. PICK new : new = [id |-> n + 1, ask |-> ask, status |-> "PENDING", rows |-> 0]
      OBVIOUS
    <3>2. /\ HasFields(new, JobFields) /\ new.id = n + 1 /\ new.ask = ask /\ new.status = "PENDING"
      BY <3>1 DEF HasFields, JobFields
    <3>3. jobs' = jobs \cup {new}
      BY <1>1, <2>1, <2>6, <3>1 DEF CommitJob
    <3>4. new \notin jobs /\ \A job \in jobs : job.id \in 1 .. n
      BY <2>1, <3>2 DEF ExportsIInv, JobsFit
    <3>5. IsFiniteSet(jobs') /\ Cardinality(jobs') = n + 1
      BY <2>1, <3>3, <3>4, FS_AddElement DEF ExportsIInv, JobsFit
    <3>6. JobsFit'
      <4>1. \A job \in jobs' : /\ HasFields(job, JobFields) /\ job.id \in 1 .. n + 1
                                /\ job.ask \in ExportRequests
        BY <2>1, <3>2, <3>3, <3>4 DEF ExportsIInv, JobsFit
      <4>2. \A a, b \in jobs' : a.id = b.id => a = b
        BY <2>1, <3>2, <3>3, <3>4 DEF ExportsIInv, JobsFit
      <4>3. QED
        BY <3>5, <4>1, <4>2 DEF JobsFit
    <3>7. AskedOnce'
      <4>1. \A i \in Ids(stream) : EntryAt(i) \in (1 .. n) \ creating
        BY <2>1 DEF ExportsIInv, AskedOnce
      <4>2. creating' \subseteq creating \cup {n + 1} /\ creating \subseteq 1 .. n
        BY <2>1, <2>2 DEF ExportsIInv, AskedOnce
      <4>3. /\ creating' \subseteq 1 .. n + 1
            /\ \A i \in Ids(stream) : EntryAt(i) \in (1 .. n + 1) \ creating'
        BY <4>1, <4>2
      <4>4. Ids(stream)' = Ids(stream) /\ \A i : EntryAt(i)' = EntryAt(i)
        BY <2>2 DEF Ids, EntryAt, loopVars
      <4>5. QED
        BY <3>5, <4>3, <4>4 DEF ExportsIInv, AskedOnce
    <3>8. ASSUME NEW w \in Workers PROVE JobAtHand(w)'
      <4>1. \A id \in todo[w] : EntryAt(id) \in 1 .. n
        <5>1. \A id \in todo[w] : id \in Ids(stream)
          BY DEF ExportsIInv, LoopIInv, StreamOf, Group, Ids
        <5>2. QED
          BY <2>1, <5>1 DEF ExportsIInv, AskedOnce
      <4>2. ASSUME NEW id \in todo[w], At(w, "finally", id), NEW job \in jobs', job.id = EntryAt(id)
            PROVE  Settled(job) \/ job.id \in hit'
        <5>1. job \in jobs
          BY <3>2, <3>3, <4>1, <4>2
        <5>2. QED
          BY <2>2, <4>2, <5>1 DEF ExportsIInv, JobAtHand
      <4>3. \A id \in todo[w] : At(w, "complete", id) => \A m \in exported[w] : Shows(EntryAt(id), m)
        BY DEF ExportsIInv, JobAtHand
      <4>4. \A id, m : Shows(id, m)' <=> Shows(id, m)
        BY <2>2 DEF Shows
      <4>5. /\ todo' = todo /\ exported' = exported /\ \A id : EntryAt(id)' = EntryAt(id)
            /\ \A where, id : At(w, where, id)' <=> At(w, where, id)
        BY <2>2 DEF At, EntryAt, loopVars
      <4>6. ASSUME NEW id \in todo[w], At(w, "complete", id), NEW m \in exported[w]
            PROVE  Shows(EntryAt(id), m)'
        BY <2>2, <4>3, <4>6 DEF Shows, EntryAt, loopVars
      <4>7. QED
        BY <4>2, <4>5, <4>6 DEF JobAtHand, Settled
    <3>9. \A job : Awaited(job) => Awaited(job)'
      <4>1. creating \subseteq creating'
        BY <2>2
      <4>2. QED
        BY <2>2, <2>4, <4>1 DEF Awaited, Ids, EntryAt, loopVars
    <3>10. Awaited(new)' \/ new.id \in hit'
      <4>1. reply = "lost" \/ n + 1 \in creating'
        BY <2>2, <2>6, LoopAssumption DEF Applied, Raised, BusReply
      <4>2. QED
        BY <2>2, <3>2, <4>1 DEF Awaited
    <3>11. ASSUME NEW job \in jobs'
           PROVE  /\ job.status \in {"PENDING", "PROCESSING"} => Awaited(job)' \/ job.id \in hit'
                  /\ job.status = "COMPLETED" => \E file \in files' :
                        file.job = job.id /\ (file.shown = job.rows \/ file.shown = PdfRows)
      <4>1. CASE job = new
        BY <3>2, <3>10, <4>1
      <4>2. CASE job \in jobs
        BY <2>2, <3>9, <4>2 DEF ExportsIInv, StuckIsExplained
      <4>3. QED
        BY <3>3, <4>1, <4>2
    <3>12. StuckIsExplained'
      BY <3>11 DEF StuckIsExplained
    <3>13. QED
      BY <2>2, <2>3, <3>6, <3>7, <3>8, <3>12 DEF ExportsIInv, IsOn
  <2>7. QED
    BY <1>1, <2>5, <2>6 DEF CommitJob
<1>2. ASSUME NEW e \in creating, AskExport(e, reply) PROVE ExportsIInv'
  <2>1. /\ UNCHANGED <<jobs, exported, files>> /\ creating' = creating \ {e} /\ hit \subseteq hit'
        /\ ~Applied(reply) => e \in hit'
    BY <1>2 DEF AskExport, Cut, Applied, Raised
  <2>2. e \in 1 .. Cardinality(jobs) /\ Cardinality(jobs) \in Nat /\ e \in Nat
    BY FS_CardinalityType DEF ExportsIInv, AskedOnce, JobsFit
  <2>3. CASE UNCHANGED loopVars /\ ~Applied(reply)
    <3>1. LoopIInv(Nat)'
      BY <2>3, LoopStays DEF ExportsIInv
    <3>2. JobsFit' /\ AskedOnce'
      BY <2>1, <2>3 DEF ExportsIInv, JobsFit, AskedOnce, Ids, EntryAt, loopVars
    <3>3. \A w \in Workers : JobAtHand(w)'
      BY <2>1, <2>3 DEF ExportsIInv, JobAtHand, At, EntryAt, Shows, loopVars
    <3>4. \A job : Awaited(job) => Awaited(job)' \/ job.id \in hit'
      <4>1. \A w \in Workers : JobsOf(w)' = JobsOf(w)
        BY <2>3 DEF JobsOf, EntryAt, loopVars
      <4>2. \A id \in creating : id \in creating' \/ id \in hit'
        BY <2>1, <2>3
      <4>3. QED
        BY <2>3, <4>1, <4>2 DEF Awaited, Ids, EntryAt, loopVars
    <3>5. StuckIsExplained'
      BY <2>1, <3>4 DEF ExportsIInv, StuckIsExplained
    <3>6. QED
      BY <2>1, <3>1, <3>2, <3>3, <3>5 DEF ExportsIInv, IsOn
  <2>4. CASE Add(e)
    <3>1. PICK l \in Nat : l = Len(stream.log)
      BY DEF ExportsIInv, LoopIInv, StreamOf
    <3>2. /\ LoopIInv(Nat)' /\ Grows /\ UNCHANGED <<group, place, todo>>
          /\ Len(stream'.log) = l + 1 /\ stream'.log[l + 1] = e
      BY <2>2, <2>4, <3>1, AddGrows DEF ExportsIInv
    <3>3. /\ Ids(stream) = 1 .. l /\ Ids(stream)' = 1 .. l + 1
          /\ \A i \in 1 .. l : EntryAt(i)' = EntryAt(i)
          /\ EntryAt(l + 1)' = e
      BY <3>1, <3>2 DEF Ids, EntryAt, Grows
    <3>4. \A i \in 1 .. l + 1 : i \in 1 .. l \/ i = l + 1
      OBVIOUS
    <3>5. AskedOnce'
      <4>1. \A i \in Ids(stream)' : EntryAt(i)' \in (1 .. Cardinality(jobs)) \ creating'
        BY <2>1, <2>2, <3>3, <3>4 DEF ExportsIInv, AskedOnce
      <4>2. \A i \in 1 .. l : EntryAt(i) # e
        BY <3>3 DEF ExportsIInv, AskedOnce
      <4>3. \A i, j \in Ids(stream)' : EntryAt(i)' = EntryAt(j)' => i = j
        BY <3>3, <3>4, <4>2 DEF ExportsIInv, AskedOnce
      <4>4. QED
        BY <2>1, <4>1, <4>3 DEF ExportsIInv, AskedOnce
    <3>6. JobsFit'
      BY <2>1 DEF ExportsIInv, JobsFit
    <3>7. \A w \in Workers : \A id \in todo[w] : EntryAt(id)' = EntryAt(id)
      <4>1. \A w \in Workers : \A id \in todo[w] : id \in 1 .. l
        BY <3>1 DEF ExportsIInv, LoopIInv, Group
      <4>2. QED
        BY <3>3, <4>1
    <3>8. ASSUME NEW w \in Workers PROVE JobAtHand(w)' /\ JobsOf(w)' = JobsOf(w)
      <4>1. JobsOf(w)' = JobsOf(w)
        BY <3>2, <3>7 DEF JobsOf
      <4>2. ASSUME NEW id \in todo[w]
            PROVE  /\ At(w, "finally", id) =>
                        \A job \in jobs' : job.id = EntryAt(id)' => Settled(job) \/ job.id \in hit'
                   /\ At(w, "complete", id) => \A n \in exported'[w] : Shows(EntryAt(id), n)'
        <5>1. EntryAt(id)' = EntryAt(id)
          BY <3>7
        <5>2. QED
          BY <2>1, <5>1 DEF ExportsIInv, JobAtHand, Shows
      <4>3. QED
        BY <3>2, <4>1, <4>2 DEF JobAtHand, At, Settled
    <3>9. ASSUME NEW job, Awaited(job) PROVE Awaited(job)'
      <4>1. CASE job.id \in creating
        <5>1. CASE job.id = e
          <6>1. l + 1 \in Ids(stream)' /\ l + 1 \notin group'.pending \cup group'.acked
            BY <3>1, <3>2, <3>3 DEF ExportsIInv, LoopIInv, Group
          <6>2. QED
            BY <3>3, <5>1, <6>1 DEF Awaited
        <5>2. QED
          BY <2>1, <4>1, <5>1 DEF Awaited
      <4>2. ASSUME NEW i \in Ids(stream) \ (group.pending \cup group.acked), EntryAt(i) = job.id
            PROVE  Awaited(job)'
        <5>1. i \in Ids(stream)' /\ EntryAt(i)' = job.id
          BY <3>3, <4>2
        <5>2. QED
          BY <3>2, <4>2, <5>1 DEF Awaited
      <4>3. ASSUME NEW w \in Workers, job.id \in JobsOf(w) PROVE Awaited(job)'
        BY <3>8, <4>3 DEF Awaited
      <4>4. QED
        BY <3>9, <4>1, <4>2, <4>3 DEF Awaited
    <3>10. StuckIsExplained'
      BY <2>1, <3>9 DEF ExportsIInv, StuckIsExplained
    <3>11. QED
      BY <2>1, <3>2, <3>5, <3>6, <3>8, <3>10 DEF ExportsIInv, IsOn
  <2>5. QED
    BY <1>2, <2>3, <2>4 DEF AskExport
<1>3. QED
  BY <1>1, <1>2

(* Every step of the export service keeps its invariant.                   *)
LEMMA ExportsStepInv == ExportsIInv /\ [ExportsNext]_exportVars => ExportsIInv'
<1> SUFFICES ASSUME ExportsIInv, [ExportsNext]_exportVars PROVE ExportsIInv'
  OBVIOUS
<1>1. CASE UNCHANGED exportVars
  <2>1. LoopIInv(Nat)'
    BY <1>1, LoopStays DEF ExportsIInv, exportVars
  <2>2. JobsFit' /\ AskedOnce'
    BY <1>1 DEF ExportsIInv, JobsFit, AskedOnce, Ids, EntryAt, exportVars, loopVars
  <2>3. \A w \in Workers : JobAtHand(w)'
    BY <1>1 DEF ExportsIInv, JobAtHand, At, EntryAt, Shows, exportVars, loopVars
  <2>4. StuckIsExplained'
    BY <1>1 DEF ExportsIInv, StuckIsExplained, Awaited, JobsOf, Ids, EntryAt, exportVars, loopVars
  <2>5. QED
    BY <1>1, <2>1, <2>2, <2>3, <2>4 DEF ExportsIInv, IsOn, exportVars
<1>2. ASSUME NEW w \in Workers, ExportConsumer(w) PROVE ExportsIInv'
  <2>1. PICK reply \in Replies :
          \/ ConsumeExports(w, reply)
          \/ \E id \in todo[w] :
                \/ StartJob(w, id, reply)
                \/ Generate(w, id, reply)
                \/ CompleteJob(w, id, reply)
                \/ FailJob(w, id, reply)
                \/ AckExport(w, id, reply)
    BY <1>2 DEF ExportConsumer
  <2>2. QED
    BY <2>1, ExportMarksInv, ExportGeneratesInv, ExportLoopInv
<1>3. ASSUME NEW w \in Workers, CrashExports(w) PROVE ExportsIInv'
  BY <1>3, ExportLoopInv
<1>4. QED
  BY <1>1, <1>2, <1>3, ExportAskedInv DEF ExportsNext

(* It begins with no job.                                                  *)
LEMMA ExportsInitInv == ExportsInit => ExportsIInv
<1> SUFFICES ASSUME ExportsInit PROVE ExportsIInv
  OBVIOUS
<1>1. LoopIInv(Nat) /\ stream.log = << >> /\ \A w \in Workers : todo[w] = {}
  BY LoopInitInv DEF ExportsInit, LoopInit, EmptyStream
<1>2. IsFiniteSet(jobs) /\ jobs = {} /\ creating = {} /\ IsOn(exported, Workers)
  BY FS_EmptySet DEF ExportsInit, IsOn
<1>3. Ids(stream) = {}
  BY <1>1 DEF Ids
<1>4. QED
  BY <1>1, <1>2, <1>3 DEF ExportsIInv, JobsFit, AskedOnce, JobAtHand, StuckIsExplained

(* A job whose request was taken is COMPLETED or FAILED, unless an error   *)
(* or a crash struck where the service has no answer to it, and what is    *)
(* COMPLETED has its file, for any number of consumers, jobs and batches.  *)
THEOREM ExportJobsAreSettled == ExportsSpec => []StuckIsExplained
<1>1. ExportsIInv => StuckIsExplained
  BY DEF ExportsIInv
<1>2. QED
  BY <1>1, ExportsInitInv, ExportsStepInv, PTL DEF ExportsSpec

-----------------------------------------------------------------------------
(* The dead letters of the bus.                                            *)

Work == [payload : Payloads, tries : {0, MaxTries}]

(* An entry that will be read, or that stays pending: nobody is about to   *)
(* acknowledge it because it was moved.                                    *)
LiveAt(i) ==
    i > group.last \/ (i \in group.pending /\ \A w \in Workers : ~At(w, "deadAck", i))

(* A dead letter that nobody is about to delete because it was put back.   *)
DeadAt(d) ==
    /\ d \in Ids(deadLetters) \ removed
    /\ \A o \in Operators : ~(moving[o].at = "delete" /\ Moving(o, d))

OnStream(p) ==
    \E i \in Ids(stream) : EntryAt(i).payload = p /\ (LiveAt(i) \/ ~Exists(stream, i))

InDead(p) == \E d \in Ids(deadLetters) : DeadAt(d) /\ deadLetters.log[d] = p

Kept(p) == p \in handledOnce \/ OnStream(p) \/ InDead(p)

(* A consumer that is to acknowledge has handled.                          *)
HandledFirst(w) == \A id \in todo[w] : At(w, "ack", id) => EntryAt(id).payload \in handledOnce

MovesDead(o) == HasFields(moving[o], {"at", "left"}) /\ moving[o].left \subseteq Ids(deadLetters)

DeadLettersIInv ==
    /\ LoopIInv(Work)
    /\ deadLetters \in StreamOf(Payloads)
    /\ removed \subseteq Ids(deadLetters)
    /\ IsOn(moving, Operators)
    /\ \A o \in Operators : MovesDead(o)
    /\ \A w \in Workers : HandledFirst(w)
    /\ \A i \in Ids(stream) : Kept(EntryAt(i).payload)

(* What is kept is what NothingVanishes asks for.                          *)
LEMMA KeptIsNotLost == DeadLettersIInv => NothingVanishes
<1> SUFFICES ASSUME DeadLettersIInv, NEW i \in Ids(stream), NEW p, p = EntryAt(i).payload,
                    p \notin handledOnce
             PROVE  OnTheStream(p) \/ Dead(p) \/ Trimmed(p)
  BY DEF NothingVanishes, EntryAt
<1>1. OnStream(p) \/ InDead(p)
  BY DEF DeadLettersIInv, Kept
<1>2. OnStream(p) => OnTheStream(p) \/ Trimmed(p)
  BY DEF OnStream, OnTheStream, Trimmed, LiveAt, EntryAt
<1>3. InDead(p) => Dead(p) \/ Trimmed(p)
  BY DEF InDead, Dead, DeadIds, Trimmed, DeadAt
<1>4. QED
  BY <1>1, <1>2, <1>3

(* The dead letters are kept, and there may be one more.                   *)
DeadGrows ==
    /\ deadLetters' \in StreamOf(Payloads)
    /\ Ids(deadLetters) \subseteq Ids(deadLetters')
    /\ \A d \in Ids(deadLetters) : deadLetters'.log[d] = deadLetters.log[d]

(* A consumer moves: what it makes of the entries and of the dead letters  *)
(* is to be justified only where it changes something.                     *)
LEMMA DeadMoveInv ==
    ASSUME DeadLettersIInv, NEW w \in Workers, LoopIInv(Work)', Moves(w), stream' = stream,
           handledOnce \subseteq handledOnce', DeadGrows, UNCHANGED <<removed, moving>>,
           HandledFirst(w)',
           \A i \in Ids(stream) : LiveAt(i) => LiveAt(i)' \/ Kept(EntryAt(i).payload)'
    PROVE  DeadLettersIInv'
<1>1. /\ Ids(stream)' = Ids(stream) /\ \A i : EntryAt(i)' = EntryAt(i)
      /\ \A i : Exists(stream, i)' <=> Exists(stream, i)
  BY DEF Ids, EntryAt, Exists
<1>2. \A d : DeadAt(d) => DeadAt(d)'
  BY DEF DeadAt, Moving, DeadGrows
<1>3. \A p : InDead(p) => InDead(p)'
  BY <1>2 DEF InDead, DeadGrows
<1>4. ASSUME NEW p, Kept(p) PROVE Kept(p)'
  <2>1. CASE p \in handledOnce \/ InDead(p)
    BY <1>3, <2>1 DEF Kept
  <2>2. CASE OnStream(p)
    <3>1. PICK i \in Ids(stream) : EntryAt(i).payload = p /\ (LiveAt(i) \/ ~Exists(stream, i))
      BY <2>2 DEF OnStream
    <3>2. CASE LiveAt(i)' \/ ~Exists(stream, i)
      <4>1. OnStream(p)'
        BY <1>1, <3>1, <3>2 DEF OnStream
      <4>2. QED
        BY <4>1 DEF Kept
    <3>3. CASE Kept(EntryAt(i).payload)'
      <4>1. EntryAt(i).payload' = p
        BY <1>1, <3>1
      <4>2. QED
        BY <3>3, <4>1 DEF Kept, OnStream, InDead
    <3>4. QED
      BY <3>1, <3>2, <3>3
  <2>3. QED
    BY <1>4, <2>1, <2>2 DEF Kept
<1>5. \A i \in Ids(stream)' : Kept(EntryAt(i).payload)'
  BY <1>1, <1>4 DEF DeadLettersIInv
<1>6. ASSUME NEW v \in Workers, v # w PROVE HandledFirst(v)'
  <2>1. todo'[v] = todo[v] /\ place'[v] = place[v]
    BY <1>6 DEF Moves
  <2>2. QED
    BY <1>1, <2>1 DEF HandledFirst, At, DeadLettersIInv
<1>7. \A o \in Operators : MovesDead(o)'
  BY DEF DeadLettersIInv, MovesDead, DeadGrows
<1>8. deadLetters' \in StreamOf(Payloads) /\ removed' \subseteq Ids(deadLetters)' /\ IsOn(moving', Operators)
  BY DEF DeadLettersIInv, DeadGrows
<1>9. QED
  BY <1>5, <1>6, <1>7, <1>8 DEF DeadLettersIInv

(* Dead letters that are as they were have grown by none.                  *)
LEMMA DeadStay ==
    ASSUME DeadLettersIInv, deadLetters' = deadLetters
    PROVE  DeadGrows
BY DEF DeadLettersIInv, DeadGrows

(* An entry that is not acknowledged is as live as before, unless the      *)
(* replica goes to acknowledge what it moved.                              *)
LEMMA LiveStays ==
    ASSUME DeadLettersIInv, NEW w \in Workers, Moves(w), place'[w] # "deadAck",
           group'.last = group.last, NEW i, LiveAt(i), i \in group.pending => i \in group'.pending
    PROVE  LiveAt(i)'
<1>1. CASE i > group.last
  BY <1>1 DEF LiveAt
<1>2. CASE i \in group.pending /\ \A v \in Workers : ~At(v, "deadAck", i)
  <2>1. \A v \in Workers : ~At(v, "deadAck", i)'
    BY <1>2 DEF At, Moves
  <2>2. QED
    BY <1>2, <2>1 DEF LiveAt
<1>3. QED
  BY <1>1, <1>2 DEF LiveAt

(* Handling, failing, giving up and crashing lose no entry.                *)
LEMMA DeadHandlesInv ==
    ASSUME DeadLettersIInv, NEW w \in Workers
    PROVE  /\ CrashConsumer(w) => DeadLettersIInv'
           /\ \A id \in todo[w] : HandleWork(w, id) \/ HandlerRaises(w, id) => DeadLettersIInv'
<1>1. ASSUME CrashConsumer(w) PROVE DeadLettersIInv'
  <2>1. GoesOn(w, 1) /\ place'[w] = "idle" /\ todo'[w] = {} /\ UNCHANGED <<stream, group>>
    BY <1>1, CrashMoves DEF CrashConsumer, DeadLettersIInv
  <2>2. LoopIInv(Work)' /\ Moves(w)
    BY <2>1, GoesOnInv DEF GoesOn, DeadLettersIInv
  <2>3. UNCHANGED <<deadLetters, removed, moving, handledOnce>>
    BY <1>1 DEF CrashConsumer, deadOwn
  <2>4. HandledFirst(w)'
    BY <2>1 DEF HandledFirst
  <2>5. \A i \in Ids(stream) : LiveAt(i) => LiveAt(i)'
    BY <2>1, <2>2, LiveStays
  <2>6. QED
    BY <2>1, <2>2, <2>3, <2>4, <2>5, DeadMoveInv, DeadStay
<1>2. ASSUME NEW id \in todo[w], HandleWork(w, id) PROVE DeadLettersIInv'
  <2>1. /\ At(w, "handle", id) /\ GoesOn(w, id) /\ id \in Nat
        /\ UNCHANGED <<stream, group, todo>> /\ place'[w] = "ack"
    BY <1>2, StepMoves DEF HandleWork, DeadLettersIInv
  <2>2. LoopIInv(Work)' /\ Moves(w)
    BY <2>1, GoesOnInv DEF GoesOn, DeadLettersIInv
  <2>3. UNCHANGED <<deadLetters, removed, moving>>
        /\ handledOnce' = handledOnce \cup {EntryAt(id).payload}
    BY <1>2 DEF HandleWork
  <2>4. HandledFirst(w)'
    <3>1. ASSUME NEW other \in todo'[w], At(w, "ack", other)' PROVE other = id
      BY <2>1, <3>1 DEF At, DeadLettersIInv, LoopIInv
    <3>2. QED
      BY <2>1, <2>3, <3>1 DEF HandledFirst, EntryAt
  <2>5. \A i \in Ids(stream) : LiveAt(i) => LiveAt(i)'
    BY <2>1, <2>2, LiveStays
  <2>6. QED
    BY <2>1, <2>2, <2>3, <2>4, <2>5, DeadMoveInv, DeadStay
<1>3. ASSUME NEW id \in todo[w], HandlerRaises(w, id) PROVE DeadLettersIInv'
  <2>1. /\ id \in Nat /\ GoesOn(w, id) /\ UNCHANGED <<stream, group>>
        /\ place'[w] \in {"idle", "handle", "dead"}
    <3>1. CASE Step(w, "dead")
      BY <3>1, StepMoves DEF DeadLettersIInv
    <3>2. CASE Finished(w, id) /\ UNCHANGED <<stream, group>>
      BY <3>2, FinishedMoves DEF DeadLettersIInv
    <3>3. QED
      BY <1>3, <3>1, <3>2 DEF HandlerRaises, FailWork
  <2>2. LoopIInv(Work)' /\ Moves(w)
    BY <2>1, GoesOnInv DEF GoesOn, DeadLettersIInv
  <2>3. UNCHANGED <<deadLetters, removed, moving, handledOnce>>
    BY <1>3 DEF HandlerRaises, deadOwn
  <2>4. HandledFirst(w)'
    BY <2>1 DEF HandledFirst, At
  <2>5. \A i \in Ids(stream) : LiveAt(i) => LiveAt(i)'
    BY <2>1, <2>2, LiveStays
  <2>6. QED
    BY <2>1, <2>2, <2>3, <2>4, <2>5, DeadMoveInv, DeadStay
<1>4. QED
  BY <1>1, <1>2, <1>3

(* Reading a batch loses only what was trimmed.                            *)
LEMMA DeadConsumesInv ==
    ASSUME DeadLettersIInv, NEW w \in Workers, NEW reply \in Replies, Consume(w, reply),
           UNCHANGED deadOwn
    PROVE  DeadLettersIInv'
<1>1. /\ LoopIInv(Work)' /\ Moves(w) /\ stream' = stream
      /\ group.pending \subseteq group'.pending
      /\ group'.last >= group.last
      /\ \A id \in group.last + 1 .. group'.last : id \in group'.pending \/ id < stream.first
      /\ place'[w] \in {"idle", "handle"}
  BY ConsumeMoves DEF DeadLettersIInv
<1>2. UNCHANGED <<deadLetters, removed, moving, handledOnce>>
  BY DEF deadOwn
<1>3. HandledFirst(w)'
  BY <1>1 DEF HandledFirst, At
<1>4. group.last \in Nat /\ group'.last \in Nat /\ Ids(stream) \subseteq Nat
  BY <1>1 DEF DeadLettersIInv, LoopIInv, Group, Ids
<1>5. \A v \in Workers : \A i : At(v, "deadAck", i)' => At(v, "deadAck", i)
  BY <1>1 DEF At, Moves
<1>6. \A v \in Workers : \A i : i > group.last /\ i \in Nat => ~At(v, "deadAck", i)
  BY <1>4 DEF At, DeadLettersIInv, LoopIInv
<1>7. ASSUME NEW i \in Ids(stream), LiveAt(i) PROVE LiveAt(i)' \/ ~Exists(stream, i)
  <2>1. CASE i \in group.pending
    BY <1>1, <1>4, <1>5, <1>6, <1>7, <2>1 DEF LiveAt
  <2>2. CASE i > group'.last
    BY <2>2 DEF LiveAt
  <2>3. CASE i > group.last /\ i <= group'.last
    <3>1. i \in group'.pending \/ i < stream.first
      BY <1>1, <1>4, <2>3
    <3>2. CASE i \in group'.pending
      BY <1>4, <1>5, <1>6, <2>3, <3>2 DEF LiveAt
    <3>3. CASE i < stream.first
      <4>1. stream.first \in Nat
        BY DEF DeadLettersIInv, LoopIInv, StreamOf
      <4>2. QED
        BY <1>4, <3>3, <4>1 DEF Exists
    <3>4. QED
      BY <3>1, <3>2, <3>3
  <2>4. QED
    BY <1>4, <1>7, <2>1, <2>2, <2>3 DEF LiveAt
<1>8. ASSUME NEW i \in Ids(stream), LiveAt(i) PROVE LiveAt(i)' \/ Kept(EntryAt(i).payload)'
  <2>1. CASE ~Exists(stream, i)
    <3>1. i \in Ids(stream)' /\ ~Exists(stream, i)' /\ EntryAt(i)' = EntryAt(i)
      BY <1>1, <2>1 DEF Ids, Exists, EntryAt
    <3>2. OnStream(EntryAt(i).payload)'
      BY <3>1 DEF OnStream
    <3>3. QED
      BY <3>2 DEF Kept
  <2>2. QED
    BY <1>7, <1>8, <2>1
<1>9. QED
  BY <1>1, <1>2, <1>3, <1>8, DeadMoveInv, DeadStay

(* The acknowledgement of what was handled, and of what was moved.         *)
LEMMA DeadAcksInv ==
    ASSUME DeadLettersIInv, NEW w \in Workers, NEW id \in todo[w], NEW reply \in Replies,
           AckWork(w, id, reply) \/ AckMoved(w, id, reply)
    PROVE  DeadLettersIInv'
<1>1. /\ id \in Nat /\ GoesOn(w, id) /\ place'[w] \in {"idle", "handle", "dead"}
      /\ UNCHANGED <<deadLetters, removed, moving, handledOnce>>
  <2>1. CASE AckMoved(w, id, reply)
    BY <2>1, AcknowledgeMoves DEF AckMoved, DeadLettersIInv, deadOwn
  <2>2. CASE AckWork(w, id, reply)
    <3>1. stream' = stream /\ group' \in {group, XAck(group, id)} /\ id \in Nat
      BY <2>2 DEF AckWork, DeadLettersIInv, LoopIInv
    <3>2. CASE Finished(w, id)
      BY <2>2, <3>1, <3>2, FinishedMoves DEF DeadLettersIInv, AckWork, deadOwn
    <3>3. CASE Goto(w, "dead") /\ UNCHANGED todo
      <4>1. GoesOn(w, id) /\ place'[w] = "dead"
        BY <3>1, <3>3 DEF Goto, GoesOn, Moves, IsOn, DeadLettersIInv, LoopIInv
      <4>2. QED
        BY <2>2, <3>1, <4>1 DEF AckWork, deadOwn
    <3>4. QED
      BY <2>2, <3>2, <3>3 DEF AckWork
  <2>3. QED
    BY <2>1, <2>2
<1>2. LoopIInv(Work)' /\ Moves(w) /\ stream' = stream
  BY <1>1, GoesOnInv DEF GoesOn, DeadLettersIInv
<1>3. HandledFirst(w)'
  BY <1>1 DEF HandledFirst, At
<1>4. group'.last = group.last /\ group.pending \ {id} \subseteq group'.pending
  BY <1>1 DEF GoesOn, XAck
<1>5. At(w, "deadAck", id) \/ EntryAt(id).payload \in handledOnce'
  <2>1. CASE AckMoved(w, id, reply)
    BY <2>1 DEF AckMoved
  <2>2. CASE AckWork(w, id, reply)
    BY <1>1, <2>2 DEF AckWork, DeadLettersIInv, HandledFirst
  <2>3. QED
    BY <2>1, <2>2
<1>6. id <= group.last /\ group.last \in Nat
  BY DEF DeadLettersIInv, LoopIInv, Group
<1>7. ASSUME NEW i \in Ids(stream), LiveAt(i) PROVE LiveAt(i)' \/ Kept(EntryAt(i).payload)'
  <2>1. CASE i # id
    BY <1>1, <1>2, <1>4, <1>7, <2>1, LiveStays
  <2>2. CASE i = id
    <3>1. ~At(w, "deadAck", id)
      BY <1>1, <1>6, <1>7, <2>2 DEF LiveAt
    <3>2. QED
      BY <1>2, <1>5, <2>2, <3>1 DEF Kept, EntryAt
  <2>3. QED
    BY <2>1, <2>2
<1>8. QED
  BY <1>1, <1>2, <1>3, <1>7, DeadMoveInv, DeadStay

(* XADD of one entry.                                                      *)
LEMMA XAddGrows ==
    ASSUME NEW Entry, NEW s \in StreamOf(Entry), NEW entry \in Entry, NEW t \in XAdd(s, <<entry>>)
    PROVE  /\ t \in StreamOf(Entry)
           /\ Len(s.log) \in Nat /\ Len(t.log) = Len(s.log) + 1
           /\ \A id \in 1 .. Len(s.log) : t.log[id] = s.log[id]
           /\ t.log[Len(s.log) + 1] = entry
           /\ s.first <= t.first
<1>1. s.log \in Seq(Entry) /\ s.first \in Nat \ {0} /\ Len(s.log) \in Nat
  BY DEF StreamOf
<1>2. PICK f \in s.first .. Len(s.log \o <<entry>>) : t = [log |-> s.log \o <<entry>>, first |-> f]
  BY DEF XAdd
<1> DEFINE log == s.log \o <<entry>>
<1>3. /\ log \in Seq(Entry) /\ Len(log) = Len(s.log) + 1
      /\ \A id \in 1 .. Len(s.log) : log[id] = s.log[id]
      /\ log[Len(s.log) + 1] = entry
  BY <1>1
<1>4. t.log = log /\ t.first = f /\ f \in Nat \ {0} /\ s.first <= f
  BY <1>1, <1>2, <1>3
<1>5. t \in StreamOf(Entry)
  BY <1>2, <1>3, <1>4 DEF StreamOf
<1> HIDE DEF log
<1>6. QED
  BY <1>1, <1>3, <1>4, <1>5

(* move_to_dlq: the entry is among the dead letters before it is           *)
(* acknowledged.                                                           *)
LEMMA DeadMovesInv ==
    ASSUME DeadLettersIInv, NEW w \in Workers, NEW id \in todo[w], NEW reply \in Replies,
           MoveWork(w, id, reply)
    PROVE  DeadLettersIInv'
<1>1. /\ At(w, "dead", id) /\ UNCHANGED <<stream, group, removed, handledOnce, moving>>
      /\ Move(id, reply)
      /\ \/ Abandon(w)
         \/ Finished(w, id)
         \/ /\ ~Raised(reply) /\ Exists(stream, id)
            /\ Goto(w, "deadAck") /\ UNCHANGED todo
  BY DEF MoveWork
<1>2. /\ id \in Nat /\ id \in Ids(stream) /\ EntryAt(id).payload \in Payloads
      /\ id <= group.last /\ group.last \in Nat
  <2>1. id \in 1 .. group.last /\ group.last \in Nat /\ stream.log \in Seq(Work)
    BY DEF DeadLettersIInv, LoopIInv, Group, StreamOf
  <2>2. id \in Ids(stream) /\ id \in 1 .. Len(stream.log)
    BY <2>1 DEF DeadLettersIInv, LoopIInv, Ids
  <2>3. EntryAt(id) \in Work
    BY <2>1, <2>2 DEF EntryAt
  <2>4. QED
    BY <2>1, <2>2, <2>3 DEF Work
<1>3. /\ GoesOn(w, id)
      /\ \/ place'[w] \in {"idle", "handle"}
         \/ place'[w] = "deadAck" /\ ~Raised(reply) /\ Exists(stream, id) /\ UNCHANGED todo
  <2>1. CASE Abandon(w)
    BY <1>1, <1>2, <2>1, AbandonMoves DEF DeadLettersIInv
  <2>2. CASE Finished(w, id)
    BY <1>1, <2>2, FinishedMoves DEF DeadLettersIInv
  <2>3. CASE ~Raised(reply) /\ Exists(stream, id) /\ Goto(w, "deadAck") /\ UNCHANGED todo
    <3>1. Step(w, "deadAck")
      BY <1>1, <2>3 DEF Step
    <3>2. QED
      BY <2>3, <3>1, StepMoves DEF DeadLettersIInv
  <2>4. QED
    BY <1>1, <2>1, <2>2, <2>3
<1>4. LoopIInv(Work)' /\ Moves(w)
  BY <1>2, <1>3, GoesOnInv DEF GoesOn, DeadLettersIInv
<1>5. HandledFirst(w)'
  BY <1>3 DEF HandledFirst, At
<1>6. \/ deadLetters' = deadLetters /\ ~(Exists(stream, id) /\ Applied(reply))
      \/ deadLetters' \in XAdd(deadLetters, <<EntryAt(id).payload>>)
  BY <1>1 DEF Move
<1>7. DeadGrows /\ (deadLetters' # deadLetters => InDead(EntryAt(id).payload)')
  <2>1. CASE deadLetters' = deadLetters
    BY <2>1, DeadStay
  <2>2. CASE deadLetters' \in XAdd(deadLetters, <<EntryAt(id).payload>>)
    <3>1. PICK p \in Payloads : p = EntryAt(id).payload
      BY <1>2
    <3>2. PICK l \in Nat : l = Len(deadLetters.log)
      BY DEF DeadLettersIInv, StreamOf
    <3>3. /\ deadLetters' \in StreamOf(Payloads) /\ Len(deadLetters'.log) = l + 1
          /\ \A d \in 1 .. l : deadLetters'.log[d] = deadLetters.log[d]
          /\ deadLetters'.log[l + 1] = p
      BY <2>2, <3>1, <3>2, XAddGrows DEF DeadLettersIInv
    <3>4. Ids(deadLetters) = 1 .. l /\ Ids(deadLetters)' = 1 .. l + 1
      BY <3>2, <3>3 DEF Ids
    <3>5. DeadGrows
      BY <3>3, <3>4 DEF DeadGrows, Ids
    <3>6. DeadAt(l + 1)'
      <4>1. l + 1 \in Ids(deadLetters)' /\ l + 1 \notin removed'
        BY <1>1, <3>4 DEF DeadLettersIInv
      <4>2. \A o \in Operators : l + 1 \notin moving'[o].left
        BY <1>1, <3>4 DEF DeadLettersIInv, MovesDead
      <4>3. QED
        BY <4>1, <4>2 DEF DeadAt, Moving
    <3>7. InDead(p)'
      BY <3>3, <3>4, <3>6 DEF InDead
    <3>8. EntryAt(id).payload' = p
      BY <1>1, <3>1 DEF EntryAt
    <3>9. InDead(EntryAt(id).payload)'
      BY <3>7, <3>8 DEF InDead
    <3>10. QED
      BY <3>5, <3>9
  <2>3. QED
    BY <1>6, <2>1, <2>2
<1>8. ASSUME NEW i \in Ids(stream), LiveAt(i) PROVE LiveAt(i)' \/ Kept(EntryAt(i).payload)'
  <2>1. CASE place'[w] # "deadAck"
    BY <1>1, <1>4, <1>8, <2>1, LiveStays
  <2>2. CASE place'[w] = "deadAck" /\ i = id
    <3>1. Applied(reply) /\ Exists(stream, id)
      BY <1>3, <2>2 DEF Applied, Raised
    <3>2. deadLetters' \in XAdd(deadLetters, <<EntryAt(id).payload>>)
      BY <1>6, <3>1
    <3>3. deadLetters' # deadLetters
      <4>1. PICK p \in Payloads : p = EntryAt(id).payload
        BY <1>2
      <4>2. Len(deadLetters'.log) = Len(deadLetters.log) + 1 /\ Len(deadLetters.log) \in Nat
        BY <3>2, <4>1, XAddGrows DEF DeadLettersIInv
      <4>3. QED
        BY <4>2
    <3>4. QED
      BY <1>7, <2>2, <3>3 DEF Kept, EntryAt
  <2>3. CASE place'[w] = "deadAck" /\ i # id
    <3>1. \A v \in Workers : At(v, "deadAck", i)' => At(v, "deadAck", i)
      BY <1>1, <1>3, <1>4, <2>3 DEF At, Moves, DeadLettersIInv, LoopIInv
    <3>2. QED
      BY <1>1, <1>8, <3>1 DEF LiveAt
  <2>4. QED
    BY <2>1, <2>2, <2>3
<1>9. QED
  BY <1>1, <1>4, <1>5, <1>7, <1>8, DeadMoveInv

(* A publisher or an operator moves: no consumer does.                     *)
LEMMA DeadOutsideInv ==
    ASSUME DeadLettersIInv, LoopIInv(Work)', Grows, UNCHANGED <<group, place, todo>>,
           UNCHANGED <<deadLetters, handledOnce>>,
           removed' \subseteq Ids(deadLetters), IsOn(moving', Operators),
           \A o \in Operators : MovesDead(o)',
           \A d \in Ids(deadLetters) : DeadAt(d) => DeadAt(d)' \/ OnStream(deadLetters.log[d])'
    PROVE  DeadLettersIInv'
<1>1. /\ Len(stream.log) \in Nat /\ Len(stream'.log) \in Nat
      /\ stream.first \in Nat /\ stream'.first \in Nat
      /\ group.last \in Nat /\ group.last <= Len(stream.log)
  BY DEF DeadLettersIInv, LoopIInv, StreamOf, Group
<1>2. /\ \A i \in Ids(stream) : i \in Ids(stream)' /\ EntryAt(i)' = EntryAt(i)
      /\ \A i \in Ids(stream) : ~Exists(stream, i) => ~Exists(stream, i)'
  BY <1>1 DEF Grows, Ids, EntryAt, Exists
<1>3. \A i : LiveAt(i) => LiveAt(i)'
  BY DEF LiveAt, At
<1>4. \A p : OnStream(p) => OnStream(p)'
  <2>1. SUFFICES ASSUME NEW p, OnStream(p) PROVE OnStream(p)'
    OBVIOUS
  <2>2. PICK i \in Ids(stream) : EntryAt(i).payload = p /\ (LiveAt(i) \/ ~Exists(stream, i))
    BY <2>1 DEF OnStream
  <2>3. i \in Ids(stream)' /\ EntryAt(i)' = EntryAt(i)
    BY <1>2, <2>2
  <2>4. LiveAt(i)' \/ ~Exists(stream, i)'
    BY <1>2, <1>3, <2>2
  <2>5. EntryAt(i)'.payload = p
    BY <2>2, <2>3
  <2>6. QED
    BY <2>3, <2>4, <2>5 DEF OnStream
<1>5. ASSUME NEW p, InDead(p) PROVE InDead(p)' \/ OnStream(p)'
  <2>1. PICK d \in Ids(deadLetters) : DeadAt(d) /\ deadLetters.log[d] = p
    BY <1>5 DEF InDead
  <2>2. CASE DeadAt(d)'
    BY <2>1, <2>2 DEF InDead
  <2>3. CASE OnStream(deadLetters.log[d])'
    <3>1. deadLetters'.log[d] = p
      BY <2>1
    <3>2. QED
      BY <2>3, <3>1 DEF OnStream
  <2>4. QED
    BY <2>1, <2>2, <2>3
<1>6. \A p : Kept(p) => Kept(p)'
  BY <1>4, <1>5 DEF Kept
<1>7. ASSUME NEW i \in Ids(stream)' PROVE Kept(EntryAt(i).payload)'
  <2>1. CASE i \in Ids(stream)
    <3>1. PICK p : p = EntryAt(i).payload
      OBVIOUS
    <3>2. Kept(p)
      BY <2>1, <3>1 DEF DeadLettersIInv
    <3>3. Kept(p)'
      BY <1>6, <3>2
    <3>4. EntryAt(i)'.payload = p
      BY <1>2, <2>1, <3>1
    <3>5. QED
      BY <3>3, <3>4 DEF Kept, OnStream, InDead
  <2>2. CASE i \notin Ids(stream)
    <3>1. i > group'.last
      BY <1>1, <2>2 DEF Ids
    <3>2. OnStream(EntryAt(i).payload)'
      BY <3>1 DEF OnStream, LiveAt
    <3>3. QED
      BY <3>2 DEF Kept
  <2>3. QED
    BY <2>1, <2>2
<1>8. ASSUME NEW w \in Workers PROVE HandledFirst(w)'
  <2>1. \A id \in todo[w] : id \in Ids(stream)
    BY <1>1 DEF DeadLettersIInv, LoopIInv, Ids
  <2>2. \A id \in todo[w] : EntryAt(id)' = EntryAt(id)
    BY <1>2, <2>1
  <2>3. ASSUME NEW id \in todo'[w], At(w, "ack", id)' PROVE EntryAt(id)'.payload \in handledOnce'
    BY <2>2, <2>3 DEF DeadLettersIInv, HandledFirst, At
  <2>4. QED
    BY <2>3 DEF HandledFirst
<1>9. deadLetters' \in StreamOf(Payloads) /\ removed' \subseteq Ids(deadLetters)'
  BY DEF DeadLettersIInv
<1>10. QED
  BY <1>7, <1>8, <1>9 DEF DeadLettersIInv

(* What an operator has left to move is of the dead letters.               *)
LEMMA OperatorRests ==
    ASSUME DeadLettersIInv, NEW o \in Operators, deadLetters' = deadLetters,
           NEW m, moving' = [moving EXCEPT ![o] = m],
           HasFields(m, {"at", "left"}), m.left \subseteq Ids(deadLetters)
    PROVE  /\ IsOn(moving', Operators)
           /\ moving'[o] = m
           /\ \A p \in Operators : p # o => moving'[p] = moving[p]
           /\ \A p \in Operators : MovesDead(p)'
<1>1. /\ IsOn(moving', Operators) /\ moving'[o] = m
      /\ \A p \in Operators : p # o => moving'[p] = moving[p]
  BY DEF DeadLettersIInv, IsOn
<1>2. ASSUME NEW p \in Operators PROVE MovesDead(p)'
  <2>1. HasFields(moving'[p], {"at", "left"}) /\ moving'[p].left \subseteq Ids(deadLetters)
    BY <1>1 DEF DeadLettersIInv, MovesDead
  <2>2. QED
    BY <2>1 DEF MovesDead, HasFields
<1>3. QED
  BY <1>1, <1>2

(* An operator who is not about to delete lets every dead letter be.       *)
LEMMA NotDeleting ==
    ASSUME NEW o \in Operators, removed' = removed, deadLetters' = deadLetters,
           moving'[o].at # "delete", \A p \in Operators : p # o => moving'[p] = moving[p],
           NEW d, DeadAt(d)
    PROVE  DeadAt(d)'
BY DEF DeadAt, Moving, Ids

(* The two things an operator may be at between the deletions.             *)
LEMMA OperatorFields ==
    ASSUME NEW left
    PROVE  /\ HasFields(AtRest, {"at", "left"}) /\ AtRest.left = {} /\ AtRest.at # "delete"
           /\ HasFields([at |-> "publish", left |-> left], {"at", "left"})
           /\ [at |-> "publish", left |-> left].left = left
           /\ [at |-> "publish", left |-> left].at # "delete"
<1>1. PICK m : m = [at |-> "publish", left |-> left]
  OBVIOUS
<1>2. HasFields(m, {"at", "left"}) /\ m.left = left /\ m.at # "delete"
  BY <1>1 DEF HasFields
<1>3. PICK r : r = [at |-> "free", left |-> {}]
  OBVIOUS
<1>4. HasFields(r, {"at", "left"}) /\ r.left = {} /\ r.at # "delete"
  BY <1>3 DEF HasFields
<1>5. QED
  BY <1>1, <1>2, <1>3, <1>4 DEF AtRest

(* Publishing, and reading dead letters.                                   *)
LEMMA DeadReadsInv ==
    ASSUME DeadLettersIInv
    PROVE  /\ \A payload \in Payloads, tries \in {0, MaxTries} :
                 PublishWork(payload, tries) => DeadLettersIInv'
           /\ \A o \in Operators : ReadDead(o) \/ CrashOperator(o) => DeadLettersIInv'
<1>1. ASSUME NEW payload \in Payloads, NEW tries \in {0, MaxTries}, PublishWork(payload, tries)
      PROVE  DeadLettersIInv'
  <2>1. PICK entry : entry = [payload |-> payload, tries |-> tries]
    OBVIOUS
  <2>2. entry \in Work /\ Add(entry)
    BY <1>1, <2>1 DEF Work, PublishWork
  <2>3. LoopIInv(Work)' /\ Grows /\ UNCHANGED <<group, place, todo>>
    BY <2>2, AddGrows DEF DeadLettersIInv
  <2>4. UNCHANGED <<deadLetters, removed, moving, handledOnce>>
    BY <1>1 DEF PublishWork, deadOwn
  <2>5. /\ removed' \subseteq Ids(deadLetters) /\ IsOn(moving', Operators)
        /\ \A o \in Operators : MovesDead(o)'
    BY <2>4 DEF DeadLettersIInv, MovesDead, Ids
  <2>6. \A d : DeadAt(d) => DeadAt(d)'
    BY <2>4 DEF DeadAt, Moving, Ids
  <2>7. QED
    BY <2>3, <2>4, <2>5, <2>6, DeadOutsideInv
<1>2. LoopIInv(Work) /\ (UNCHANGED loopVars => LoopIInv(Work)' /\ Grows)
  BY LoopStays DEF DeadLettersIInv, loopVars, Grows, LoopIInv, StreamOf
<1>3. ASSUME NEW o \in Operators, ReadDead(o) \/ CrashOperator(o) PROVE DeadLettersIInv'
  <2>1. UNCHANGED <<loopVars, deadLetters, removed, handledOnce>>
    BY <1>3 DEF ReadDead, CrashOperator
  <2>2. PICK m : /\ moving' = [moving EXCEPT ![o] = m]
                 /\ HasFields(m, {"at", "left"}) /\ m.left \subseteq Ids(deadLetters)
                 /\ m.at # "delete"
    <3>1. CASE ReadDead(o)
      <4>1. PICK left : /\ left \subseteq Ids(deadLetters)
                        /\ moving' = [moving EXCEPT ![o] = [at |-> "publish", left |-> left]]
        BY <3>1 DEF ReadDead, DeadIds
      <4>2. QED
        BY <4>1, OperatorFields
    <3>2. CASE CrashOperator(o)
      BY <3>2, OperatorFields DEF CrashOperator
    <3>3. QED
      BY <1>3, <3>1, <3>2
  <2>3. /\ IsOn(moving', Operators) /\ moving'[o] = m
        /\ \A p \in Operators : p # o => moving'[p] = moving[p]
        /\ \A p \in Operators : MovesDead(p)'
    BY <2>1, <2>2, OperatorRests
  <2>4. \A d : DeadAt(d) => DeadAt(d)'
    BY <2>1, <2>2, <2>3, NotDeleting
  <2>5. removed' \subseteq Ids(deadLetters) /\ UNCHANGED <<group, place, todo>>
    BY <2>1 DEF DeadLettersIInv, loopVars
  <2>6. QED
    BY <1>2, <2>1, <2>3, <2>4, <2>5, DeadOutsideInv
<1>4. QED
  BY <1>1, <1>3

(* reprocess_dlq: the copy is on the stream before the dead letter goes.   *)
LEMMA DeadReturnsInv ==
    ASSUME DeadLettersIInv, NEW o \in Operators, NEW id \in moving[o].left,
           NEW reply \in Replies, Republish(o, id, reply) \/ DeleteDead(o, id, reply)
    PROVE  DeadLettersIInv'
<1>1. id \in Ids(deadLetters) /\ deadLetters.log[id] \in Payloads
      /\ HasFields(moving[o], {"at", "left"}) /\ moving[o].left \subseteq Ids(deadLetters)
  BY DEF DeadLettersIInv, MovesDead, Ids, StreamOf
<1>2. CASE Republish(o, id, reply)
  <2>1. /\ UNCHANGED <<group, place, todo, deadLetters, removed, handledOnce>>
        /\ moving[o].at = "publish" /\ Moving(o, id)
    BY <1>2 DEF Republish
  <2>2. PICK entry : entry = [payload |-> deadLetters.log[id], tries |-> 0]
    OBVIOUS
  <2>3. entry \in Work /\ entry.payload = deadLetters.log[id]
    BY <1>1, <2>2 DEF Work
  <2>4. \/ ~Applied(reply) /\ stream' = stream
        \/ Add(entry)
    BY <1>2, <2>2 DEF Republish, Add, Enter
  <2>5. /\ LoopIInv(Work)' /\ Grows
        /\ Add(entry) => /\ Len(stream'.log) = Len(stream.log) + 1
                         /\ stream'.log[Len(stream.log) + 1] = entry
    <3>1. CASE stream' = stream /\ ~Applied(reply)
      <4>1. UNCHANGED loopVars
        BY <2>1, <3>1 DEF loopVars
      <4>2. LoopIInv(Work)' /\ Grows
        BY <4>1, LoopStays DEF DeadLettersIInv, loopVars, Grows, LoopIInv, StreamOf
      <4>3. Add(entry) => /\ Len(stream'.log) = Len(stream.log) + 1
                          /\ stream'.log[Len(stream.log) + 1] = entry
        BY <2>3, AddGrows DEF DeadLettersIInv
      <4>4. QED
        BY <4>2, <4>3
    <3>2. CASE Add(entry)
      BY <2>3, <3>2, AddGrows DEF DeadLettersIInv
    <3>3. QED
      BY <2>4, <3>1, <3>2
  <2>6. PICK m : /\ moving' = [moving EXCEPT ![o] = m]
                 /\ HasFields(m, {"at", "left"}) /\ m.left \subseteq moving[o].left
                 /\ m.at = "delete" => ~Raised(reply) /\ m.left = moving[o].left
    <3>1. CASE Raised(reply)
      BY <1>2, <3>1, OperatorFields DEF Republish
    <3>2. CASE ~Raised(reply)
      <4>1. PICK m : m = [moving[o] EXCEPT !.at = "delete"]
        OBVIOUS
      <4>2. HasFields(m, {"at", "left"}) /\ m.left = moving[o].left
        BY <1>1, <4>1 DEF HasFields
      <4>3. moving' = [moving EXCEPT ![o] = m]
        BY <1>2, <3>2, <4>1 DEF Republish
      <4>4. QED
        BY <3>2, <4>2, <4>3
    <3>3. QED
      BY <3>1, <3>2
  <2>7. /\ IsOn(moving', Operators) /\ moving'[o] = m
        /\ \A p \in Operators : p # o => moving'[p] = moving[p]
        /\ \A p \in Operators : MovesDead(p)'
    BY <1>1, <2>1, <2>6, OperatorRests
  <2>8. ASSUME NEW d \in Ids(deadLetters), DeadAt(d)
        PROVE  DeadAt(d)' \/ OnStream(deadLetters.log[d])'
    <3>1. CASE d = id /\ ~Raised(reply)
      <4>1. Add(entry)
        BY <2>4, <3>1, LoopAssumption DEF Applied, Raised
      <4>2. PICK l \in Nat : l = Len(stream.log)
        BY DEF DeadLettersIInv, LoopIInv, StreamOf
      <4>3. l + 1 \in Ids(stream)' /\ EntryAt(l + 1).payload' = deadLetters.log[id]
        BY <2>3, <2>5, <4>1, <4>2 DEF Ids, EntryAt
      <4>4. l + 1 > group'.last
        BY <2>1, <4>2 DEF DeadLettersIInv, LoopIInv, Group
      <4>5. QED
        BY <2>1, <3>1, <4>3, <4>4 DEF OnStream, LiveAt
    <3>2. CASE d # id \/ Raised(reply)
      <4>1. ~(moving'[o].at = "delete" /\ Moving(o, d)')
        <5>1. CASE m.at = "delete" /\ d # id
          <6>1. moving'[o].left = moving[o].left
            BY <2>6, <2>7, <5>1
          <6>2. \A x \in moving[o].left : x \in Nat
            BY <1>1 DEF Ids
          <6>3. ~Moving(o, d)
            BY <2>1, <5>1, <6>2 DEF Moving
          <6>4. QED
            BY <6>1, <6>3 DEF Moving
        <5>2. QED
          BY <2>6, <2>7, <3>2, <5>1
      <4>2. QED
        BY <2>1, <2>7, <2>8, <4>1 DEF DeadAt, Moving, Ids
    <3>3. QED
      BY <3>1, <3>2
  <2>9. removed' \subseteq Ids(deadLetters)
    BY <2>1 DEF DeadLettersIInv
  <2>10. QED
    BY <2>1, <2>5, <2>7, <2>8, <2>9, DeadOutsideInv
<1>3. CASE DeleteDead(o, id, reply)
  <2>1. /\ UNCHANGED loopVars /\ UNCHANGED <<deadLetters, handledOnce>>
        /\ moving[o].at = "delete" /\ Moving(o, id)
        /\ removed \subseteq removed' /\ removed' \subseteq removed \cup {id}
    BY <1>3 DEF DeleteDead
  <2>2. LoopIInv(Work)' /\ Grows /\ UNCHANGED <<group, place, todo>>
    BY <2>1, LoopStays DEF DeadLettersIInv, loopVars, Grows, LoopIInv, StreamOf
  <2>3. PICK m : /\ moving' = [moving EXCEPT ![o] = m]
                 /\ HasFields(m, {"at", "left"}) /\ m.left \subseteq Ids(deadLetters)
                 /\ m.at # "delete"
    <3>1. PICK left : left = moving[o].left \ {id}
      OBVIOUS
    <3>2. PICK m : /\ moving' = [moving EXCEPT ![o] = m]
                   /\ m = AtRest \/ m = [at |-> "publish", left |-> left]
      BY <1>3, <3>1 DEF DeleteDead
    <3>3. QED
      BY <1>1, <3>1, <3>2, OperatorFields
  <2>4. /\ IsOn(moving', Operators) /\ moving'[o] = m
        /\ \A p \in Operators : p # o => moving'[p] = moving[p]
        /\ \A p \in Operators : MovesDead(p)'
    BY <2>1, <2>3, OperatorRests
  <2>5. ASSUME NEW d, DeadAt(d) PROVE DeadAt(d)'
    <3>1. d # id
      BY <2>1, <2>5 DEF DeadAt
    <3>2. QED
      BY <2>1, <2>3, <2>4, <2>5, <3>1 DEF DeadAt, Moving, Ids
  <2>6. removed' \subseteq Ids(deadLetters)
    BY <1>1, <2>1 DEF DeadLettersIInv
  <2>7. QED
    BY <2>1, <2>2, <2>4, <2>5, <2>6, DeadOutsideInv
<1>4. QED
  BY <1>2, <1>3

(* Every step of the bus keeps the dead letters' invariant.                *)
LEMMA DeadLettersStepInv ==
    DeadLettersIInv /\ [DeadLettersNext]_<<loopVars, deadOwn>> => DeadLettersIInv'
<1> SUFFICES ASSUME DeadLettersIInv, [DeadLettersNext]_<<loopVars, deadOwn>> PROVE DeadLettersIInv'
  OBVIOUS
<1>1. CASE UNCHANGED <<loopVars, deadOwn>>
  <2>1. LoopIInv(Work)' /\ Grows /\ UNCHANGED <<group, place, todo>>
    BY <1>1, LoopStays DEF DeadLettersIInv, loopVars, Grows, LoopIInv, StreamOf
  <2>2. UNCHANGED <<deadLetters, handledOnce, removed, moving>>
    BY <1>1 DEF deadOwn
  <2>3. /\ removed' \subseteq Ids(deadLetters) /\ IsOn(moving', Operators)
        /\ \A o \in Operators : MovesDead(o)'
    BY <2>2 DEF DeadLettersIInv, MovesDead, Ids
  <2>4. \A d : DeadAt(d) => DeadAt(d)'
    BY <2>2 DEF DeadAt, Moving, Ids
  <2>5. QED
    BY <2>1, <2>2, <2>3, <2>4, DeadOutsideInv
<1>2. ASSUME NEW payload \in Payloads, NEW tries \in {0, MaxTries}, PublishWork(payload, tries)
      PROVE  DeadLettersIInv'
  BY <1>2, DeadReadsInv
<1>3. ASSUME NEW w \in Workers, ConsumeWithRetry(w) PROVE DeadLettersIInv'
  <2>1. ASSUME NEW reply \in Replies, Consume(w, reply), UNCHANGED deadOwn PROVE DeadLettersIInv'
    BY <2>1, DeadConsumesInv
  <2>2. ASSUME NEW id \in todo[w], HandleWork(w, id) \/ HandlerRaises(w, id) PROVE DeadLettersIInv'
    BY <2>2, DeadHandlesInv
  <2>3. ASSUME NEW id \in todo[w], NEW reply \in Replies,
               AckWork(w, id, reply) \/ AckMoved(w, id, reply)
        PROVE  DeadLettersIInv'
    BY <2>3, DeadAcksInv
  <2>4. ASSUME NEW id \in todo[w], NEW reply \in Replies, MoveWork(w, id, reply)
        PROVE  DeadLettersIInv'
    BY <2>4, DeadMovesInv
  <2>5. QED
    BY <1>3, <2>1, <2>2, <2>3, <2>4 DEF ConsumeWithRetry
<1>4. ASSUME NEW w \in Workers, CrashConsumer(w) PROVE DeadLettersIInv'
  BY <1>4, DeadHandlesInv
<1>5. ASSUME NEW o \in Operators, ReprocessDlq(o) PROVE DeadLettersIInv'
  <2>1. CASE ReadDead(o) \/ CrashOperator(o)
    BY <2>1, DeadReadsInv
  <2>2. ASSUME NEW id \in moving[o].left, NEW reply \in Replies,
               Republish(o, id, reply) \/ DeleteDead(o, id, reply)
        PROVE  DeadLettersIInv'
    BY <2>2, DeadReturnsInv
  <2>3. QED
    BY <1>5, <2>1, <2>2 DEF ReprocessDlq
<1>6. QED
  BY <1>1, <1>2, <1>3, <1>4, <1>5 DEF DeadLettersNext

(* Nothing is on the streams at first.                                     *)
LEMMA DeadLettersInitInv == DeadLettersInit => DeadLettersIInv
<1> SUFFICES ASSUME DeadLettersInit PROVE DeadLettersIInv
  OBVIOUS
<1>1. LoopIInv(Work) /\ stream.log = << >> /\ \A w \in Workers : todo[w] = {}
  BY LoopInitInv DEF DeadLettersInit, LoopInit, EmptyStream
<1>2. deadLetters \in StreamOf(Payloads) /\ removed = {} /\ IsOn(moving, Operators)
  BY DEF DeadLettersInit, EmptyStream, StreamOf, IsOn
<1>3. \A o \in Operators : MovesDead(o)
  BY DEF DeadLettersInit, MovesDead, AtRest, HasFields
<1>4. Ids(stream) = {}
  BY <1>1 DEF Ids
<1>5. QED
  BY <1>1, <1>2, <1>3, <1>4 DEF DeadLettersIInv, HandledFirst

(* What was published is handled once, or still on the stream or among the *)
(* dead letters, or was trimmed, for any number of consumers, operators,   *)
(* messages and lost replies, and wherever one of them dies.               *)
THEOREM TheBusLosesNothing == DeadLettersSpec => []NothingVanishes
<1>1. QED
  BY DeadLettersInitInv, DeadLettersStepInv, KeptIsNotLost, PTL DEF DeadLettersSpec

-----------------------------------------------------------------------------
(* The notification service.                                               *)

(* A mention the replica has been given and has not counted.               *)
Waiting(w, id) == place[w] = "handle" \/ \E other \in todo[w] : other < id

(* A counter holds mentions that were delivered, each in one replica and   *)
(* once, and none that still waits.                                        *)
Counting ==
    /\ IsOn(counters, Workers)
    /\ \A w \in Workers : \A c \in counters[w] : c.id \in 1 .. group.last
    /\ \A v, w \in Workers : \A c \in counters[v], d \in counters[w] :
          c.id = d.id => v = w /\ c = d
    /\ \A v, w \in Workers : \A id \in todo[w] :
          Waiting(w, id) => \A c \in counters[v] : c.id # id

OfProject(project) == {id \in 1 .. group.last : EntryAt(id).project = project}

Logged(rule, id) == \E a \in alertLog : a.rule = rule /\ a.id = id

Logging ==
    /\ \A n \in notified : Logged(n[1], n[2])
    /\ \A a \in alertLog : a.recent \in Nat
    /\ \A a \in alertLog : a.recent <= Cardinality(OfProject(a.rule.project))

(* What is being sent is in the log.                                       *)
Sending ==
    /\ IsOn(alerting, Workers)
    /\ \A w \in Workers : \A id \in todo[w], rule \in alerting[w] :
          At(w, "send", id) => Logged(rule, id)

NotificationIInv ==
    /\ LoopIInv(AnalyzedMentions)
    /\ Counting
    /\ Logging
    /\ Sending

(* Of a project there are never fewer mentions than before.                *)
LEMMA OfProjectGrows ==
    ASSUME LoopIInv(AnalyzedMentions), Grows, group'.last \in Nat, group.last <= group'.last,
           NEW p
    PROVE  /\ IsFiniteSet(OfProject(p)) /\ IsFiniteSet(OfProject(p)')
           /\ Cardinality(OfProject(p)) \in Nat /\ Cardinality(OfProject(p)') \in Nat
           /\ Cardinality(OfProject(p)) <= Cardinality(OfProject(p)')
<1>1. group.last \in Nat /\ group.last <= Len(stream.log) /\ Len(stream.log) \in Nat
  BY DEF LoopIInv, Group, StreamOf
<1>2. IsFiniteSet(1 .. group.last) /\ IsFiniteSet(1 .. group'.last)
  <2>1. group.last \in Int /\ group'.last \in Int /\ 1 \in Int
    BY <1>1
  <2>2. \A n \in Int : IsFiniteSet(1 .. n)
    BY <2>1, FS_Interval
  <2>3. QED
    BY <2>1, <2>2
<1>3. OfProject(p) \subseteq 1 .. group.last /\ OfProject(p)' \subseteq 1 .. group'.last
  BY DEF OfProject
<1>4. IsFiniteSet(OfProject(p)) /\ IsFiniteSet(OfProject(p)')
  BY <1>2, <1>3, FS_Subset
<1>5. OfProject(p) \subseteq OfProject(p)'
  <2>1. \A id \in 1 .. group.last : id \in 1 .. group'.last /\ EntryAt(id)' = EntryAt(id)
    BY <1>1 DEF Grows, EntryAt
  <2>2. QED
    BY <2>1 DEF OfProject
<1>6. QED
  BY <1>4, <1>5, FS_Subset, FS_CardinalityType

(* A replica moves, counts nothing, and lets nothing wait that did not.    *)
LEMMA CountingMoves ==
    ASSUME LoopIInv(AnalyzedMentions), Counting, NEW w \in Workers, Moves(w),
           group'.last \in Nat, group.last <= group'.last,
           IsOn(counters', Workers), \A v \in Workers : counters'[v] \subseteq counters[v],
           \A id \in todo'[w] :
              Waiting(w, id)' => (id \in todo[w] /\ Waiting(w, id)) \/ id > group.last
    PROVE  Counting'
<1>1. group.last \in Nat
  BY DEF LoopIInv, Group
<1>2. \A v \in Workers : \A c \in counters'[v] : c.id \in 1 .. group'.last
  BY <1>1 DEF Counting
<1>3. \A u, v \in Workers : \A c \in counters'[u], d \in counters'[v] :
         c.id = d.id => u = v /\ c = d
  BY DEF Counting
<1>4. ASSUME NEW u \in Workers, NEW v \in Workers, NEW id \in todo'[v], Waiting(v, id)',
             NEW c \in counters'[u]
      PROVE  c.id # id
  <2>1. c \in counters[u] /\ c.id \in 1 .. group.last
    BY DEF Counting
  <2>2. (id \in todo[v] /\ Waiting(v, id)) \/ id > group.last
    <3>1. CASE v = w
      BY <1>4, <3>1
    <3>2. CASE v # w
      BY <1>4, <3>2 DEF Moves, Waiting
    <3>3. QED
      BY <3>1, <3>2
  <2>3. CASE id \in todo[v] /\ Waiting(v, id)
    BY <2>1, <2>3 DEF Counting
  <2>4. CASE id > group.last
    BY <1>1, <2>1, <2>4
  <2>5. QED
    BY <2>2, <2>3, <2>4
<1>5. QED
  BY <1>2, <1>3, <1>4 DEF Counting

(* The log of the alerts stays as justified as it was.                     *)
LEMMA LoggingStays ==
    ASSUME LoopIInv(AnalyzedMentions), Logging, Grows, group'.last \in Nat,
           group.last <= group'.last, notified' = notified, alertLog' = alertLog
    PROVE  Logging'
<1>1. \A rule, id : Logged(rule, id)' <=> Logged(rule, id)
  BY DEF Logged
<1>2. ASSUME NEW a \in alertLog PROVE a.recent <= Cardinality(OfProject(a.rule.project)')
  <2>1. PICK p : p = a.rule.project
    OBVIOUS
  <2>2. a.recent <= Cardinality(OfProject(p)) /\ a.recent \in Nat
    BY <2>1 DEF Logging
  <2>3. /\ Cardinality(OfProject(p)) \in Nat /\ Cardinality(OfProject(p)') \in Nat
        /\ Cardinality(OfProject(p)) <= Cardinality(OfProject(p)')
    BY OfProjectGrows
  <2>4. a.recent <= Cardinality(OfProject(p)')
    BY <2>2, <2>3
  <2>5. QED
    BY <2>1, <2>4
<1>3. \A n \in notified : Logged(n[1], n[2])'
  BY <1>1 DEF Logging
<1>4. \A a \in alertLog' : a.recent <= Cardinality(OfProject(a.rule.project)')
  BY <1>2
<1>5. \A a \in alertLog' : a.recent \in Nat
  BY DEF Logging
<1>6. QED
  BY <1>3, <1>4, <1>5 DEF Logging

(* A replica that is sending nothing afterwards.                           *)
LEMMA SendingMoves ==
    ASSUME Sending, NEW w \in Workers, Moves(w), alertLog \subseteq alertLog',
           IsOn(alerting', Workers), \A v \in Workers : v # w => alerting'[v] = alerting[v],
           alerting'[w] = {} \/ place'[w] # "send"
    PROVE  Sending'
<1>1. ASSUME NEW v \in Workers, NEW id \in todo'[v], NEW rule \in alerting'[v],
             At(v, "send", id)'
      PROVE  Logged(rule, id)'
  <2>1. v # w
    BY <1>1 DEF At
  <2>2. Logged(rule, id)
    BY <1>1, <2>1 DEF Sending, At, Moves
  <2>3. QED
    BY <2>2 DEF Logged
<1>2. QED
  BY <1>1 DEF Sending

(* A step in the handling of the entry at hand that counts nothing and     *)
(* logs nothing.                                                           *)
LEMMA NotifyQuietInv ==
    ASSUME NotificationIInv, NEW w \in Workers, NEW id \in todo[w],
           \A other \in todo[w] : id <= other, GoesOn(w, id),
           \/ todo'[w] = todo[w] /\ place'[w] \notin {"handle", "send"}
           \/ todo'[w] = {}
           \/ todo'[w] = todo[w] \ {id} /\ place'[w] # "send",
           UNCHANGED <<counters, alertLog, notified, alerting>>
    PROVE  NotificationIInv'
<1>1. id \in Nat /\ todo[w] \subseteq Nat
  BY DEF NotificationIInv, LoopIInv
<1>2. LoopIInv(AnalyzedMentions)'
  BY <1>1, GoesOnInv DEF NotificationIInv
<1>3. /\ Moves(w) /\ stream' = stream /\ group'.last = group.last
      /\ group.last \in Nat
  BY DEF GoesOn, XAck, NotificationIInv, LoopIInv, Group
<1>4. Grows
  BY <1>3 DEF Grows, NotificationIInv, LoopIInv, StreamOf
<1>5. ASSUME NEW x \in todo'[w], Waiting(w, x)' PROVE x \in todo[w] /\ Waiting(w, x)
  <2>1. CASE todo'[w] = todo[w] /\ place'[w] \notin {"handle", "send"}
    BY <1>5, <2>1 DEF Waiting
  <2>2. CASE todo'[w] = todo[w] \ {id}
    BY <1>1, <2>2 DEF Waiting
  <2>3. QED
    BY <1>5, <2>1, <2>2
<1>6. Counting'
  <2>1. IsOn(counters', Workers) /\ \A v \in Workers : counters'[v] \subseteq counters[v]
    BY DEF NotificationIInv, Counting
  <2>2. QED
    BY <1>3, <1>5, <2>1, CountingMoves DEF NotificationIInv
<1>7. Logging'
  BY <1>3, <1>4, LoggingStays DEF NotificationIInv
<1>8. Sending'
  <2>1. CASE todo'[w] = {}
    <3>1. ASSUME NEW v \in Workers, NEW x \in todo'[v], NEW rule \in alerting'[v],
                 At(v, "send", x)'
          PROVE  Logged(rule, x)'
      <4>1. v # w
        BY <2>1, <3>1
      <4>2. QED
        BY <1>3, <3>1, <4>1 DEF NotificationIInv, Sending, At, Moves, Logged
    <3>2. QED
      BY <3>1 DEF NotificationIInv, Sending
  <2>2. CASE place'[w] # "send"
    <3>1. IsOn(alerting', Workers)
      BY DEF NotificationIInv, Sending
    <3>2. QED
      BY <1>3, <2>2, <3>1, SendingMoves DEF NotificationIInv
  <2>3. QED
    BY <2>1, <2>2
<1>9. QED
  BY <1>2, <1>6, <1>7, <1>8 DEF NotificationIInv

(* A step inside the handler, and the end of an entry.                     *)
LEMMA NotifyStepInv ==
    ASSUME NotificationIInv, NEW w \in Workers, NEW here, NEW id \in todo[w], At(w, here, id),
           UNCHANGED <<counters, alertLog, notified, alerting>>
    PROVE  /\ \A where : Step(w, where) /\ where \notin {"idle", "handle", "send"}
                             => NotificationIInv'
           /\ Finished(w, id) /\ stream' = stream /\ group' \in {group, XAck(group, id)}
                 => NotificationIInv'
           /\ \A reply : Acknowledge(w, id, reply) => NotificationIInv'
<1>1. (\A other \in todo[w] : id <= other) /\ LoopIInv(AnalyzedMentions)
  BY DEF At, NotificationIInv
<1>2. ASSUME NEW where, Step(w, where), where \notin {"idle", "handle", "send"}
      PROVE  NotificationIInv'
  <2>1. GoesOn(w, id) /\ todo'[w] = todo[w] /\ place'[w] = where
    BY <1>1, <1>2, StepMoves
  <2>2. QED
    BY <1>1, <1>2, <2>1, NotifyQuietInv
<1>3. ASSUME Finished(w, id), stream' = stream, group' \in {group, XAck(group, id)}
      PROVE  NotificationIInv'
  <2>1. GoesOn(w, id) /\ todo'[w] = todo[w] \ {id} /\ place'[w] \in {"idle", "handle"}
    BY <1>1, <1>3, FinishedMoves
  <2>2. QED
    BY <1>1, <2>1, NotifyQuietInv
<1>4. ASSUME NEW reply, Acknowledge(w, id, reply) PROVE NotificationIInv'
  <2>1. /\ GoesOn(w, id) /\ place'[w] \in {"idle", "handle"}
        /\ todo'[w] = {} \/ todo'[w] = todo[w] \ {id}
    BY <1>1, <1>4, AcknowledgeMoves
  <2>2. QED
    BY <1>1, <2>1, NotifyQuietInv
<1>5. QED
  BY <1>2, <1>3, <1>4

(* The except clause.                                                      *)
LEMMA ExceptInv ==
    ASSUME NotificationIInv, NEW w \in Workers, NEW here, NEW id \in todo[w], At(w, here, id),
           UNCHANGED <<counters, alertLog, notified, alerting>>, NEW transient,
           Except(w, id, transient)
    PROVE  NotificationIInv'
<1>1. CASE Finished(w, id) /\ UNCHANGED <<stream, group>>
  BY <1>1, NotifyStepInv
<1>2. CASE Step(w, "dlq")
  BY <1>2, NotifyStepInv
<1>3. QED
  BY <1>1, <1>2 DEF Except, Step

(* What the handler does besides counting, logging and sending.            *)
LEMMA NotifyHandlerInv ==
    ASSUME NotificationIInv, NEW w \in Workers, NEW id \in todo[w], NEW reply,
           \/ RefuseAnalyzed(w, id)
           \/ LoadRules(w, id, reply)
           \/ \E rule \in rulesLeft[w] : PassRule(w, id, rule, reply)
           \/ AckEvaluated(w, id, reply)
           \/ MoveAnalyzed(w, id, reply)
           \/ MoveAnalyzedAck(w, id, reply)
           \/ AckUnmoved(w, id, reply)
    PROVE  NotificationIInv'
<1>1. CASE RefuseAnalyzed(w, id)
  BY <1>1, ExceptInv DEF RefuseAnalyzed
<1>2. CASE LoadRules(w, id, reply)
  <2>1. CASE Except(w, id, TRUE)
    BY <1>2, <2>1, ExceptInv DEF LoadRules
  <2>2. CASE Step(w, "rules")
    BY <1>2, <2>2, NotifyStepInv DEF LoadRules
  <2>3. QED
    BY <1>2, <2>1, <2>2 DEF LoadRules
<1>3. ASSUME NEW rule \in rulesLeft[w], PassRule(w, id, rule, reply) PROVE NotificationIInv'
  <2>1. CASE Except(w, id, TRUE)
    BY <1>3, <2>1, ExceptInv DEF PassRule
  <2>2. CASE Step(w, "rules")
    BY <1>3, <2>2, NotifyStepInv DEF PassRule
  <2>3. QED
    BY <1>3, <2>1, <2>2 DEF PassRule
<1>4. CASE AckEvaluated(w, id, reply)
  BY <1>4, NotifyStepInv DEF AckEvaluated
<1>5. CASE MoveAnalyzed(w, id, reply)
  <2>1. At(w, "dlq", id) /\ UNCHANGED <<counters, alertLog, notified, alerting>>
    BY <1>5 DEF MoveAnalyzed
  <2>2. CASE Step(w, "last_resort") \/ Step(w, "dlq_ack")
    BY <2>1, <2>2, NotifyStepInv
  <2>3. CASE Finished(w, id) /\ UNCHANGED <<stream, group>>
    BY <2>1, <2>3, NotifyStepInv
  <2>4. QED
    BY <1>5, <2>2, <2>3 DEF MoveAnalyzed
<1>6. CASE MoveAnalyzedAck(w, id, reply)
  <2>1. /\ At(w, "dlq_ack", id) /\ UNCHANGED <<counters, alertLog, notified, alerting>>
        /\ stream' = stream /\ group' \in {group, XAck(group, id)}
    BY <1>6 DEF MoveAnalyzedAck
  <2>2. CASE Finished(w, id)
    BY <2>1, <2>2, NotifyStepInv
  <2>3. CASE Goto(w, "last_resort") /\ UNCHANGED todo
    <3>1. /\ GoesOn(w, id) /\ place'[w] = "last_resort" /\ todo'[w] = todo[w]
      BY <2>1, <2>3 DEF Goto, GoesOn, Moves, IsOn, NotificationIInv, LoopIInv
    <3>2. \A other \in todo[w] : id <= other
      BY <2>1 DEF At
    <3>3. QED
      BY <2>1, <3>1, <3>2, NotifyQuietInv
  <2>4. QED
    BY <1>6, <2>2, <2>3 DEF MoveAnalyzedAck
<1>7. CASE AckUnmoved(w, id, reply)
  BY <1>7, NotifyStepInv DEF AckUnmoved
<1>8. QED
  BY <1>1, <1>2, <1>3, <1>4, <1>5, <1>6, <1>7

(* A mention is counted once, by the replica that was given it.            *)
LEMMA CountMentionInv ==
    ASSUME NotificationIInv, NEW w \in Workers, NEW id \in todo[w], CountMention(w, id)
    PROVE  NotificationIInv'
<1>1. /\ At(w, "handle", id) /\ Step(w, "load")
      /\ UNCHANGED <<alertLog, notified, alerting>>
  BY DEF CountMention
<1>2. /\ id \in Nat /\ GoesOn(w, id) /\ UNCHANGED <<stream, group, todo>> /\ place'[w] = "load"
  BY <1>1, StepMoves DEF NotificationIInv
<1>3. LoopIInv(AnalyzedMentions)' /\ Moves(w)
  BY <1>2, GoesOnInv DEF NotificationIInv, GoesOn
<1>4. Grows /\ group'.last = group.last /\ group.last \in Nat
  BY <1>2 DEF Grows, NotificationIInv, LoopIInv, StreamOf, Group
<1>5. Logging'
  BY <1>1, <1>4, LoggingStays DEF NotificationIInv
<1>6. Sending'
  BY <1>1, <1>2, <1>3, SendingMoves DEF NotificationIInv, Sending
<1>7. PICK new : new = [id |-> id, at |-> clock]
  OBVIOUS
<1>8. new.id = id
  BY <1>7
<1>9. /\ IsOn(counters', Workers) /\ counters'[w] \subseteq counters[w] \cup {new}
      /\ \A v \in Workers : v # w => counters'[v] = counters[v]
  BY <1>7 DEF CountMention, NotificationIInv, Counting, IsOn
<1>10. \A v \in Workers : \A c \in counters[v] : c.id # id
  BY <1>1 DEF NotificationIInv, Counting, Waiting, At
<1>11. id \in 1 .. group.last
  BY DEF NotificationIInv, LoopIInv
<1>12. \A v \in Workers : \A c \in counters'[v] : c \in counters[v] \/ (v = w /\ c = new)
  BY <1>9
<1>13. \A v \in Workers : \A c \in counters'[v] : c.id \in 1 .. group'.last
  BY <1>4, <1>8, <1>11, <1>12 DEF NotificationIInv, Counting
<1>14. ASSUME NEW u \in Workers, NEW v \in Workers, NEW c \in counters'[u], NEW d \in counters'[v],
              c.id = d.id
       PROVE  u = v /\ c = d
  <2>1. CASE c \in counters[u] /\ d \in counters[v]
    BY <1>14, <2>1 DEF NotificationIInv, Counting
  <2>2. CASE u = w /\ c = new /\ v = w /\ d = new
    BY <2>2
  <2>3. CASE c \in counters[u] /\ d = new
    BY <1>8, <1>10, <1>14, <2>3
  <2>4. CASE c = new /\ d \in counters[v]
    BY <1>8, <1>10, <1>14, <2>4
  <2>5. QED
    BY <1>12, <2>1, <2>2, <2>3, <2>4
<1>15. ASSUME NEW u \in Workers, NEW v \in Workers, NEW x \in todo'[v], Waiting(v, x)',
              NEW c \in counters'[u]
       PROVE  c.id # x
  <2>1. x \in todo[v] /\ Waiting(v, x)
    <3>1. CASE v = w
      BY <1>2, <1>15, <3>1 DEF Waiting
    <3>2. CASE v # w
      BY <1>3, <1>15, <3>2 DEF Waiting, Moves
    <3>3. QED
      BY <3>1, <3>2
  <2>2. x # id
    <3>1. CASE v = w
      <4>1. \E other \in todo[w] : other < x
        BY <1>2, <1>15, <3>1 DEF Waiting
      <4>2. (\A other \in todo[w] : id <= other) /\ todo[w] \subseteq Nat
        BY <1>1 DEF At, NotificationIInv, LoopIInv
      <4>3. QED
        BY <4>1, <4>2
    <3>2. CASE v # w
      BY <2>1, <3>2 DEF NotificationIInv, LoopIInv
    <3>3. QED
      BY <3>1, <3>2
  <2>3. CASE c \in counters[u]
    BY <2>1, <2>3 DEF NotificationIInv, Counting
  <2>4. CASE c = new
    BY <1>8, <2>2, <2>4
  <2>5. QED
    BY <1>12, <2>3, <2>4
<1>16. Counting'
  BY <1>9, <1>13, <1>14, <1>15 DEF Counting
<1>17. QED
  BY <1>3, <1>5, <1>6, <1>16 DEF NotificationIInv

(* What an alert's text counts are different mentions of the project.      *)
LEMMA RecentCounts ==
    ASSUME NotificationIInv, NEW w \in Workers, NEW rule, NEW id
    PROVE  /\ Cardinality(Recent(w, rule, id)) \in Nat
           /\ Cardinality(Recent(w, rule, id)) <= Cardinality(OfProject(rule.project))
<1>1. PICK S : S = Recent(w, rule, id)
  OBVIOUS
<1>2. PICK T : T = OfProject(rule.project)
  OBVIOUS
<1>3. group.last \in Nat
  BY DEF NotificationIInv, LoopIInv, Group
<1>4. IsFiniteSet(T)
  <2>1. group.last \in Int /\ 1 \in Int
    BY <1>3
  <2>2. IsFiniteSet(1 .. group.last)
    BY <2>1, FS_Interval
  <2>3. T \subseteq 1 .. group.last
    BY <1>2 DEF OfProject
  <2>4. QED
    BY <2>2, <2>3, FS_Subset
<1>5. \A c \in S : c.id \in T
  BY <1>1, <1>2 DEF Recent, OfProject, NotificationIInv, Counting
<1>6. \A c, d \in S : c.id = d.id => c = d
  BY <1>1 DEF Recent, NotificationIInv, Counting
<1>7. PICK f : f = [c \in S |-> c.id]
  OBVIOUS
<1>8. f \in Injection(S, T)
  BY <1>5, <1>6, <1>7 DEF Injection, IsInjective
<1>9. IsFiniteSet(S) /\ Cardinality(S) <= Cardinality(T)
  BY <1>4, <1>8, FS_Injection
<1>10. QED
  BY <1>1, <1>2, <1>9, FS_CardinalityType

(* An alert is logged before it is sent.                                   *)
LEMMA LogAlertInv ==
    ASSUME NotificationIInv, NEW w \in Workers, NEW id \in todo[w], NEW rule \in rulesLeft[w],
           NEW reply \in Replies, LogAlert(w, id, rule, reply)
    PROVE  NotificationIInv'
<1>1. At(w, "rules", id) /\ UNCHANGED <<counters, notified>>
  BY DEF LogAlert
<1>2. PICK new : new = [rule |-> rule, id |-> id, recent |-> Cardinality(Recent(w, rule, id))]
  OBVIOUS
<1>3. /\ new.rule = rule /\ new.id = id /\ new.recent \in Nat
      /\ new.recent <= Cardinality(OfProject(rule.project))
  BY <1>2, RecentCounts
<1>4. /\ alertLog' \subseteq alertLog \cup {new} /\ alertLog \subseteq alertLog'
      /\ Applied(reply) => new \in alertLog'
  BY <1>2 DEF LogAlert, Alert
<1>5. Logging /\ \A a \in alertLog' : a \in alertLog \/ a = new
  BY <1>4 DEF NotificationIInv
<1>6. /\ LoopIInv(AnalyzedMentions) /\ id \in Nat
      /\ \A other \in todo[w] : id <= other
  BY <1>1 DEF NotificationIInv, LoopIInv, At
<1>7. /\ GoesOn(w, id) /\ UNCHANGED <<stream, group>>
      /\ \/ /\ todo' = todo /\ place'[w] = "send" /\ Applied(reply)
            /\ alerting' = [alerting EXCEPT ![w] = {rule}]
         \/ /\ place'[w] \in {"idle", "handle"} /\ todo'[w] = todo[w] \ {id}
            /\ alerting' = alerting
  <2>1. CASE Raised(reply)
    <3>1. Finished(w, id) /\ UNCHANGED <<stream, group>> /\ alerting' = alerting
      BY <2>1 DEF LogAlert, Except
    <3>2. QED
      BY <1>6, <3>1, FinishedMoves
  <2>2. CASE ~Raised(reply)
    <3>1. Step(w, "send") /\ alerting' = [alerting EXCEPT ![w] = {rule}]
      BY <2>2 DEF LogAlert
    <3>2. Applied(reply)
      BY <2>2 DEF Applied, Raised
    <3>3. GoesOn(w, id) /\ UNCHANGED <<stream, group, todo>> /\ place'[w] = "send"
      BY <1>6, <3>1, StepMoves
    <3>4. QED
      BY <3>1, <3>2, <3>3
  <2>3. QED
    BY <2>1, <2>2
<1>8. LoopIInv(AnalyzedMentions)' /\ Moves(w)
  BY <1>6, <1>7, GoesOnInv DEF GoesOn
<1>9. /\ \A p : OfProject(p)' = OfProject(p)
      /\ \A r, i : Logged(r, i) => Logged(r, i)'
  BY <1>4, <1>7 DEF OfProject, EntryAt, Logged
<1>10. Logging'
  <2>1. ASSUME NEW a \in alertLog'
        PROVE  a.recent \in Nat /\ a.recent <= Cardinality(OfProject(a.rule.project))
    <3>1. CASE a \in alertLog
      BY <1>5, <3>1 DEF Logging
    <3>2. CASE a = new
      BY <1>3, <3>2
    <3>3. QED
      BY <1>5, <2>1, <3>1, <3>2
  <2>2. \A n \in notified' : Logged(n[1], n[2])'
    BY <1>1, <1>5, <1>9 DEF Logging
  <2>3. \A a \in alertLog' : a.recent <= Cardinality(OfProject(a.rule.project)')
    BY <1>9, <2>1
  <2>4. QED
    BY <2>1, <2>2, <2>3 DEF Logging
<1>11. Counting'
  <2>1. IsOn(counters', Workers) /\ \A v \in Workers : counters'[v] \subseteq counters[v]
    BY <1>1 DEF NotificationIInv, Counting
  <2>2. group'.last \in Nat /\ group.last <= group'.last
    BY <1>7 DEF NotificationIInv, LoopIInv, Group
  <2>3. \A x \in todo'[w] : Waiting(w, x)' => x \in todo[w] /\ Waiting(w, x)
    <3>1. CASE todo' = todo /\ place'[w] = "send"
      BY <3>1 DEF Waiting
    <3>2. CASE todo'[w] = todo[w] \ {id}
      <4>1. todo[w] \subseteq Nat
        BY DEF NotificationIInv, LoopIInv
      <4>2. QED
        BY <1>6, <3>2, <4>1 DEF Waiting
    <3>3. QED
      BY <1>7, <3>1, <3>2
  <2>4. Counting /\ LoopIInv(AnalyzedMentions)
    BY DEF NotificationIInv
  <2>5. QED
    BY <1>8, <2>1, <2>2, <2>3, <2>4, CountingMoves
<1>12. Sending'
  <2>1. IsOn(alerting, Workers)
    BY DEF NotificationIInv, Sending
  <2>2. CASE alerting' = alerting /\ place'[w] \in {"idle", "handle"}
    BY <1>4, <1>8, <2>1, <2>2, SendingMoves DEF NotificationIInv
  <2>3. CASE /\ todo' = todo /\ place'[w] = "send" /\ Applied(reply)
             /\ alerting' = [alerting EXCEPT ![w] = {rule}]
    <3>1. /\ IsOn(alerting', Workers) /\ alerting'[w] = {rule}
          /\ \A v \in Workers : v # w => alerting'[v] = alerting[v]
      BY <2>1, <2>3 DEF IsOn
    <3>2. ASSUME NEW v \in Workers, NEW x \in todo'[v], NEW r \in alerting'[v], At(v, "send", x)'
          PROVE  Logged(r, x)'
      <4>1. CASE v = w
        <5>1. r = rule /\ x = id
          <6>1. x <= id /\ id <= x /\ x \in Nat
            BY <1>6, <2>3, <3>2, <4>1 DEF At, NotificationIInv, LoopIInv
          <6>2. QED
            BY <1>6, <3>1, <3>2, <4>1, <6>1
        <5>2. QED
          BY <1>3, <1>4, <2>3, <5>1 DEF Logged
      <4>2. CASE v # w
        <5>1. Logged(r, x)
          BY <1>8, <3>1, <3>2, <4>2 DEF NotificationIInv, Sending, At, Moves
        <5>2. QED
          BY <1>9, <5>1
      <4>3. QED
        BY <4>1, <4>2
    <3>3. QED
      BY <3>1, <3>2 DEF Sending
  <2>4. QED
    BY <1>7, <2>2, <2>3
<1>13. QED
  BY <1>8, <1>10, <1>11, <1>12 DEF NotificationIInv

(* What is sent was logged.                                                *)
LEMMA SendNotificationsInv ==
    ASSUME NotificationIInv, NEW w \in Workers, NEW id \in todo[w], NEW rule \in alerting[w],
           SendNotifications(w, id, rule)
    PROVE  NotificationIInv'
<1>1. /\ At(w, "send", id) /\ Step(w, "rules") /\ UNCHANGED <<counters, alertLog>>
      /\ notified' \subseteq notified \cup {<<rule, id>>}
      /\ alerting' = [alerting EXCEPT ![w] = {}]
  BY DEF SendNotifications
<1>2. /\ id \in Nat /\ GoesOn(w, id) /\ UNCHANGED <<stream, group, todo>> /\ place'[w] = "rules"
  BY <1>1, StepMoves DEF NotificationIInv
<1>3. LoopIInv(AnalyzedMentions)' /\ Moves(w)
  BY <1>2, GoesOnInv DEF NotificationIInv, GoesOn
<1>4. Logged(rule, id)
  BY <1>1 DEF NotificationIInv, Sending
<1>5. \A r, i : Logged(r, i)' <=> Logged(r, i)
  BY <1>1 DEF Logged
<1>6. Logging'
  <2>1. ASSUME NEW n \in notified' PROVE Logged(n[1], n[2])
    <3>1. CASE n \in notified
      BY <3>1 DEF NotificationIInv, Logging
    <3>2. CASE n = <<rule, id>>
      BY <1>4, <3>2
    <3>3. QED
      BY <1>1, <2>1, <3>1, <3>2
  <2>2. \A p : OfProject(p)' = OfProject(p)
    BY <1>2 DEF OfProject, EntryAt
  <2>3. \A n \in notified' : Logged(n[1], n[2])'
    BY <1>5, <2>1
  <2>4. \A a \in alertLog' : a.recent <= Cardinality(OfProject(a.rule.project)')
    BY <1>1, <2>2 DEF NotificationIInv, Logging
  <2>5. QED
    BY <1>1, <2>3, <2>4 DEF NotificationIInv, Logging
<1>7. Sending'
  <2>1. /\ IsOn(alerting', Workers) /\ alerting'[w] = {}
        /\ \A v \in Workers : v # w => alerting'[v] = alerting[v]
    BY <1>1 DEF NotificationIInv, Sending, IsOn
  <2>2. QED
    BY <1>1, <1>3, <2>1, SendingMoves DEF NotificationIInv
<1>8. Counting'
  <2>1. IsOn(counters', Workers) /\ \A v \in Workers : counters'[v] \subseteq counters[v]
    BY <1>1 DEF NotificationIInv, Counting
  <2>2. group'.last \in Nat /\ group.last <= group'.last
    BY <1>2 DEF NotificationIInv, LoopIInv, Group
  <2>3. \A x \in todo'[w] : Waiting(w, x)' => x \in todo[w] /\ Waiting(w, x)
    BY <1>2 DEF Waiting
  <2>4. Counting /\ LoopIInv(AnalyzedMentions)
    BY DEF NotificationIInv
  <2>5. QED
    BY <1>3, <2>1, <2>2, <2>3, <2>4, CountingMoves
<1>9. QED
  BY <1>3, <1>6, <1>7, <1>8 DEF NotificationIInv

(* A mention arrives, time passes, a batch is read, a replica crashes.     *)
LEMMA NotifyLoopInv ==
    ASSUME NotificationIInv,
           \/ \E mention \in AnalyzedMentions : AddAnalyzed(mention)
           \/ UNCHANGED <<loopVars, counters, alertLog, notified, alerting>>
           \/ \E w \in Workers, reply \in Replies :
                 Consume(w, reply) /\ UNCHANGED <<counters, alertLog, notified, alerting>>
           \/ \E w \in Workers : CrashNotification(w)
    PROVE  NotificationIInv'
<1>1. LoopIInv(AnalyzedMentions) /\ Counting /\ Logging /\ Sending /\ group.last \in Nat
  BY DEF NotificationIInv, LoopIInv, Group
<1>2. ASSUME LoopIInv(AnalyzedMentions)', Grows,
             UNCHANGED <<group, place, todo, counters, alertLog, notified, alerting>>
      PROVE  NotificationIInv'
  <2>1. Counting'
    BY <1>1, <1>2 DEF Counting, Waiting
  <2>2. Sending'
    BY <1>1, <1>2 DEF Sending, At, Logged
  <2>3. Logging'
    BY <1>1, <1>2, LoggingStays
  <2>4. QED
    BY <1>2, <2>1, <2>2, <2>3 DEF NotificationIInv
<1>3. ASSUME NEW mention \in AnalyzedMentions, AddAnalyzed(mention) PROVE NotificationIInv'
  <2>1. LoopIInv(AnalyzedMentions)' /\ Grows /\ UNCHANGED <<group, place, todo>>
    BY <1>1, <1>3, AddGrows DEF AddAnalyzed
  <2>2. QED
    BY <1>2, <1>3, <2>1 DEF AddAnalyzed
<1>4. ASSUME UNCHANGED <<loopVars, counters, alertLog, notified, alerting>> PROVE NotificationIInv'
  <2>1. LoopIInv(AnalyzedMentions)' /\ Grows /\ UNCHANGED <<group, place, todo>>
    BY <1>1, <1>4, LoopStays DEF loopVars, Grows, LoopIInv, StreamOf
  <2>2. QED
    BY <1>2, <1>4, <2>1
<1>5. ASSUME NEW w \in Workers, NEW reply \in Replies, Consume(w, reply),
             UNCHANGED <<counters, alertLog, notified, alerting>>
      PROVE  NotificationIInv'
  <2>1. /\ LoopIInv(AnalyzedMentions)' /\ Moves(w) /\ stream' = stream
        /\ group'.last >= group.last /\ place'[w] \in {"idle", "handle"}
        /\ \A x \in todo'[w] : x > group.last
    BY <1>1, <1>5, ConsumeMoves
  <2>2. group'.last \in Nat /\ group.last <= group'.last
    BY <1>1, <2>1 DEF LoopIInv, Group
  <2>3. Grows
    BY <1>1, <2>1 DEF Grows, LoopIInv, StreamOf
  <2>4. Logging'
    BY <1>1, <1>5, <2>2, <2>3, LoggingStays
  <2>5. IsOn(counters', Workers) /\ IsOn(alerting', Workers)
        /\ \A v \in Workers : counters'[v] \subseteq counters[v]
    BY <1>1, <1>5 DEF Counting, Sending
  <2>6. Counting'
    BY <1>1, <2>1, <2>2, <2>5, CountingMoves
  <2>7. Sending'
    BY <1>1, <1>5, <2>1, <2>5, SendingMoves
  <2>8. QED
    BY <2>1, <2>4, <2>6, <2>7 DEF NotificationIInv
<1>6. ASSUME NEW w \in Workers, CrashNotification(w) PROVE NotificationIInv'
  <2>1. /\ GoesOn(w, 1) /\ todo'[w] = {} /\ place'[w] = "idle" /\ UNCHANGED <<stream, group>>
    BY <1>1, <1>6, CrashMoves DEF CrashNotification
  <2>2. LoopIInv(AnalyzedMentions)' /\ Moves(w)
    BY <1>1, <2>1, GoesOnInv DEF GoesOn
  <2>3. Grows
    BY <1>1, <2>1 DEF Grows, LoopIInv, StreamOf
  <2>4. group'.last \in Nat /\ group.last <= group'.last
    BY <1>1, <2>1
  <2>5. Logging'
    BY <1>1, <1>6, <2>3, <2>4, LoggingStays DEF CrashNotification
  <2>6. /\ IsOn(counters', Workers) /\ IsOn(alerting', Workers)
        /\ \A v \in Workers : counters'[v] \subseteq counters[v]
        /\ \A v \in Workers : v # w => alerting'[v] = alerting[v]
    BY <1>1, <1>6 DEF CrashNotification, Counting, Sending, IsOn
  <2>7. Counting'
    BY <1>1, <2>1, <2>2, <2>4, <2>6, CountingMoves
  <2>8. Sending'
    BY <1>1, <1>6, <2>1, <2>2, <2>6, SendingMoves DEF CrashNotification
  <2>9. QED
    BY <2>2, <2>5, <2>7, <2>8 DEF NotificationIInv
<1>7. QED
  BY <1>3, <1>4, <1>5, <1>6

(* Every step of the notification service keeps its invariant.             *)
LEMMA NotificationStepInv ==
    NotificationIInv /\ [NotificationNext]_notificationVars => NotificationIInv'
<1> SUFFICES ASSUME NotificationIInv, [NotificationNext]_notificationVars PROVE NotificationIInv'
  OBVIOUS
<1>1. CASE UNCHANGED notificationVars
  BY <1>1, NotifyLoopInv DEF notificationVars
<1>2. CASE Tick
  BY <1>2, NotifyLoopInv DEF Tick
<1>3. ASSUME NEW mention \in AnalyzedMentions, AddAnalyzed(mention) PROVE NotificationIInv'
  BY <1>3, NotifyLoopInv
<1>4. ASSUME NEW w \in Workers, CrashNotification(w) PROVE NotificationIInv'
  BY <1>4, NotifyLoopInv
<1>5. ASSUME NEW w \in Workers, NotificationStep(w) PROVE NotificationIInv'
  <2>1. ASSUME NEW reply \in Replies, Consume(w, reply),
               UNCHANGED <<counters, alertLog, notified, alerting>>
        PROVE  NotificationIInv'
    BY <2>1, NotifyLoopInv
  <2>2. ASSUME NEW id \in todo[w], NEW reply \in Replies,
               \/ LoadRules(w, id, reply)
               \/ \E rule \in rulesLeft[w] : PassRule(w, id, rule, reply)
               \/ AckEvaluated(w, id, reply)
               \/ MoveAnalyzed(w, id, reply)
               \/ MoveAnalyzedAck(w, id, reply)
               \/ AckUnmoved(w, id, reply)
        PROVE  NotificationIInv'
    BY <2>2, NotifyHandlerInv
  <2>3. ASSUME NEW id \in todo[w], RefuseAnalyzed(w, id) PROVE NotificationIInv'
    BY <2>3, NotifyHandlerInv
  <2>4. ASSUME NEW id \in todo[w], NEW reply \in Replies, NEW rule \in rulesLeft[w],
               LogAlert(w, id, rule, reply)
        PROVE  NotificationIInv'
    BY <2>4, LogAlertInv
  <2>5. ASSUME NEW id \in todo[w], CountMention(w, id) PROVE NotificationIInv'
    BY <2>5, CountMentionInv
  <2>6. ASSUME NEW id \in todo[w], NEW rule \in alerting[w], SendNotifications(w, id, rule)
        PROVE  NotificationIInv'
    BY <2>6, SendNotificationsInv
  <2>7. QED
    BY <1>5, <2>1, <2>2, <2>3, <2>4, <2>5, <2>6 DEF NotificationStep
<1>6. QED
  BY <1>1, <1>2, <1>3, <1>4, <1>5 DEF NotificationNext

(* There are no mentions and no alerts at first.                           *)
LEMMA NotificationInitInv == NotificationInit => NotificationIInv
<1> SUFFICES ASSUME NotificationInit PROVE NotificationIInv
  OBVIOUS
<1>1. LoopIInv(AnalyzedMentions) /\ \A w \in Workers : todo[w] = {}
  BY LoopInitInv DEF NotificationInit, LoopInit
<1>2. IsOn(counters, Workers) /\ IsOn(alerting, Workers) /\ alertLog = {} /\ notified = {}
      /\ \A w \in Workers : counters[w] = {}
  BY DEF NotificationInit, IsOn
<1>3. QED
  BY <1>1, <1>2 DEF NotificationIInv, Counting, Logging, Sending

(* What is known of counting, logging and sending justifies the alerts.    *)
LEMMA AccountsJustifyAlerts == NotificationIInv => AlertIsJustified
<1> SUFFICES ASSUME NotificationIInv PROVE AlertIsJustified
  OBVIOUS
<1>1. \A a \in alertLog :
        a.recent <= Cardinality({id \in 1 .. group.last : EntryAt(id).project = a.rule.project})
  BY DEF NotificationIInv, Logging, OfProject
<1>2. \A n \in notified : \E a \in alertLog : a.rule = n[1] /\ a.id = n[2]
  BY DEF NotificationIInv, Logging, Logged
<1>3. QED
  BY <1>1, <1>2 DEF AlertIsJustified, NotificationIInv, Counting

(* Nobody is notified of an alert that is not in alert_logs, and what an   *)
(* alert counts are mentions delivered so far, each once and by one        *)
(* replica, for any number of replicas, rules, mentions and ticks.         *)
THEOREM AlertsAreJustified == NotificationSpec => []AlertIsJustified
<1>1. QED
  BY NotificationInitInv, AccountsJustifyAlerts, NotificationStepInv, PTL DEF NotificationSpec

-----------------------------------------------------------------------------
(* The workflows of the scheduler service.                                 *)

RowFields == {"id", "definition", "status", "executions"}

RunsIn(runs, n) == {run \in runs : run[1] = n}

(* The ids of workflows are given out once, and runs are of such ids.      *)
RowsFit ==
    /\ created \in Nat
    /\ \A a \in workflows : HasFields(a, RowFields) /\ a.id \in 1 .. created
    /\ \A a, b \in workflows : a.id = b.id => a = b
    /\ IsFiniteSet(counted)
    /\ \A run \in counted : run[1] \in 1 .. created /\ run[2] \in 1 .. group.last

(* What a replica has loaded is of such ids, each once.                    *)
LoadedFit(w) ==
    /\ \A a \in loaded[w] : a.id \in 1 .. created
    /\ \A a, b \in loaded[w] : a.id = b.id => a = b
    /\ \A a \in running[w] : a.id \in 1 .. created

Running(w, id) == At(w, "evaluate", id) \/ At(w, "execute", id) \/ At(w, "emit", id)

(* No run is counted before its time.                                      *)
NotRun(w) ==
    \A id \in todo[w] :
        /\ Waiting(w, id) => \A run \in counted : run[2] # id
        /\ Running(w, id) => \A a \in loaded[w] : <<a.id, id>> \notin counted
        /\ At(w, "execute", id) => \A a \in running[w] :
                                      /\ <<a.id, id>> \notin counted
                                      /\ \A b \in loaded[w] : b.id # a.id

WorkflowsIInv ==
    /\ LoopIInv(TriggerMentions)
    /\ RowsFit
    /\ ExecutionsAddUp
    /\ IsOn(loaded, Workers) /\ IsOn(running, Workers)
    /\ \A w \in Workers : LoadedFit(w)
    /\ \A w \in Workers : NotRun(w)

(* A replica moves and counts nothing.                                     *)
LEMMA EngineMovesInv ==
    ASSUME WorkflowsIInv, NEW w \in Workers, LoopIInv(TriggerMentions)', Moves(w),
           group'.last \in Nat, group.last <= group'.last,
           UNCHANGED <<workflows, created, counted>>,
           IsOn(loaded', Workers), IsOn(running', Workers),
           \A v \in Workers : v # w => loaded'[v] = loaded[v] /\ running'[v] = running[v],
           LoadedFit(w)', NotRun(w)'
    PROVE  WorkflowsIInv'
<1>1. RowsFit' /\ ExecutionsAddUp'
  <2>1. group.last \in Nat
    BY DEF WorkflowsIInv, LoopIInv, Group
  <2>2. QED
    BY <2>1 DEF WorkflowsIInv, RowsFit, ExecutionsAddUp
<1>2. ASSUME NEW v \in Workers, v # w PROVE LoadedFit(v)'
  BY <1>2 DEF WorkflowsIInv, LoadedFit
<1>3. ASSUME NEW v \in Workers, v # w PROVE NotRun(v)'
  BY <1>3 DEF WorkflowsIInv, NotRun, Running, Waiting, At, Moves
<1>4. QED
  BY <1>1, <1>2, <1>3 DEF WorkflowsIInv

(* A step in the handling of the entry at hand that loads nothing.         *)
LEMMA EngineQuietInv ==
    ASSUME WorkflowsIInv, NEW w \in Workers, NEW id \in todo[w],
           \A other \in todo[w] : id <= other, GoesOn(w, id),
           \/ todo'[w] = todo[w] /\ place'[w] = "finally"
           \/ todo'[w] = {}
           \/ todo'[w] = todo[w] \ {id} /\ place'[w] \in {"idle", "handle"},
           IsOn(loaded', Workers), loaded'[w] \subseteq loaded[w],
           \A v \in Workers : v # w => loaded'[v] = loaded[v],
           UNCHANGED <<workflows, created, counted, running>>
    PROVE  WorkflowsIInv'
<1>1. id \in Nat /\ todo[w] \subseteq Nat
  BY DEF WorkflowsIInv, LoopIInv
<1>2. LoopIInv(TriggerMentions)'
  BY <1>1, GoesOnInv DEF WorkflowsIInv
<1>3. Moves(w) /\ group'.last = group.last /\ group.last \in Nat
  BY DEF GoesOn, XAck, WorkflowsIInv, LoopIInv, Group
<1>4. ASSUME NEW x \in todo'[w], Waiting(w, x)' PROVE x \in todo[w] /\ Waiting(w, x)
  BY <1>1, <1>4 DEF Waiting
<1>5. \A x \in todo'[w] : ~Running(w, x)' /\ ~At(w, "execute", x)'
  BY DEF Running, At
<1>6. NotRun(w)'
  BY <1>4, <1>5 DEF NotRun, WorkflowsIInv
<1>7. LoadedFit(w)'
  BY DEF WorkflowsIInv, LoadedFit
<1>8. IsOn(running', Workers)
  BY DEF WorkflowsIInv
<1>9. QED
  BY <1>2, <1>3, <1>6, <1>7, <1>8, EngineMovesInv

(* The workflows are read, one by one evaluated, and executed.             *)
LEMMA EngineStepInv ==
    ASSUME WorkflowsIInv, NEW w \in Workers, NEW where, NEW id \in todo[w],
           Step(w, where), where # "idle", NEW here, At(w, here, id),
           IsOn(loaded', Workers), IsOn(running', Workers),
           \A v \in Workers : v # w => loaded'[v] = loaded[v] /\ running'[v] = running[v],
           UNCHANGED <<workflows, created, counted>>,
           LoadedFit(w)',
           \A a \in loaded'[w] : <<a.id, id>> \notin counted,
           where # "handle",
           where = "execute" => \A a \in running'[w] :
                                   /\ <<a.id, id>> \notin counted
                                   /\ \A b \in loaded'[w] : b.id # a.id
    PROVE  WorkflowsIInv'
<1>1. /\ id \in Nat /\ GoesOn(w, id) /\ UNCHANGED <<stream, group, todo>>
      /\ place'[w] = where
  BY StepMoves DEF WorkflowsIInv
<1>2. LoopIInv(TriggerMentions)' /\ Moves(w)
  BY <1>1, GoesOnInv DEF WorkflowsIInv, GoesOn
<1>3. group'.last = group.last /\ group.last \in Nat
  BY <1>1 DEF WorkflowsIInv, LoopIInv, Group
<1>4. \A x \in todo'[w] : Waiting(w, x)' => x \in todo[w] /\ Waiting(w, x)
  BY <1>1 DEF Waiting
<1>5. \A x \in todo'[w] : Running(w, x)' \/ At(w, "execute", x)' => x = id /\ place'[w] = where
  BY <1>1 DEF Running, At, WorkflowsIInv, LoopIInv
<1>6. \A x \in todo'[w] : At(w, "execute", x)' => where = "execute"
  BY <1>1 DEF At
<1>7. NotRun(w)'
  <2>1. ASSUME NEW x \in todo'[w], Waiting(w, x)', NEW run \in counted' PROVE run[2] # x
    BY <1>4, <2>1 DEF NotRun, WorkflowsIInv
  <2>2. ASSUME NEW x \in todo'[w], Running(w, x)', NEW a \in loaded'[w]
        PROVE  <<a.id, x>> \notin counted'
    BY <1>5, <2>2
  <2>3. ASSUME NEW x \in todo'[w], At(w, "execute", x)', NEW a \in running'[w]
        PROVE  <<a.id, x>> \notin counted' /\ \A b \in loaded'[w] : b.id # a.id
    BY <1>5, <1>6, <2>3
  <2>4. QED
    BY <2>1, <2>2, <2>3 DEF NotRun
<1>8. QED
  BY <1>2, <1>3, <1>7, EngineMovesInv

(* Passing a mention over, and acknowledging it.                           *)
LEMMA EngineEndsInv ==
    ASSUME WorkflowsIInv, NEW w \in Workers, NEW id \in todo[w], NEW reply,
           \/ PassMention(w, id)
           \/ Evaluated(w, id)
           \/ AckFinally(w, id, reply) /\ UNCHANGED <<Database, Engine>>
    PROVE  WorkflowsIInv'
<1>1. /\ UNCHANGED <<workflows, created, counted, running, loaded>>
      /\ LoopIInv(TriggerMentions) /\ id \in Nat
  BY DEF PassMention, Evaluated, Database, Engine, WorkflowsIInv, LoopIInv
<1>2. \A other \in todo[w] : id <= other
  BY DEF PassMention, Evaluated, AckFinally, At
<1>3. /\ GoesOn(w, id)
      /\ \/ todo'[w] = todo[w] /\ place'[w] = "finally"
         \/ todo'[w] = {}
         \/ todo'[w] = todo[w] \ {id} /\ place'[w] \in {"idle", "handle"}
  <2>1. CASE Step(w, "finally")
    BY <1>1, <2>1, StepMoves
  <2>2. CASE Abandon(w) /\ UNCHANGED <<stream, group>>
    BY <1>1, <2>2, AbandonMoves
  <2>3. CASE Acknowledge(w, id, reply)
    BY <1>1, <2>3, AcknowledgeMoves
  <2>4. QED
    BY <2>1, <2>2, <2>3 DEF PassMention, Evaluated, AckFinally
<1>4. IsOn(loaded', Workers) /\ loaded'[w] \subseteq loaded[w]
      /\ \A v \in Workers : v # w => loaded'[v] = loaded[v]
  BY <1>1 DEF WorkflowsIInv
<1>5. QED
  BY <1>1, <1>2, <1>3, <1>4, EngineQuietInv

(* The workflows of the project are read before any is run.                *)
LEMMA LoadWorkflowsInv ==
    ASSUME WorkflowsIInv, NEW w \in Workers, NEW id \in todo[w], NEW reply,
           LoadWorkflows(w, id, reply)
    PROVE  WorkflowsIInv'
<1>1. /\ At(w, "handle", id) /\ UNCHANGED <<workflows, created, counted, running>>
      /\ LoopIInv(TriggerMentions) /\ id \in Nat
  BY DEF LoadWorkflows, Database, WorkflowsIInv, LoopIInv
<1>2. CASE Raised(reply)
  <2>1. Step(w, "finally") /\ loaded' = loaded
    BY <1>2 DEF LoadWorkflows
  <2>2. GoesOn(w, id) /\ todo'[w] = todo[w] /\ place'[w] = "finally"
    BY <1>1, <2>1, StepMoves
  <2>3. /\ IsOn(loaded', Workers) /\ loaded'[w] \subseteq loaded[w]
        /\ \A v \in Workers : v # w => loaded'[v] = loaded[v]
        /\ \A other \in todo[w] : id <= other
    BY <1>1, <2>1 DEF WorkflowsIInv, At
  <2>4. QED
    BY <1>1, <2>2, <2>3, EngineQuietInv
<1>3. CASE ~Raised(reply)
  <2>1. PICK S \in SUBSET workflows : loaded' = [loaded EXCEPT ![w] = S]
    BY <1>3 DEF LoadWorkflows
  <2>2. Step(w, "evaluate")
    BY <1>3 DEF LoadWorkflows
  <2>3. /\ IsOn(loaded', Workers) /\ IsOn(running', Workers) /\ loaded'[w] = S
        /\ \A v \in Workers : v # w => loaded'[v] = loaded[v] /\ running'[v] = running[v]
    BY <1>1, <2>1 DEF WorkflowsIInv, IsOn
  <2>4. LoadedFit(w)'
    BY <1>1, <2>3 DEF LoadedFit, WorkflowsIInv, RowsFit
  <2>5. \A a \in loaded'[w] : <<a.id, id>> \notin counted
    <3>1. \A run \in counted : run[2] # id
      BY <1>1 DEF WorkflowsIInv, NotRun, Waiting, At
    <3>2. QED
      BY <3>1
  <2>6. QED
    BY <1>1, <2>2, <2>3, <2>4, <2>5, EngineStepInv
<1>4. QED
  BY <1>2, <1>3

(* A workflow is evaluated, and run if it triggers.                        *)
LEMMA EvaluateTriggersInv ==
    ASSUME WorkflowsIInv, NEW w \in Workers, NEW id \in todo[w], NEW a \in loaded[w],
           EvaluateTriggers(w, id, a)
    PROVE  WorkflowsIInv'
<1>1. /\ At(w, "evaluate", id) /\ UNCHANGED <<workflows, created, counted>>
      /\ LoopIInv(TriggerMentions) /\ id \in Nat /\ LoadedFit(w)
      /\ IsOn(loaded, Workers) /\ IsOn(running, Workers)
  BY DEF EvaluateTriggers, Database, WorkflowsIInv, LoopIInv
<1>2. \A b \in loaded[w] : <<b.id, id>> \notin counted
  BY <1>1 DEF WorkflowsIInv, NotRun, Running
<1>3. PICK S \in SUBSET loaded[w], where \in {"finally", "execute", "evaluate"} :
        /\ loaded' = [loaded EXCEPT ![w] = S] /\ Step(w, where)
        /\ \/ running' = running /\ where # "execute"
           \/ running' = [running EXCEPT ![w] = {a}] /\ a \notin S
  <2>1. PICK S : S = loaded[w] \ {a}
    OBVIOUS
  <2>2. S \in SUBSET loaded[w] /\ {} \in SUBSET loaded[w] /\ a \notin S
    BY <2>1
  <2>3. \/ loaded' = [loaded EXCEPT ![w] = {}] /\ Step(w, "finally") /\ running' = running
        \/ /\ loaded' = [loaded EXCEPT ![w] = S] /\ Step(w, "execute")
           /\ running' = [running EXCEPT ![w] = {a}]
        \/ loaded' = [loaded EXCEPT ![w] = S] /\ Step(w, "evaluate") /\ running' = running
    BY <2>1 DEF EvaluateTriggers
  <2>4. QED
    BY <2>2, <2>3
<1>4. /\ IsOn(loaded', Workers) /\ IsOn(running', Workers) /\ loaded'[w] = S
      /\ \/ running'[w] = running[w] /\ where # "execute"
         \/ running'[w] = {a} /\ a \notin S
      /\ \A v \in Workers : v # w => loaded'[v] = loaded[v] /\ running'[v] = running[v]
  BY <1>1, <1>3 DEF IsOn
<1>5. LoadedFit(w)'
  BY <1>1, <1>4 DEF LoadedFit
<1>6. \A b \in loaded'[w] : <<b.id, id>> \notin counted
  BY <1>2, <1>4
<1>7. where = "execute" => \A b \in running'[w] :
                              /\ <<b.id, id>> \notin counted
                              /\ \A c \in loaded'[w] : c.id # b.id
  BY <1>1, <1>2, <1>4 DEF LoadedFit
<1>8. where # "idle" /\ where # "handle"
  BY <1>3
<1>9. QED
  BY <1>1, <1>3, <1>4, <1>5, <1>6, <1>7, <1>8, EngineStepInv

(* An action is executed, and the trigger announced.                       *)
LEMMA ExecuteInv ==
    ASSUME WorkflowsIInv, NEW w \in Workers, NEW id \in todo[w], NEW reply,
           \/ ExecuteAction(w, id, reply)
           \/ \E a \in running[w] : EmitTrigger(w, id, a, reply)
    PROVE  WorkflowsIInv'
<1>1. PICK here \in {"execute", "emit"}, where \in {"execute", "evaluate"} :
        /\ At(w, here, id) /\ Step(w, where)
        /\ UNCHANGED <<workflows, created, counted, loaded>>
        /\ \/ running' = running /\ here = "execute"
           \/ running' = [running EXCEPT ![w] = {}]
  BY DEF ExecuteAction, EmitTrigger, Database
<1>2. LoadedFit(w) /\ IsOn(loaded, Workers) /\ IsOn(running, Workers)
  BY DEF WorkflowsIInv
<1>3. /\ IsOn(loaded', Workers) /\ IsOn(running', Workers)
      /\ \A v \in Workers : v # w => loaded'[v] = loaded[v] /\ running'[v] = running[v]
      /\ \/ running'[w] = running[w] /\ here = "execute"
         \/ running'[w] = {}
  BY <1>1, <1>2 DEF IsOn
<1>4. LoadedFit(w)'
  BY <1>1, <1>2, <1>3 DEF LoadedFit
<1>5. \A a \in loaded'[w] : <<a.id, id>> \notin counted
  BY <1>1 DEF WorkflowsIInv, NotRun, Running
<1>6. \A a \in running'[w] : <<a.id, id>> \notin counted /\ \A b \in loaded'[w] : b.id # a.id
  BY <1>1, <1>3 DEF WorkflowsIInv, NotRun
<1>7. where # "idle" /\ where # "handle"
  BY <1>1
<1>8. QED
  BY <1>1, <1>3, <1>4, <1>5, <1>6, <1>7, EngineStepInv

(* Adding one to a row leaves its id.                                      *)
LEMMA RowCounted ==
    ASSUME NEW a, HasFields(a, RowFields), NEW b, b = [a EXCEPT !.executions = @ + 1]
    PROVE  HasFields(b, RowFields) /\ b.id = a.id /\ b.executions = a.executions + 1
BY DEF HasFields, RowFields

(* One run more of the workflow n, and of no other.                        *)
LEMMA RunsGrow ==
    ASSUME NEW S, IsFiniteSet(S), NEW n, NEW id, <<n, id>> \notin S, NEW m
    PROVE  /\ Cardinality(RunsIn(S, m)) \in Nat
           /\ m = n => Cardinality(RunsIn(S \cup {<<n, id>>}, m)) = Cardinality(RunsIn(S, m)) + 1
           /\ m # n => Cardinality(RunsIn(S \cup {<<n, id>>}, m)) = Cardinality(RunsIn(S, m))
<1>1. PICK x : x = <<n, id>>
  OBVIOUS
<1>2. x[1] = n /\ x \notin RunsIn(S, m)
  BY <1>1 DEF RunsIn
<1>3. IsFiniteSet(RunsIn(S, m))
  BY FS_Subset DEF RunsIn
<1>4. m = n => RunsIn(S \cup {x}, m) = RunsIn(S, m) \cup {x}
  BY <1>2 DEF RunsIn
<1>5. m # n => RunsIn(S \cup {x}, m) = RunsIn(S, m)
  BY <1>2 DEF RunsIn
<1>6. /\ Cardinality(RunsIn(S, m)) \in Nat
      /\ Cardinality(RunsIn(S, m) \cup {x}) = Cardinality(RunsIn(S, m)) + 1
  BY <1>2, <1>3, FS_AddElement, FS_CardinalityType
<1>7. QED
  BY <1>1, <1>4, <1>5, <1>6

(* The UPDATE counts the run, whatever has become of the row meanwhile.    *)
LEMMA CountExecutionInv ==
    ASSUME WorkflowsIInv, NEW w \in Workers, NEW id \in todo[w], NEW a \in running[w],
           NEW reply, CountExecution(w, id, a, reply)
    PROVE  WorkflowsIInv'
<1>1. /\ At(w, "execute", id) /\ Step(w, "emit") /\ UNCHANGED <<created, loaded, running>>
      /\ LoopIInv(TriggerMentions) /\ IsOn(loaded, Workers) /\ IsOn(running, Workers)
  BY DEF CountExecution, WorkflowsIInv
<1>2. PICK n \in 1 .. created : n = a.id
  BY DEF WorkflowsIInv, LoadedFit
<1>3. <<n, id>> \notin counted /\ \A b \in loaded[w] : b.id # n
  BY <1>1, <1>2 DEF WorkflowsIInv, NotRun
<1>4. /\ id \in Nat /\ GoesOn(w, id) /\ UNCHANGED <<stream, group, todo>>
      /\ place'[w] = "emit"
  BY <1>1, StepMoves
<1>5. LoopIInv(TriggerMentions)' /\ Moves(w)
  BY <1>1, <1>4, GoesOnInv DEF GoesOn
<1>6. counted' \subseteq counted \cup {<<n, id>>}
  BY <1>2 DEF CountExecution
<1>7. \A v \in Workers : LoadedFit(v)'
  BY <1>1 DEF WorkflowsIInv, LoadedFit
<1>8. ASSUME NEW v \in Workers PROVE NotRun(v)'
  <2>1. CASE v = w
    <3>1. \A other \in todo[w] : id <= other /\ id \in Nat /\ other \in Nat
      BY <1>1 DEF At, LoopIInv
    <3>2. ASSUME NEW x \in todo'[w], Waiting(w, x)', NEW run \in counted' PROVE run[2] # x
      <4>1. x \in todo[w] /\ Waiting(w, x) /\ x # id
        BY <1>4, <3>1, <3>2 DEF Waiting
      <4>2. CASE run \in counted
        BY <4>1, <4>2 DEF WorkflowsIInv, NotRun
      <4>3. CASE run = <<n, id>>
        BY <4>1, <4>3
      <4>4. QED
        BY <1>6, <3>2, <4>2, <4>3
    <3>3. ASSUME NEW x \in todo'[w], Running(w, x)', NEW b \in loaded'[w]
          PROVE  <<b.id, x>> \notin counted'
      <4>1. x = id
        <5>1. x \in todo[w] /\ \A other \in todo[w] : x <= other
          BY <1>4, <3>3 DEF Running, At
        <5>2. QED
          BY <3>1, <5>1
      <4>2. <<b.id, id>> \notin counted /\ b.id # n
        BY <1>1, <1>3, <3>3 DEF WorkflowsIInv, NotRun, Running
      <4>3. QED
        BY <1>6, <4>1, <4>2
    <3>4. \A x \in todo'[w] : ~At(w, "execute", x)'
      BY <1>4 DEF At
    <3>5. QED
      BY <2>1, <3>2, <3>3, <3>4 DEF NotRun
  <2>2. CASE v # w
    <3>1. id \notin todo[v] /\ todo'[v] = todo[v] /\ place'[v] = place[v]
      BY <1>1, <1>5, <2>2 DEF LoopIInv, Moves
    <3>2. \A run \in counted' : run \in counted \/ (run = <<n, id>> /\ run[2] = id)
      BY <1>6
    <3>3. \A x \in todo[v] : \A m : <<m, x>> \in counted' => <<m, x>> \in counted
      BY <1>6, <3>1
    <3>4. \A x : /\ Waiting(v, x)' <=> Waiting(v, x)
                 /\ Running(v, x)' <=> Running(v, x)
                 /\ At(v, "execute", x)' <=> At(v, "execute", x)
      BY <3>1 DEF Waiting, Running, At
    <3>5. ASSUME NEW x \in todo'[v], Waiting(v, x)', NEW run \in counted' PROVE run[2] # x
      BY <3>1, <3>2, <3>4, <3>5 DEF WorkflowsIInv, NotRun
    <3>6. ASSUME NEW x \in todo'[v], Running(v, x)', NEW b \in loaded'[v]
          PROVE  <<b.id, x>> \notin counted'
      BY <1>1, <3>1, <3>3, <3>4, <3>6 DEF WorkflowsIInv, NotRun
    <3>7. ASSUME NEW x \in todo'[v], At(v, "execute", x)', NEW b \in running'[v]
          PROVE  <<b.id, x>> \notin counted' /\ \A c \in loaded'[v] : c.id # b.id
      BY <1>1, <3>1, <3>3, <3>4, <3>7 DEF WorkflowsIInv, NotRun
    <3>8. QED
      BY <3>5, <3>6, <3>7 DEF NotRun
  <2>3. QED
    BY <2>1, <2>2
<1>9. IsFiniteSet(counted) /\ \A b \in workflows : HasFields(b, RowFields) /\ b.id \in 1 .. created
  BY DEF WorkflowsIInv, RowsFit
<1>10. \A run \in counted' : run[1] \in 1 .. created' /\ run[2] \in 1 .. group'.last
  <2>1. id \in 1 .. group.last
    BY <1>1 DEF LoopIInv
  <2>2. ASSUME NEW run \in counted' PROVE run[1] \in 1 .. created /\ run[2] \in 1 .. group.last
    <3>1. CASE run \in counted
      BY <3>1 DEF WorkflowsIInv, RowsFit
    <3>2. CASE run = <<n, id>>
      BY <2>1, <3>2
    <3>3. QED
      BY <1>6, <2>2, <3>1, <3>2
  <2>3. QED
    BY <1>1, <1>4, <2>2
<1>11. CASE ~Applied(reply)
  <2>1. counted' = counted /\ workflows' = workflows
    BY <1>11 DEF CountExecution
  <2>2. RowsFit' /\ ExecutionsAddUp'
    BY <1>1, <1>10, <2>1 DEF WorkflowsIInv, RowsFit, ExecutionsAddUp
  <2>3. QED
    BY <1>1, <1>5, <1>7, <1>8, <2>2 DEF WorkflowsIInv
<1>12. CASE Applied(reply)
  <2>1. /\ counted' = counted \cup {<<n, id>>}
        /\ workflows' = {IF b.id = n THEN [b EXCEPT !.executions = @ + 1] ELSE b : b \in workflows}
    BY <1>2, <1>12 DEF CountExecution
  <2>2. ASSUME NEW c \in workflows'
        PROVE  \E b \in workflows : /\ HasFields(c, RowFields) /\ c.id = b.id
                                    /\ c = IF b.id = n THEN [b EXCEPT !.executions = @ + 1] ELSE b
                                    /\ c.executions = IF b.id = n THEN b.executions + 1
                                                      ELSE b.executions
    <3>1. PICK b \in workflows : c = IF b.id = n THEN [b EXCEPT !.executions = @ + 1] ELSE b
      BY <2>1, <2>2
    <3>2. HasFields(b, RowFields)
      BY <1>9
    <3>3. CASE b.id = n
      BY <3>1, <3>2, <3>3, RowCounted
    <3>4. CASE b.id # n
      BY <3>1, <3>2, <3>4
    <3>5. QED
      BY <3>3, <3>4
  <2>3. ExecutionsAddUp'
    <3>1. ASSUME NEW c \in workflows'
          PROVE  c.executions = Cardinality({run \in counted' : run[1] = c.id})
      <4>1. PICK b \in workflows :
               /\ c.id = b.id
               /\ c.executions = IF b.id = n THEN b.executions + 1 ELSE b.executions
        BY <2>2, <3>1
      <4>2. PICK m : m = b.id
        OBVIOUS
      <4>3. b.executions = Cardinality(RunsIn(counted, m))
        BY <4>2 DEF WorkflowsIInv, ExecutionsAddUp, RunsIn
      <4>4. PICK C : C = counted
        OBVIOUS
      <4>5. /\ Cardinality(RunsIn(C, m)) \in Nat
            /\ m = n => Cardinality(RunsIn(C \cup {<<n, id>>}, m)) = Cardinality(RunsIn(C, m)) + 1
            /\ m # n => Cardinality(RunsIn(C \cup {<<n, id>>}, m)) = Cardinality(RunsIn(C, m))
        BY <1>3, <1>9, <4>4, RunsGrow
      <4>6. counted' = C \cup {<<n, id>>}
        BY <2>1, <4>4
      <4>7. c.executions = Cardinality(RunsIn(counted', m))
        BY <4>1, <4>2, <4>3, <4>4, <4>5, <4>6
      <4>8. QED
        BY <4>1, <4>2, <4>7 DEF RunsIn
    <3>2. QED
      BY <3>1 DEF ExecutionsAddUp
  <2>4. RowsFit'
    <3>1. \A c \in workflows' : HasFields(c, RowFields) /\ c.id \in 1 .. created
      BY <1>9, <2>2
    <3>2. ASSUME NEW c \in workflows', NEW d \in workflows', c.id = d.id PROVE c = d
      <4>1. PICK b \in workflows : /\ c.id = b.id
                                   /\ c = IF b.id = n THEN [b EXCEPT !.executions = @ + 1] ELSE b
        BY <2>2
      <4>2. PICK e \in workflows : /\ d.id = e.id
                                   /\ d = IF e.id = n THEN [e EXCEPT !.executions = @ + 1] ELSE e
        BY <2>2
      <4>3. b = e
        BY <3>2, <4>1, <4>2 DEF WorkflowsIInv, RowsFit
      <4>4. QED
        BY <4>1, <4>2, <4>3
    <3>3. IsFiniteSet(counted')
      BY <1>3, <1>9, <2>1, FS_AddElement
    <3>4. created' \in Nat
      BY <1>1 DEF WorkflowsIInv, RowsFit
    <3>5. QED
      BY <1>1, <1>10, <3>1, <3>2, <3>3, <3>4 DEF RowsFit
  <2>5. QED
    BY <1>1, <1>5, <1>7, <1>8, <2>3, <2>4 DEF WorkflowsIInv
<1>13. QED
  BY <1>11, <1>12

(* The requests, while every replica stands still.                         *)
LEMMA RequestsInv ==
    ASSUME WorkflowsIInv, UNCHANGED loopVars, UNCHANGED <<counted, loaded, running>>,
           RowsFit', ExecutionsAddUp', created \in Nat, created' \in Nat, created <= created'
    PROVE  WorkflowsIInv'
<1>1. LoopIInv(TriggerMentions)'
  BY LoopStays DEF WorkflowsIInv
<1>2. \A w \in Workers : LoadedFit(w)'
  BY DEF WorkflowsIInv, LoadedFit
<1>3. \A w \in Workers : NotRun(w)'
  BY DEF WorkflowsIInv, NotRun, Running, Waiting, At, loopVars
<1>4. QED
  BY <1>1, <1>2, <1>3 DEF WorkflowsIInv

(* POST, PATCH and DELETE of a workflow.                                   *)
LEMMA WorkflowRequestsInv ==
    ASSUME WorkflowsIInv
    PROVE  /\ \A definition \in Definitions : CreateWorkflow(definition) => WorkflowsIInv'
           /\ \A a \in workflows : \A definition, status :
                 UpdateWorkflow(a, definition, status) => WorkflowsIInv'
           /\ \A a \in workflows : DeleteWorkflow(a) => WorkflowsIInv'
           /\ \A mention : StoreMention(mention) => WorkflowsIInv'
<1>1. RowsFit /\ created \in Nat
  BY DEF WorkflowsIInv, RowsFit
<1>2. ASSUME NEW definition \in Definitions, CreateWorkflow(definition) PROVE WorkflowsIInv'
  <2>1. PICK new : new = [id |-> created + 1, definition |-> definition, status |-> "active",
                          executions |-> 0]
    OBVIOUS
  <2>2. HasFields(new, RowFields) /\ new.id = created + 1 /\ new.executions = 0
    BY <2>1 DEF HasFields, RowFields
  <2>3. /\ created' = created + 1 /\ workflows' = workflows \cup {new}
        /\ UNCHANGED loopVars /\ UNCHANGED <<counted, loaded, running>>
    BY <1>2, <2>1 DEF CreateWorkflow, Engine
  <2>4. \A run \in counted : run[1] # created + 1
    BY <1>1 DEF RowsFit
  <2>5. Cardinality({run \in counted : run[1] = created + 1}) = 0
    <3>1. {run \in counted : run[1] = created + 1} = {}
      BY <2>4
    <3>2. QED
      BY <3>1, FS_EmptySet
  <2>6. ExecutionsAddUp'
    <3>1. ASSUME NEW a \in workflows'
          PROVE  a.executions = Cardinality({run \in counted : run[1] = a.id})
      <4>1. CASE a \in workflows
        BY <4>1 DEF WorkflowsIInv, ExecutionsAddUp
      <4>2. CASE a = new
        BY <2>2, <2>5, <4>2
      <4>3. QED
        BY <2>3, <3>1, <4>1, <4>2
    <3>2. QED
      BY <2>3, <3>1 DEF ExecutionsAddUp
  <2>7. RowsFit'
    <3>1. \A a \in workflows' : HasFields(a, RowFields) /\ a.id \in 1 .. created + 1
      BY <1>1, <2>2, <2>3 DEF RowsFit
    <3>2. \A a, b \in workflows' : a.id = b.id => a = b
      BY <1>1, <2>2, <2>3 DEF RowsFit
    <3>3. \A run \in counted : run[1] \in 1 .. created + 1 /\ run[2] \in 1 .. group.last
      BY <1>1 DEF RowsFit
    <3>4. IsFiniteSet(counted) /\ created + 1 \in Nat /\ group' = group
      BY <1>1, <2>3 DEF RowsFit, loopVars
    <3>5. QED
      BY <2>3, <3>1, <3>2, <3>3, <3>4 DEF RowsFit
  <2>8. QED
    BY <1>1, <2>3, <2>6, <2>7, RequestsInv
<1>3. ASSUME NEW a \in workflows, NEW definition, NEW status, UpdateWorkflow(a, definition, status)
      PROVE  WorkflowsIInv'
  <2>1. PICK new : new = [a EXCEPT !.definition = definition, !.status = status]
    OBVIOUS
  <2>2. HasFields(a, RowFields)
    BY <1>1 DEF RowsFit
  <2>3. HasFields(new, RowFields) /\ new.id = a.id /\ new.executions = a.executions
    BY <2>1, <2>2 DEF HasFields, RowFields
  <2>4. /\ workflows' = (workflows \ {a}) \cup {new}
        /\ UNCHANGED loopVars /\ UNCHANGED <<created, counted, loaded, running>>
    BY <1>3, <2>1 DEF UpdateWorkflow, Engine
  <2>5. ExecutionsAddUp'
    <3>1. ASSUME NEW b \in workflows'
          PROVE  b.executions = Cardinality({run \in counted : run[1] = b.id})
      <4>1. CASE b \in workflows
        BY <4>1 DEF WorkflowsIInv, ExecutionsAddUp
      <4>2. CASE b = new
        BY <2>3, <4>2 DEF WorkflowsIInv, ExecutionsAddUp
      <4>3. QED
        BY <2>4, <3>1, <4>1, <4>2
    <3>2. QED
      BY <2>4, <3>1 DEF ExecutionsAddUp
  <2>6. RowsFit'
    <3>1. \A b \in workflows' : HasFields(b, RowFields) /\ b.id \in 1 .. created
      BY <1>1, <2>3, <2>4 DEF RowsFit
    <3>2. \A b, c \in workflows' : b.id = c.id => b = c
      BY <1>1, <2>3, <2>4 DEF RowsFit
    <3>3. group' = group
      BY <2>4 DEF loopVars
    <3>4. QED
      BY <1>1, <2>4, <3>1, <3>2, <3>3 DEF RowsFit
  <2>7. QED
    BY <1>1, <2>4, <2>5, <2>6, RequestsInv
<1>4. ASSUME NEW S, S \subseteq workflows, workflows' = S, UNCHANGED loopVars,
             UNCHANGED <<created, counted, loaded, running>>
      PROVE  WorkflowsIInv'
  <2>1. RowsFit' /\ ExecutionsAddUp'
    BY <1>1, <1>4 DEF RowsFit, WorkflowsIInv, ExecutionsAddUp, loopVars
  <2>2. QED
    BY <1>1, <1>4, <2>1, RequestsInv
<1>5. ASSUME NEW a \in workflows, DeleteWorkflow(a) PROVE WorkflowsIInv'
  BY <1>4, <1>5 DEF DeleteWorkflow, Engine
<1>6. ASSUME NEW mention, StoreMention(mention) PROVE WorkflowsIInv'
  BY <1>4, <1>6 DEF StoreMention, Engine
<1>7. QED
  BY <1>2, <1>3, <1>5, <1>6

(* A mention, a batch, and a crash.                                        *)
LEMMA WorkflowLoopInv ==
    ASSUME WorkflowsIInv,
           \/ \E mention \in TriggerMentions : PublishMention(mention)
           \/ \E w \in Workers, reply \in Replies :
                 Consume(w, reply) /\ UNCHANGED <<Database, Engine>>
           \/ \E w \in Workers : CrashWorkflows(w)
    PROVE  WorkflowsIInv'
<1>1. LoopIInv(TriggerMentions) /\ group.last \in Nat /\ RowsFit
      /\ IsOn(loaded, Workers) /\ IsOn(running, Workers)
  BY DEF WorkflowsIInv, LoopIInv, Group
<1>2. ASSUME NEW mention \in TriggerMentions, PublishMention(mention) PROVE WorkflowsIInv'
  <2>1. LoopIInv(TriggerMentions)' /\ UNCHANGED <<group, place, todo>>
    BY <1>1, <1>2, AddGrows DEF PublishMention
  <2>2. UNCHANGED <<workflows, created, loaded, running, counted>>
    BY <1>2 DEF PublishMention, Database, Engine
  <2>3. RowsFit' /\ ExecutionsAddUp'
    BY <2>1, <2>2 DEF WorkflowsIInv, RowsFit, ExecutionsAddUp
  <2>4. \A w \in Workers : LoadedFit(w)'
    BY <2>2 DEF WorkflowsIInv, LoadedFit
  <2>5. \A w \in Workers : NotRun(w)'
    BY <2>1, <2>2 DEF WorkflowsIInv, NotRun, Running, Waiting, At
  <2>6. QED
    BY <1>1, <2>1, <2>2, <2>3, <2>4, <2>5 DEF WorkflowsIInv
<1>3. ASSUME NEW w \in Workers, NEW reply \in Replies, Consume(w, reply),
             UNCHANGED <<Database, Engine>>
      PROVE  WorkflowsIInv'
  <2>1. /\ LoopIInv(TriggerMentions)' /\ Moves(w)
        /\ group'.last >= group.last /\ place'[w] \in {"idle", "handle"}
        /\ \A x \in todo'[w] : x > group.last
    BY <1>1, <1>3, ConsumeMoves
  <2>2. UNCHANGED <<workflows, created, loaded, running, counted>>
    BY <1>3 DEF Database, Engine
  <2>3. group'.last \in Nat
    BY <2>1 DEF LoopIInv, Group
  <2>4. NotRun(w)'
    <3>1. \A x \in todo'[w] : \A run \in counted : run[2] # x
      BY <1>1, <2>1 DEF RowsFit
    <3>2. \A x \in todo'[w] : ~Running(w, x)' /\ ~At(w, "execute", x)'
      BY <2>1 DEF Running, At
    <3>3. QED
      BY <2>2, <3>1, <3>2 DEF NotRun
  <2>5. LoadedFit(w)'
    BY <2>2 DEF WorkflowsIInv, LoadedFit
  <2>6. QED
    BY <1>1, <2>1, <2>2, <2>3, <2>4, <2>5, EngineMovesInv
<1>4. ASSUME NEW w \in Workers, CrashWorkflows(w) PROVE WorkflowsIInv'
  <2>1. /\ GoesOn(w, 1) /\ todo'[w] = {} /\ UNCHANGED <<stream, group>>
    BY <1>1, <1>4, CrashMoves DEF CrashWorkflows
  <2>2. LoopIInv(TriggerMentions)' /\ Moves(w)
    BY <1>1, <2>1, GoesOnInv DEF GoesOn
  <2>3. /\ IsOn(loaded', Workers) /\ loaded'[w] = {}
        /\ IsOn(running', Workers) /\ running'[w] = {}
        /\ \A v \in Workers : v # w => loaded'[v] = loaded[v] /\ running'[v] = running[v]
        /\ UNCHANGED <<workflows, created, counted>>
    BY <1>1, <1>4 DEF CrashWorkflows, IsOn, Database
  <2>4. NotRun(w)' /\ LoadedFit(w)'
    BY <2>1, <2>3 DEF NotRun, LoadedFit
  <2>5. QED
    BY <1>1, <2>1, <2>2, <2>3, <2>4, EngineMovesInv
<1>5. QED
  BY <1>2, <1>3, <1>4

(* Every step of the scheduler service keeps its invariant.                *)
LEMMA WorkflowsStepInv == WorkflowsIInv /\ [WorkflowsNext]_workflowVars => WorkflowsIInv'
<1> SUFFICES ASSUME WorkflowsIInv, [WorkflowsNext]_workflowVars PROVE WorkflowsIInv'
  OBVIOUS
<1>1. CASE UNCHANGED workflowVars
  <2>1. UNCHANGED loopVars /\ UNCHANGED <<workflows, created, counted, loaded, running>>
    BY <1>1 DEF workflowVars
  <2>2. RowsFit' /\ ExecutionsAddUp' /\ created \in Nat
    BY <2>1 DEF WorkflowsIInv, RowsFit, ExecutionsAddUp, loopVars
  <2>3. QED
    BY <2>1, <2>2, RequestsInv
<1>2. ASSUME NEW mention \in TriggerMentions, PublishMention(mention) \/ StoreMention(mention)
      PROVE  WorkflowsIInv'
  BY <1>2, WorkflowLoopInv, WorkflowRequestsInv
<1>3. ASSUME NEW definition \in Definitions, CreateWorkflow(definition) PROVE WorkflowsIInv'
  BY <1>3, WorkflowRequestsInv
<1>4. ASSUME NEW a \in workflows,
             \/ \E definition \in Definitions, status \in {"active", "paused"} :
                   UpdateWorkflow(a, definition, status)
             \/ DeleteWorkflow(a)
      PROVE  WorkflowsIInv'
  BY <1>4, WorkflowRequestsInv
<1>5. ASSUME NEW w \in Workers, CrashWorkflows(w) PROVE WorkflowsIInv'
  BY <1>5, WorkflowLoopInv
<1>6. ASSUME NEW w \in Workers, ConsumeMentions(w) PROVE WorkflowsIInv'
  <2>1. ASSUME NEW reply \in Replies, Consume(w, reply), UNCHANGED <<Database, Engine>>
        PROVE  WorkflowsIInv'
    BY <2>1, WorkflowLoopInv
  <2>2. ASSUME NEW id \in todo[w], PassMention(w, id) \/ Evaluated(w, id) PROVE WorkflowsIInv'
    BY <2>2, EngineEndsInv
  <2>3. ASSUME NEW id \in todo[w], NEW a \in loaded[w], EvaluateTriggers(w, id, a)
        PROVE  WorkflowsIInv'
    BY <2>3, EvaluateTriggersInv
  <2>4. ASSUME NEW id \in todo[w], NEW reply \in Replies, LoadWorkflows(w, id, reply)
        PROVE  WorkflowsIInv'
    BY <2>4, LoadWorkflowsInv
  <2>5. ASSUME NEW id \in todo[w], NEW reply \in Replies,
               ExecuteAction(w, id, reply) \/ \E a \in running[w] : EmitTrigger(w, id, a, reply)
        PROVE  WorkflowsIInv'
    BY <2>5, ExecuteInv
  <2>6. ASSUME NEW id \in todo[w], NEW reply \in Replies, NEW a \in running[w],
               CountExecution(w, id, a, reply)
        PROVE  WorkflowsIInv'
    BY <2>6, CountExecutionInv
  <2>7. ASSUME NEW id \in todo[w], NEW reply \in Replies,
               AckFinally(w, id, reply) /\ UNCHANGED <<Database, Engine>>
        PROVE  WorkflowsIInv'
    BY <2>7, EngineEndsInv
  <2>8. QED
    BY <1>6, <2>1, <2>2, <2>3, <2>4, <2>5, <2>6, <2>7 DEF ConsumeMentions
<1>7. QED
  BY <1>1, <1>2, <1>3, <1>4, <1>5, <1>6 DEF WorkflowsNext

(* There are no workflows at first.                                        *)
LEMMA WorkflowsInitInv == WorkflowsInit => WorkflowsIInv
<1> SUFFICES ASSUME WorkflowsInit PROVE WorkflowsIInv
  OBVIOUS
<1>1. LoopIInv(TriggerMentions) /\ \A w \in Workers : todo[w] = {}
  BY LoopInitInv DEF WorkflowsInit, LoopInit
<1>2. /\ workflows = {} /\ created = 0 /\ counted = {} /\ IsFiniteSet({})
      /\ IsOn(loaded, Workers) /\ IsOn(running, Workers)
      /\ \A w \in Workers : loaded[w] = {} /\ running[w] = {}
  BY FS_EmptySet DEF WorkflowsInit, IsOn
<1>3. RowsFit /\ ExecutionsAddUp
  BY <1>2 DEF RowsFit, ExecutionsAddUp
<1>4. \A w \in Workers : LoadedFit(w) /\ NotRun(w)
  BY <1>1, <1>2 DEF LoadedFit, NotRun
<1>5. QED
  BY <1>1, <1>2, <1>3, <1>4 DEF WorkflowsIInv

(* A workflow's executions are the runs whose UPDATE was done, for any     *)
(* number of replicas, workflows, mentions, PATCH requests and failures.   *)
THEOREM WorkflowExecutionsAddUp == WorkflowsSpec => []ExecutionsAddUp
<1>1. WorkflowsIInv => ExecutionsAddUp
  BY DEF WorkflowsIInv
<1>2. QED
  BY WorkflowsInitInv, <1>1, WorkflowsStepInv, PTL DEF WorkflowsSpec

-----------------------------------------------------------------------------
(* The report schedules.                                                   *)

\* The tick at which the hour v begins; an operator, so that no prover has to
\* multiply.
Starts(v) == Period * v

(* Division with a remainder.                                              *)
LEMMA Remainder ==
    ASSUME NEW t \in Nat, NEW p \in Nat \ {0}
    PROVE  /\ t \div p \in Nat
           /\ t % p \in 0 .. p - 1
           /\ t = (p * (t \div p)) + (t % p)
<1>1. t % p \in 0 .. p - 1
  BY SMT
<1>2. t \div p \in Nat
  BY SMT
<1>3. t = (p * (t \div p)) + (t % p)
  BY SMT
<1>4. QED
  BY <1>1, <1>2, <1>3

(* A tick is in its hour.                                                  *)
LEMMA HoursBegin ==
    ASSUME NEW t \in Nat
    PROVE  /\ Window(t) \in Nat
           /\ Starts(Window(t)) \in Nat
           /\ t % Period \in Nat
           /\ t = Starts(Window(t)) + (t % Period)
<1>1. Period \in Nat \ {0}
  BY ReportScheduleAssumption
<1>2. PICK q : q = t \div Period
  OBVIOUS
<1>3. PICK r : r = t % Period
  OBVIOUS
<1>4. q \in Nat /\ r \in 0 .. Period - 1 /\ t = (Period * q) + r
  BY <1>1, <1>2, <1>3, Remainder
<1>5. r \in Nat /\ Period * q \in Nat
  BY <1>1, <1>4
<1>6. QED
  BY <1>2, <1>3, <1>4, <1>5 DEF Window, Starts

(* The hours are in order.                                                 *)
LEMMA HoursInOrder ==
    ASSUME NEW u \in Nat, NEW v \in Nat
    PROVE  Starts(u) \in Nat /\ (u <= v => Starts(u) <= Starts(v))
<1>1. Period \in Nat \ {0}
  BY ReportScheduleAssumption
<1>2. QED
  BY <1>1, SMTT(30) DEF Starts

(* An hour's tick that is in its window comes before the end of the window *)
(* of no earlier hour.                                                     *)
LEMMA HourIsOver ==
    ASSUME NEW t \in Nat, NEW v \in Nat, Starts(v) + WindowTicks <= t, InWindow(t)
    PROVE  v < Window(t)
<1>1. WindowTicks \in Nat
  BY ReportScheduleAssumption
<1>2. PICK q \in Nat : q = Window(t)
  BY HoursBegin
<1>3. PICK r \in Nat : r = t % Period
  BY HoursBegin
<1>4. Starts(q) \in Nat /\ t = Starts(q) + r /\ r < WindowTicks
  BY <1>2, <1>3, HoursBegin DEF InWindow
<1>5. Starts(v) \in Nat /\ (q <= v => Starts(q) <= Starts(v))
  BY HoursInOrder
<1>6. ~(q <= v)
  BY <1>1, <1>4, <1>5
<1>7. QED
  BY <1>2, <1>6

(* A loop that sleeps for a window after its round is past the round's     *)
(* hour.                                                                   *)
LEMMA SleepsThrough ==
    ASSUME NEW t \in Nat, NEW u \in Nat, NEW v \in Nat, Starts(u) <= t, v <= u
    PROVE  Starts(v) + WindowTicks <= t + WindowTicks
<1>1. Starts(v) \in Nat /\ Starts(u) \in Nat /\ Starts(v) <= Starts(u)
  BY HoursInOrder
<1>2. WindowTicks \in Nat
  BY ReportScheduleAssumption
<1>3. QED
  BY <1>1, <1>2

(* Time alone.                                                             *)
Timely(loop) ==
    /\ loop.wake \in Nat /\ loop.window \in Nat /\ loop.restarts \in Nat
    /\ loop.at # "asleep" => Starts(loop.window) <= tick

-----------------------------------------------------------------------------
(* scheduled_reports.                                                      *)

ReporterFields == {"at", "wake", "left", "window", "restarts"}

GeneratedFor(made, p, v) == {g \in made : g[2] = p /\ g[3] = v}

\* The loop is past the project's report of the hour v.
Past(p, v) ==
    IF reporter.at = "asleep"
    THEN Starts(v) + WindowTicks <= reporter.wake
    ELSE v < reporter.window \/ (v = reporter.window /\ p \notin reporter.left)

ReporterIInv ==
    /\ tick \in Nat
    /\ HasFields(reporter, ReporterFields)
    /\ Timely(reporter)
    /\ reporter.at \in {"asleep", "round"}
    /\ IsFiniteSet(generated)
    /\ \A p \in Projects, v \in Nat :
          /\ Cardinality(GeneratedFor(generated, p, v)) <= reporter.restarts + 1
          /\ ~Past(p, v) => Cardinality(GeneratedFor(generated, p, v)) <= reporter.restarts

(* The reports are finitely many.                                          *)
LEMMA ReportsAreCounted ==
    ASSUME NEW S, IsFiniteSet(S), NEW p, NEW v
    PROVE  Cardinality(GeneratedFor(S, p, v)) \in Nat
BY FS_Subset, FS_CardinalityType DEF GeneratedFor

(* One report more is at most one more for each project and hour.          *)
LEMMA OneReportMore ==
    ASSUME NEW S, IsFiniteSet(S), NEW n, NEW p, NEW v, NEW q, NEW u
    PROVE  /\ IsFiniteSet(S \cup {<<n, p, v>>})
           /\ Cardinality(GeneratedFor(S, q, u)) \in Nat
           /\ Cardinality(GeneratedFor(S \cup {<<n, p, v>>}, q, u))
                 <= Cardinality(GeneratedFor(S, q, u)) + 1
<1>1. PICK x : x = <<n, p, v>>
  OBVIOUS
<1>2. IsFiniteSet(GeneratedFor(S, q, u)) /\ IsFiniteSet(S \cup {x})
  BY FS_Subset, FS_AddElement DEF GeneratedFor
<1>3. \/ GeneratedFor(S \cup {x}, q, u) = GeneratedFor(S, q, u)
      \/ GeneratedFor(S \cup {x}, q, u) = GeneratedFor(S, q, u) \cup {x}
  BY DEF GeneratedFor
<1>4. PICK G : G = GeneratedFor(S, q, u)
  OBVIOUS
<1>5. Cardinality(G) \in Nat
  BY <1>2, <1>4, FS_CardinalityType
<1>6. Cardinality(G \cup {x}) \in {Cardinality(G), Cardinality(G) + 1}
  BY <1>2, <1>4, FS_AddElement
<1>7. Cardinality(GeneratedFor(S \cup {x}, q, u)) <= Cardinality(G) + 1
  <2>1. Cardinality(G) <= Cardinality(G) + 1 /\ Cardinality(G \cup {x}) <= Cardinality(G) + 1
    BY <1>5, <1>6
  <2>2. CASE GeneratedFor(S \cup {x}, q, u) = G
    BY <2>1, <2>2
  <2>3. CASE GeneratedFor(S \cup {x}, q, u) = G \cup {x}
    BY <2>1, <2>3
  <2>4. QED
    BY <1>3, <1>4, <2>2, <2>3
<1>8. QED
  BY <1>1, <1>2, <1>4, <1>5, <1>7

(* A step that makes no report and does not start the loop anew only has   *)
(* to keep what the loop is past.                                          *)
LEMMA ReporterGoesOn ==
    ASSUME ReporterIInv,
           tick' \in Nat, HasFields(reporter, ReporterFields)', Timely(reporter)',
           reporter'.at \in {"asleep", "round"},
           reporter'.restarts = reporter.restarts, IsFiniteSet(generated'),
           \A p, v : GeneratedFor(generated', p, v) = GeneratedFor(generated, p, v),
           \A p \in Projects, v \in Nat : Past(p, v) => Past(p, v)'
    PROVE  ReporterIInv'
<1>1. \A p \in Projects, v \in Nat :
          /\ Cardinality(GeneratedFor(generated', p, v)) <= reporter'.restarts + 1
          /\ ~Past(p, v)' => Cardinality(GeneratedFor(generated', p, v)) <= reporter'.restarts
  BY DEF ReporterIInv
<1>2. QED
  BY <1>1 DEF ReporterIInv

(* A step that starts the loop anew may make every report once more.       *)
LEMMA ReporterStartsAnew ==
    ASSUME ReporterIInv,
           tick' \in Nat, HasFields(reporter, ReporterFields)', Timely(reporter)',
           reporter'.at \in {"asleep", "round"},
           reporter'.restarts = reporter.restarts + 1, IsFiniteSet(generated'),
           \A p, v : GeneratedFor(generated', p, v) = GeneratedFor(generated, p, v)
    PROVE  ReporterIInv'
<1>1. reporter.restarts \in Nat
  BY DEF ReporterIInv, Timely
<1>2. ASSUME NEW p \in Projects, NEW v \in Nat
      PROVE  /\ Cardinality(GeneratedFor(generated', p, v)) <= reporter'.restarts + 1
             /\ Cardinality(GeneratedFor(generated', p, v)) <= reporter'.restarts
  <2>1. PICK n \in Nat : n = Cardinality(GeneratedFor(generated, p, v))
    BY ReportsAreCounted DEF ReporterIInv
  <2>2. n <= reporter.restarts + 1
    BY <2>1 DEF ReporterIInv
  <2>3. n <= reporter'.restarts + 1 /\ n <= reporter'.restarts
    BY <1>1, <2>2
  <2>4. QED
    BY <2>1, <2>3
<1>3. QED
  BY <1>2 DEF ReporterIInv

(* The loop looks at the clock, sleeps on or starts a round; a failed      *)
(* query ends the process.                                                 *)
LEMMA ReporterRoundInv ==
    ASSUME ReporterIInv, NEW reply, ReporterRound(reply)
    PROVE  ReporterIInv'
<1>1. /\ reporter.at = "asleep" /\ tick >= reporter.wake /\ tick' = tick /\ generated' = generated
      /\ tick \in Nat /\ reporter.wake \in Nat /\ reporter.window \in Nat
      /\ reporter.restarts \in Nat /\ HasFields(reporter, ReporterFields)
      /\ IsFiniteSet(generated) /\ WindowTicks \in Nat
      /\ \A v \in Nat : Starts(v) \in Nat
  BY HoursInOrder, ReportScheduleAssumption DEF ReporterRound, ReporterIInv, Timely
<1>2. \A p, v : Past(p, v) => Starts(v) + WindowTicks <= reporter.wake
  BY <1>1 DEF Past
<1>3. CASE InWindow(tick) /\ ~Raised(reply)
  <2>1. reporter' = [reporter EXCEPT !.at = "round", !.left = Projects, !.window = Window(tick)]
    BY <1>3 DEF ReporterRound
  <2>2. /\ HasFields(reporter', ReporterFields) /\ reporter'.at = "round"
        /\ reporter'.window = Window(tick) /\ reporter'.wake = reporter.wake
        /\ reporter'.restarts = reporter.restarts
    BY <1>1, <2>1 DEF HasFields, ReporterFields
  <2>3. Window(tick) \in Nat /\ Starts(Window(tick)) <= tick
    <3>1. tick \in Nat
      BY <1>1
    <3>2. QED
      BY <3>1, HoursBegin
  <2>4. Timely(reporter)'
    BY <1>1, <2>2, <2>3 DEF Timely
  <2>5. ASSUME NEW p \in Projects, NEW v \in Nat, Past(p, v)
        PROVE  Past(p, v)'
    <3>1. Starts(v) + WindowTicks <= tick
      BY <1>1, <1>2, <2>5
    <3>2. v < Window(tick)
      BY <1>1, <1>3, <3>1, HourIsOver
    <3>3. QED
      BY <2>2, <3>2 DEF Past
  <2>6. QED
    BY <1>1, <2>2, <2>4, <2>5, ReporterGoesOn
<1>4. CASE ~InWindow(tick)
  <2>1. reporter' = [reporter EXCEPT !.at = "asleep", !.wake = tick + WindowTicks, !.left = {}]
    BY <1>4 DEF ReporterRound, Asleep
  <2>2. /\ HasFields(reporter', ReporterFields) /\ reporter'.at = "asleep"
        /\ reporter'.window = reporter.window /\ reporter'.wake = tick + WindowTicks
        /\ reporter'.restarts = reporter.restarts
    BY <1>1, <2>1 DEF HasFields, ReporterFields
  <2>3. Timely(reporter)'
    BY <1>1, <2>2 DEF Timely
  <2>4. ASSUME NEW p \in Projects, NEW v \in Nat, Past(p, v)
        PROVE  Past(p, v)'
    <3>1. Starts(v) + WindowTicks <= reporter'.wake
      BY <1>1, <1>2, <2>2, <2>4
    <3>2. QED
      BY <2>2, <3>1 DEF Past
  <2>5. QED
    BY <1>1, <2>2, <2>3, <2>4, ReporterGoesOn
<1>5. CASE InWindow(tick) /\ Raised(reply)
  <2>1. reporter' = [reporter EXCEPT !.wake = tick, !.restarts = @ + 1]
    BY <1>5 DEF ReporterRound
  <2>2. /\ HasFields(reporter', ReporterFields) /\ reporter'.at = "asleep"
        /\ reporter'.window = reporter.window /\ reporter'.wake = tick
        /\ reporter'.restarts = reporter.restarts + 1
    BY <1>1, <2>1 DEF HasFields, ReporterFields
  <2>3. Timely(reporter)'
    BY <1>1, <2>2 DEF Timely
  <2>4. QED
    BY <1>1, <2>2, <2>3, ReporterStartsAnew
<1>6. QED
  BY <1>3, <1>4, <1>5

(* The report of the next project.                                         *)
LEMMA GenerateScheduledInv ==
    ASSUME ReporterIInv, NEW project \in Projects, NEW reply, GenerateScheduled(project, reply)
    PROVE  ReporterIInv'
<1>1. /\ reporter.at = "round" /\ project \in reporter.left /\ tick' = tick
      /\ tick \in Nat /\ reporter.wake \in Nat /\ reporter.window \in Nat
      /\ Starts(reporter.window) <= tick /\ reporter.restarts \in Nat
      /\ HasFields(reporter, ReporterFields) /\ IsFiniteSet(generated) /\ WindowTicks \in Nat
  BY ReportScheduleAssumption DEF GenerateScheduled, ReporterIInv, Timely
<1>2. PICK u \in Nat : u = reporter.window
  BY <1>1
<1>3. PICK k \in Nat : k = reporter.restarts
  BY <1>1
<1>4. PICK S : S = generated
  OBVIOUS
<1>5. PICK n : generated' = S \/ generated' = S \cup {<<n, project, u>>}
  BY <1>2, <1>4 DEF GenerateScheduled
<1>6. IsFiniteSet(S)
  BY <1>1, <1>4
<1>7. /\ IsFiniteSet(generated')
      /\ \A p, v : p # project \/ v # u => GeneratedFor(generated', p, v) = GeneratedFor(S, p, v)
      /\ \A p, v : Cardinality(GeneratedFor(generated', p, v)) <= Cardinality(GeneratedFor(S, p, v)) + 1
  <2>1. CASE generated' = S
    <3>1. \A p, v : Cardinality(GeneratedFor(S, p, v)) <= Cardinality(GeneratedFor(S, p, v)) + 1
      BY <1>6, ReportsAreCounted
    <3>2. QED
      BY <1>6, <2>1, <3>1
  <2>2. CASE generated' = S \cup {<<n, project, u>>}
    <3>2. IsFiniteSet(S \cup {<<n, project, u>>})
      BY <1>6, OneReportMore
    <3>3. \A p, v : p # project \/ v # u
             => GeneratedFor(S \cup {<<n, project, u>>}, p, v) = GeneratedFor(S, p, v)
      <4>1. PICK x : x = <<n, project, u>>
        OBVIOUS
      <4>2. x[2] = project /\ x[3] = u
        BY <4>1
      <4>3. \A p, v : p # project \/ v # u => GeneratedFor(S \cup {x}, p, v) = GeneratedFor(S, p, v)
        BY <4>2 DEF GeneratedFor
      <4>4. QED
        BY <4>1, <4>3
    <3>4. \A p, v : Cardinality(GeneratedFor(S \cup {<<n, project, u>>}, p, v))
             <= Cardinality(GeneratedFor(S, p, v)) + 1
      BY <1>6, OneReportMore
    <3>5. QED
      BY <2>2, <3>2, <3>3, <3>4
  <2>3. QED
    BY <1>5, <2>1, <2>2
<1>8. \A p \in Projects, v \in Nat :
          /\ Cardinality(GeneratedFor(S, p, v)) \in Nat
          /\ Cardinality(GeneratedFor(S, p, v)) <= k + 1
          /\ ~(v < u \/ (v = u /\ p \notin reporter.left))
                => Cardinality(GeneratedFor(S, p, v)) <= k
  <2>1. \A p \in Projects, v \in Nat : Cardinality(GeneratedFor(S, p, v)) \in Nat
    BY <1>6, ReportsAreCounted
  <2>2. QED
    BY <1>1, <1>2, <1>3, <1>4, <2>1 DEF ReporterIInv, Past
<1>9. ASSUME NEW p \in Projects, NEW v \in Nat
      PROVE  /\ Cardinality(GeneratedFor(generated', p, v)) <= k + 1
             /\ ~(v < u \/ (v = u /\ p \notin reporter.left \ {project}))
                   => Cardinality(GeneratedFor(generated', p, v)) <= k
  <2>1. CASE p = project /\ v = u
    <3>1. Cardinality(GeneratedFor(S, p, v)) <= k
      BY <1>1, <1>8, <2>1
    <3>2. Cardinality(GeneratedFor(generated', p, v)) <= Cardinality(GeneratedFor(S, p, v)) + 1
      BY <1>7
    <3>3. Cardinality(GeneratedFor(generated', p, v)) \in Nat /\ Cardinality(GeneratedFor(S, p, v)) \in Nat
      BY <1>6, <1>7, ReportsAreCounted
    <3>4. Cardinality(GeneratedFor(generated', p, v)) <= k + 1
      BY <3>1, <3>2, <3>3
    <3>5. QED
      BY <2>1, <3>4
  <2>2. CASE p # project \/ v # u
    <3>1. GeneratedFor(generated', p, v) = GeneratedFor(S, p, v)
      BY <1>7, <2>2
    <3>2. v = u /\ p \in reporter.left => p \in reporter.left \ {project}
      BY <2>2
    <3>3. QED
      BY <1>8, <3>1, <3>2
  <2>3. QED
    BY <2>1, <2>2
<1>10. CASE reporter.left \ {project} # {}
  <2>1. PICK left : left = reporter.left \ {project}
    OBVIOUS
  <2>2. reporter' = [reporter EXCEPT !.left = left]
    BY <1>10, <2>1 DEF GenerateScheduled
  <2>3. /\ HasFields(reporter', ReporterFields) /\ reporter'.at = "round"
        /\ reporter'.left = left /\ reporter'.window = u /\ reporter'.wake = reporter.wake
        /\ reporter'.restarts = k
    BY <1>1, <1>2, <1>3, <2>2 DEF HasFields, ReporterFields
  <2>4. Timely(reporter)'
    BY <1>1, <1>2, <1>3, <2>3 DEF Timely
  <2>5. \A p, v : Past(p, v)' <=> (v < u \/ (v = u /\ p \notin left))
    BY <2>3 DEF Past
  <2>6. tick' \in Nat /\ reporter'.at \in {"asleep", "round"}
    BY <1>1, <2>3
  <2>7. QED
    BY <1>7, <1>9, <2>1, <2>3, <2>4, <2>5, <2>6 DEF ReporterIInv
<1>11. CASE reporter.left \ {project} = {}
  <2>1. /\ HasFields(reporter', ReporterFields)
        /\ reporter'.window = u /\ reporter'.restarts = k
        /\ reporter'.at = "asleep" /\ reporter'.wake = tick + WindowTicks
    <3>1. reporter' = [reporter EXCEPT !.at = "asleep", !.wake = tick + WindowTicks, !.left = {}]
      BY <1>11 DEF GenerateScheduled, Asleep
    <3>2. HasFields(reporter', ReporterFields)
      BY <1>1, <3>1 DEF HasFields, ReporterFields
    <3>3. reporter'.window = reporter.window /\ reporter'.restarts = reporter.restarts
      BY <1>1, <3>1 DEF HasFields, ReporterFields
    <3>4. reporter'.at = "asleep" /\ reporter'.wake = tick + WindowTicks
      BY <1>1, <3>1 DEF HasFields, ReporterFields
    <3>5. QED
      BY <1>2, <1>3, <3>2, <3>3, <3>4
  <2>2. Timely(reporter)'
    BY <1>1, <1>2, <1>3, <2>1 DEF Timely
  <2>3. ASSUME NEW p \in Projects, NEW v \in Nat, v <= u PROVE Past(p, v)'
    <3>1. Starts(v) + WindowTicks <= tick + WindowTicks
      BY <1>1, <1>2, <2>3, SleepsThrough
    <3>2. QED
      BY <2>1, <2>3, <3>1 DEF Past
  <2>4. tick' \in Nat /\ reporter'.at \in {"asleep", "round"}
    BY <1>1, <2>1
  <2>5. ASSUME NEW p \in Projects, NEW v \in Nat, ~Past(p, v)'
        PROVE  Cardinality(GeneratedFor(generated', p, v)) <= k
    <3>1. ~(v <= u)
      BY <2>3, <2>5
    <3>2. ~(v < u \/ v = u)
      BY <3>1
    <3>3. QED
      BY <1>9, <3>2
  <2>6. QED
    BY <1>7, <1>9, <2>1, <2>2, <2>4, <2>5 DEF ReporterIInv
<1>12. QED
  BY <1>10, <1>11

(* The process of the report service starts anew.                          *)
LEMMA CrashReporterInv ==
    ASSUME ReporterIInv, CrashReporter
    PROVE  ReporterIInv'
<1>1. /\ tick' = tick /\ generated' = generated /\ tick \in Nat /\ reporter.window \in Nat
      /\ reporter.restarts \in Nat /\ HasFields(reporter, ReporterFields)
      /\ IsFiniteSet(generated)
  BY DEF CrashReporter, ReporterIInv, Timely
<1>2. reporter' = [reporter EXCEPT !.at = "asleep", !.wake = tick, !.left = {}, !.restarts = @ + 1]
  BY DEF CrashReporter
<1>3. HasFields(reporter', ReporterFields) /\ reporter'.at = "asleep" /\ reporter'.wake = tick
  BY <1>1, <1>2 DEF HasFields, ReporterFields
<1>4. reporter'.window = reporter.window /\ reporter'.restarts = reporter.restarts + 1
  BY <1>1, <1>2 DEF HasFields, ReporterFields
<1>5. Timely(reporter)'
  BY <1>1, <1>3, <1>4 DEF Timely
<1>6. QED
  BY <1>1, <1>3, <1>4, <1>5, ReporterStartsAnew

(* Nothing else the schedules do concerns scheduled_reports.               *)
LEMMA ReporterStaysInv ==
    ASSUME ReporterIInv, UNCHANGED <<reporter, generated>>, tick' \in {tick, tick + 1}
    PROVE  ReporterIInv'
<1>1. tick' \in Nat /\ tick <= tick'
  BY DEF ReporterIInv
<1>2. Timely(reporter)'
  <2>1. reporter.window \in Nat /\ tick \in Nat /\ Starts(reporter.window) \in Nat
    BY HoursInOrder DEF ReporterIInv, Timely
  <2>2. QED
    BY <1>1, <2>1 DEF ReporterIInv, Timely
<1>3. \A p, v : Past(p, v)' <=> Past(p, v)
  BY DEF Past
<1>4. QED
  BY <1>1, <1>2, <1>3 DEF ReporterIInv

-----------------------------------------------------------------------------
(* report_scheduler_loop.                                                  *)

SchedulerFields == {"at", "wake", "left", "custom", "size", "window", "restarts"}

DefaultFor(made, p, v) == {r \in made : r[2] = p /\ r[3] = "default" /\ r[4] = v}

\* The loop is past the project's default request for the hour v.
Requested(p, v) ==
    IF scheduler.at = "asleep" THEN Starts(v) + WindowTicks <= scheduler.wake
    ELSE IF scheduler.at = "default"
    THEN v < scheduler.window \/ (v = scheduler.window /\ p \notin scheduler.left)
    ELSE v <= scheduler.window

SchedulerIInv ==
    /\ tick \in Nat
    /\ HasFields(scheduler, SchedulerFields)
    /\ Timely(scheduler)
    /\ scheduler.at \in {"asleep", "default", "custom"}
    /\ IsFiniteSet(requested)
    /\ \A p \in Projects, v \in Nat :
          /\ Cardinality(DefaultFor(requested, p, v)) <= scheduler.restarts + 1
          /\ ~Requested(p, v) => Cardinality(DefaultFor(requested, p, v)) <= scheduler.restarts

(* The requests are finitely many.                                         *)
LEMMA DefaultsAreCounted ==
    ASSUME NEW S, IsFiniteSet(S), NEW p, NEW v
    PROVE  Cardinality(DefaultFor(S, p, v)) \in Nat
BY FS_Subset, FS_CardinalityType DEF DefaultFor

(* One request more is at most one more for each project and hour.         *)
LEMMA OneRequestMore ==
    ASSUME NEW S, IsFiniteSet(S), NEW n, NEW p, NEW by, NEW v
    PROVE  /\ IsFiniteSet(S \cup {<<n, p, by, v>>})
           /\ \A q, u : Cardinality(DefaultFor(S \cup {<<n, p, by, v>>}, q, u))
                 <= Cardinality(DefaultFor(S, q, u)) + 1
<1>1. PICK x : x = <<n, p, by, v>>
  OBVIOUS
<1>2. IsFiniteSet(S \cup {x})
  BY FS_AddElement
<1>3. ASSUME NEW q, NEW u
      PROVE  Cardinality(DefaultFor(S \cup {x}, q, u)) <= Cardinality(DefaultFor(S, q, u)) + 1
  <2>1. DefaultFor(S \cup {x}, q, u) = DefaultFor(S, q, u)
        \/ DefaultFor(S \cup {x}, q, u) = DefaultFor(S, q, u) \cup {x}
    BY DEF DefaultFor
  <2>2. PICK G : G = DefaultFor(S, q, u)
    OBVIOUS
  <2>3. IsFiniteSet(G)
    BY <2>2, FS_Subset DEF DefaultFor
  <2>4. Cardinality(G) \in Nat /\ Cardinality(G \cup {x}) \in {Cardinality(G), Cardinality(G) + 1}
    BY <2>3, FS_AddElement, FS_CardinalityType
  <2>5. Cardinality(G) <= Cardinality(G) + 1 /\ Cardinality(G \cup {x}) <= Cardinality(G) + 1
    BY <2>4
  <2>6. CASE DefaultFor(S \cup {x}, q, u) = G
    BY <2>2, <2>5, <2>6
  <2>7. CASE DefaultFor(S \cup {x}, q, u) = G \cup {x}
    BY <2>2, <2>5, <2>7
  <2>8. QED
    BY <2>1, <2>2, <2>6, <2>7
<1>4. QED
  BY <1>1, <1>2, <1>3

(* A step that requests no default report and does not start the loop anew *)
(* only has to keep what the loop is past.                                 *)
LEMMA SchedulerGoesOn ==
    ASSUME SchedulerIInv,
           tick' \in Nat, HasFields(scheduler, SchedulerFields)', Timely(scheduler)',
           scheduler'.at \in {"asleep", "default", "custom"},
           scheduler'.restarts = scheduler.restarts, IsFiniteSet(requested'),
           \A p, v : DefaultFor(requested', p, v) = DefaultFor(requested, p, v),
           \A p \in Projects, v \in Nat : Requested(p, v) => Requested(p, v)'
    PROVE  SchedulerIInv'
<1>1. \A p \in Projects, v \in Nat :
          /\ Cardinality(DefaultFor(requested', p, v)) <= scheduler'.restarts + 1
          /\ ~Requested(p, v)' => Cardinality(DefaultFor(requested', p, v)) <= scheduler'.restarts
  BY DEF SchedulerIInv
<1>2. QED
  BY <1>1 DEF SchedulerIInv

(* A step that starts the loop anew may request everything once more.      *)
LEMMA SchedulerStartsAnew ==
    ASSUME SchedulerIInv,
           tick' \in Nat, HasFields(scheduler, SchedulerFields)', Timely(scheduler)',
           scheduler'.at \in {"asleep", "default", "custom"},
           scheduler'.restarts = scheduler.restarts + 1, IsFiniteSet(requested'),
           \A p, v : DefaultFor(requested', p, v) = DefaultFor(requested, p, v)
    PROVE  SchedulerIInv'
<1>1. scheduler.restarts \in Nat
  BY DEF SchedulerIInv, Timely
<1>2. ASSUME NEW p \in Projects, NEW v \in Nat
      PROVE  /\ Cardinality(DefaultFor(requested', p, v)) <= scheduler'.restarts + 1
             /\ Cardinality(DefaultFor(requested', p, v)) <= scheduler'.restarts
  <2>1. PICK n \in Nat : n = Cardinality(DefaultFor(requested, p, v))
    BY DefaultsAreCounted DEF SchedulerIInv
  <2>2. n <= scheduler.restarts + 1
    BY <2>1 DEF SchedulerIInv
  <2>3. n <= scheduler'.restarts + 1 /\ n <= scheduler'.restarts
    BY <1>1, <2>2
  <2>4. QED
    BY <2>1, <2>3
<1>3. QED
  BY <1>2 DEF SchedulerIInv

(* The loop looks at the clock.                                            *)
LEMMA SchedulerRoundInv ==
    ASSUME SchedulerIInv, NEW reply, SchedulerRound(reply)
    PROVE  SchedulerIInv'
<1>1. /\ scheduler.at = "asleep" /\ tick >= scheduler.wake /\ tick' = tick /\ requested' = requested
      /\ tick \in Nat /\ scheduler.wake \in Nat /\ scheduler.window \in Nat
      /\ scheduler.restarts \in Nat /\ HasFields(scheduler, SchedulerFields)
      /\ IsFiniteSet(requested) /\ WindowTicks \in Nat /\ RetryTicks \in Nat
      /\ \A v \in Nat : Starts(v) \in Nat
  BY HoursInOrder, ReportScheduleAssumption DEF SchedulerRound, SchedulerIInv, Timely
<1>2. \A p, v : Requested(p, v) => Starts(v) + WindowTicks <= scheduler.wake
  BY <1>1 DEF Requested
<1>3. CASE InWindow(tick) /\ ~Raised(reply)
  <2>1. scheduler' = [scheduler EXCEPT !.at = "default", !.window = Window(tick), !.left = Projects]
    BY <1>3 DEF SchedulerRound
  <2>2. /\ HasFields(scheduler', SchedulerFields) /\ scheduler'.at = "default"
        /\ scheduler'.window = Window(tick) /\ scheduler'.wake = scheduler.wake
        /\ scheduler'.restarts = scheduler.restarts
    BY <1>1, <2>1 DEF HasFields, SchedulerFields
  <2>3. Window(tick) \in Nat /\ Starts(Window(tick)) <= tick
    BY <1>1, HoursBegin
  <2>4. Timely(scheduler)'
    BY <1>1, <2>2, <2>3 DEF Timely
  <2>5. ASSUME NEW p \in Projects, NEW v \in Nat, Requested(p, v)
        PROVE  Requested(p, v)'
    <3>1. Starts(v) + WindowTicks <= tick
      BY <1>1, <1>2, <2>5
    <3>2. v < Window(tick)
      BY <1>1, <1>3, <3>1, HourIsOver
    <3>3. QED
      BY <2>2, <3>2 DEF Requested
  <2>6. QED
    BY <1>1, <2>2, <2>4, <2>5, SchedulerGoesOn
<1>4. CASE ~InWindow(tick) \/ Raised(reply)
  <2>1. PICK w \in {tick + WindowTicks, tick + RetryTicks} :
           \/ scheduler' = [scheduler EXCEPT !.wake = w]
           \/ scheduler' = [scheduler EXCEPT !.at = "asleep", !.wake = w, !.left = {}]
    BY <1>4 DEF SchedulerRound, Asleep
  <2>2. w \in Nat /\ scheduler.wake <= w
    BY <1>1
  <2>3. /\ HasFields(scheduler', SchedulerFields) /\ scheduler'.at = "asleep"
        /\ scheduler'.window = scheduler.window /\ scheduler'.wake = w
        /\ scheduler'.restarts = scheduler.restarts
    BY <1>1, <2>1 DEF HasFields, SchedulerFields
  <2>4. Timely(scheduler)'
    BY <1>1, <2>2, <2>3 DEF Timely
  <2>5. ASSUME NEW p \in Projects, NEW v \in Nat, Requested(p, v)
        PROVE  Requested(p, v)'
    <3>1. Starts(v) + WindowTicks <= w
      BY <1>1, <1>2, <2>2, <2>5
    <3>2. QED
      BY <2>3, <3>1 DEF Requested
  <2>6. QED
    BY <1>1, <2>3, <2>4, <2>5, SchedulerGoesOn
<1>5. QED
  BY <1>3, <1>4

(* The request of the next project.                                        *)
LEMMA RequestDefaultInv ==
    ASSUME SchedulerIInv, NEW project \in Projects, NEW reply, RequestDefault(project, reply)
    PROVE  SchedulerIInv'
<1>1. /\ scheduler.at = "default" /\ project \in scheduler.left /\ tick' = tick
      /\ tick \in Nat /\ scheduler.wake \in Nat /\ scheduler.window \in Nat
      /\ Starts(scheduler.window) <= tick /\ scheduler.restarts \in Nat
      /\ HasFields(scheduler, SchedulerFields) /\ IsFiniteSet(requested) /\ WindowTicks \in Nat
  BY ReportScheduleAssumption DEF RequestDefault, SchedulerIInv, Timely
<1>2. PICK u \in Nat : u = scheduler.window
  BY <1>1
<1>3. PICK k \in Nat : k = scheduler.restarts
  BY <1>1
<1>4. PICK S : S = requested
  OBVIOUS
<1>5. PICK n : requested' = S \/ requested' = S \cup {<<n, project, "default", u>>}
  BY <1>2, <1>4 DEF RequestDefault, PublishDue
<1>6. IsFiniteSet(S)
  BY <1>1, <1>4
<1>7. /\ IsFiniteSet(requested')
      /\ \A p, v : p # project \/ v # u => DefaultFor(requested', p, v) = DefaultFor(S, p, v)
      /\ \A p, v : Cardinality(DefaultFor(requested', p, v)) <= Cardinality(DefaultFor(S, p, v)) + 1
  <2>1. CASE requested' = S
    <3>1. \A p, v : Cardinality(DefaultFor(S, p, v)) <= Cardinality(DefaultFor(S, p, v)) + 1
      BY <1>6, DefaultsAreCounted
    <3>2. QED
      BY <1>6, <2>1, <3>1
  <2>2. CASE requested' = S \cup {<<n, project, "default", u>>}
    <3>1. PICK by : by = "default"
      OBVIOUS
    <3>2. IsFiniteSet(S \cup {<<n, project, by, u>>})
      BY <1>6, OneRequestMore
    <3>3. \A p, v : p # project \/ v # u
             => DefaultFor(S \cup {<<n, project, by, u>>}, p, v) = DefaultFor(S, p, v)
      <4>1. PICK x : x = <<n, project, by, u>>
        OBVIOUS
      <4>2. x[2] = project /\ x[4] = u
        BY <4>1
      <4>3. \A p, v : p # project \/ v # u => DefaultFor(S \cup {x}, p, v) = DefaultFor(S, p, v)
        BY <4>2 DEF DefaultFor
      <4>4. QED
        BY <4>1, <4>3
    <3>4. \A p, v : Cardinality(DefaultFor(S \cup {<<n, project, by, u>>}, p, v))
             <= Cardinality(DefaultFor(S, p, v)) + 1
      BY <1>6, OneRequestMore
    <3>5. QED
      BY <2>2, <3>1, <3>2, <3>3, <3>4
  <2>3. QED
    BY <1>5, <2>1, <2>2
<1>8. \A p \in Projects, v \in Nat :
          /\ Cardinality(DefaultFor(S, p, v)) \in Nat
          /\ Cardinality(DefaultFor(S, p, v)) <= k + 1
          /\ ~(v < u \/ (v = u /\ p \notin scheduler.left))
                => Cardinality(DefaultFor(S, p, v)) <= k
  <2>1. \A p \in Projects, v \in Nat : Cardinality(DefaultFor(S, p, v)) \in Nat
    BY <1>6, DefaultsAreCounted
  <2>2. QED
    BY <1>1, <1>2, <1>3, <1>4, <2>1 DEF SchedulerIInv, Requested
<1>9. ASSUME NEW p \in Projects, NEW v \in Nat
      PROVE  /\ Cardinality(DefaultFor(requested', p, v)) <= k + 1
             /\ ~(v < u \/ (v = u /\ p \notin scheduler.left \ {project}))
                   => Cardinality(DefaultFor(requested', p, v)) <= k
  <2>1. CASE p = project /\ v = u
    <3>1. Cardinality(DefaultFor(S, p, v)) <= k
      BY <1>1, <1>8, <2>1
    <3>2. Cardinality(DefaultFor(requested', p, v)) <= Cardinality(DefaultFor(S, p, v)) + 1
      BY <1>7
    <3>3. Cardinality(DefaultFor(requested', p, v)) \in Nat /\ Cardinality(DefaultFor(S, p, v)) \in Nat
      BY <1>6, <1>7, DefaultsAreCounted
    <3>4. Cardinality(DefaultFor(requested', p, v)) <= k + 1
      BY <3>1, <3>2, <3>3
    <3>5. QED
      BY <2>1, <3>4
  <2>2. CASE p # project \/ v # u
    <3>1. DefaultFor(requested', p, v) = DefaultFor(S, p, v)
      BY <1>7, <2>2
    <3>2. v = u /\ p \in scheduler.left => p \in scheduler.left \ {project}
      BY <2>2
    <3>3. QED
      BY <1>8, <3>1, <3>2
  <2>3. QED
    BY <2>1, <2>2
<1>10. CASE scheduler.left \ {project} # {}
  <2>1. PICK left : left = scheduler.left \ {project}
    OBVIOUS
  <2>2. scheduler' = [scheduler EXCEPT !.left = left]
    BY <1>10, <2>1 DEF RequestDefault
  <2>3. /\ HasFields(scheduler', SchedulerFields) /\ scheduler'.at = "default"
        /\ scheduler'.left = left /\ scheduler'.window = u /\ scheduler'.wake = scheduler.wake
        /\ scheduler'.restarts = k
    BY <1>1, <1>2, <1>3, <2>2 DEF HasFields, SchedulerFields
  <2>4. Timely(scheduler)'
    BY <1>1, <1>2, <1>3, <2>3 DEF Timely
  <2>5. \A p, v : Requested(p, v)' <=> (v < u \/ (v = u /\ p \notin left))
    BY <2>3 DEF Requested
  <2>6. tick' \in Nat /\ scheduler'.at \in {"asleep", "default", "custom"}
    BY <1>1, <2>3
  <2>7. QED
    BY <1>7, <1>9, <2>1, <2>3, <2>4, <2>5, <2>6 DEF SchedulerIInv
<1>11. CASE scheduler.left \ {project} = {}
  <2>1. /\ HasFields(scheduler', SchedulerFields)
        /\ scheduler'.window = u /\ scheduler'.wake \in Nat /\ scheduler'.restarts = k
        /\ \/ scheduler'.at = "asleep" /\ scheduler'.wake = tick + WindowTicks
           \/ scheduler'.at = "custom"
    <3>1. CASE schedules = << >>
      <4>1. scheduler' = [scheduler EXCEPT !.at = "asleep", !.wake = tick + WindowTicks, !.left = {}]
        BY <1>11, <3>1 DEF RequestDefault, IntoCustom, Asleep
      <4>2. /\ HasFields(scheduler', SchedulerFields) /\ scheduler'.at = "asleep"
            /\ scheduler'.wake = tick + WindowTicks
        BY <1>1, <4>1 DEF HasFields, SchedulerFields
      <4>3. scheduler'.window = scheduler.window /\ scheduler'.restarts = scheduler.restarts
        BY <1>1, <4>1 DEF HasFields, SchedulerFields
      <4>4. scheduler'.wake \in Nat
        BY <1>1, <4>2
      <4>5. QED
        BY <1>2, <1>3, <4>2, <4>3, <4>4
    <3>2. CASE schedules # << >>
      <4>1. scheduler' = [scheduler EXCEPT !.at = "custom", !.left = {}, !.custom = schedules,
                                           !.size = Len(schedules)]
        BY <1>11, <3>2 DEF RequestDefault, IntoCustom
      <4>2. PICK rest, size : rest = schedules /\ size = Len(schedules)
        OBVIOUS
      <4>3. scheduler' = [scheduler EXCEPT !.at = "custom", !.left = {}, !.custom = rest,
                                           !.size = size]
        BY <4>1, <4>2
      <4>4. HasFields(scheduler', SchedulerFields) /\ scheduler'.at = "custom"
        BY <1>1, <4>3 DEF HasFields, SchedulerFields
      <4>5. /\ scheduler'.window = scheduler.window /\ scheduler'.wake = scheduler.wake
            /\ scheduler'.restarts = scheduler.restarts
        BY <1>1, <4>3 DEF HasFields, SchedulerFields
      <4>6. QED
        BY <1>1, <1>2, <1>3, <4>4, <4>5
    <3>3. QED
      BY <3>1, <3>2
  <2>2. Timely(scheduler)'
    BY <1>1, <1>2, <1>3, <2>1 DEF Timely
  <2>3. ASSUME NEW p \in Projects, NEW v \in Nat, v <= u PROVE Requested(p, v)'
    <3>1. Starts(v) + WindowTicks <= tick + WindowTicks
      BY <1>1, <1>2, <2>3, SleepsThrough
    <3>2. QED
      BY <2>1, <2>3, <3>1 DEF Requested
  <2>4. tick' \in Nat /\ scheduler'.at \in {"asleep", "default", "custom"}
    BY <1>1, <2>1
  <2>5. ASSUME NEW p \in Projects, NEW v \in Nat, ~Requested(p, v)'
        PROVE  Cardinality(DefaultFor(requested', p, v)) <= k
    <3>1. ~(v <= u)
      BY <2>3, <2>5
    <3>2. ~(v < u \/ v = u)
      BY <3>1
    <3>3. QED
      BY <1>9, <3>2
  <2>6. QED
    BY <1>7, <1>9, <2>1, <2>2, <2>4, <2>5 DEF SchedulerIInv
<1>12. QED
  BY <1>10, <1>11

(* The request of a schedule of POST /report-schedules.                    *)
LEMMA RequestCustomInv ==
    ASSUME SchedulerIInv, NEW reply, RequestCustom(reply)
    PROVE  SchedulerIInv'
<1>1. /\ scheduler.at = "custom" /\ tick' = tick
      /\ tick \in Nat /\ scheduler.wake \in Nat /\ scheduler.window \in Nat
      /\ Starts(scheduler.window) <= tick /\ scheduler.restarts \in Nat
      /\ HasFields(scheduler, SchedulerFields) /\ IsFiniteSet(requested)
      /\ WindowTicks \in Nat /\ RetryTicks \in Nat
  BY ReportScheduleAssumption DEF RequestCustom, SchedulerIInv, Timely
<1>2. PICK n, p, v : requested' = requested \/ requested' = requested \cup {<<n, p, "custom", v>>}
  BY DEF RequestCustom, PublishDue
<1>3. /\ IsFiniteSet(requested')
      /\ \A q, u : DefaultFor(requested', q, u) = DefaultFor(requested, q, u)
  <2>1. CASE requested' = requested
    BY <1>1, <2>1
  <2>2. CASE requested' = requested \cup {<<n, p, "custom", v>>}
    <3>1. PICK by : by = "custom"
      OBVIOUS
    <3>2. PICK S : S = requested
      OBVIOUS
    <3>3. IsFiniteSet(S) /\ by # "default"
      BY <1>1, <3>1, <3>2
    <3>4. IsFiniteSet(S \cup {<<n, p, by, v>>})
      BY <3>3, OneRequestMore
    <3>5. \A q, u : DefaultFor(S \cup {<<n, p, by, v>>}, q, u) = DefaultFor(S, q, u)
      <4>1. PICK x : x = <<n, p, by, v>>
        OBVIOUS
      <4>2. x[3] # "default"
        BY <3>3, <4>1
      <4>3. \A q, u : DefaultFor(S \cup {x}, q, u) = DefaultFor(S, q, u)
        BY <4>2 DEF DefaultFor
      <4>4. QED
        BY <4>1, <4>3
    <3>6. QED
      BY <2>2, <3>1, <3>2, <3>4, <3>5
  <2>3. QED
    BY <1>2, <2>1, <2>2
<1>4. CASE Len(schedules) # scheduler.size
  <2>1. scheduler' = [scheduler EXCEPT !.at = "asleep", !.wake = tick + RetryTicks,
                                       !.custom = << >>, !.restarts = @ + 1]
    BY <1>4 DEF RequestCustom
  <2>2. /\ HasFields(scheduler', SchedulerFields) /\ scheduler'.at = "asleep"
        /\ scheduler'.window = scheduler.window /\ scheduler'.wake = tick + RetryTicks
        /\ scheduler'.restarts = scheduler.restarts + 1
    BY <1>1, <2>1 DEF HasFields, SchedulerFields
  <2>3. Timely(scheduler)'
    BY <1>1, <2>2 DEF Timely
  <2>4. QED
    BY <1>1, <1>3, <2>2, <2>3, SchedulerStartsAnew
<1>5. CASE Len(schedules) = scheduler.size /\ Len(scheduler.custom) <= 1
  <2>1. scheduler' = [scheduler EXCEPT !.at = "asleep", !.wake = tick + WindowTicks, !.left = {}]
    BY <1>5 DEF RequestCustom, Asleep
  <2>2. /\ HasFields(scheduler', SchedulerFields) /\ scheduler'.at = "asleep"
        /\ scheduler'.window = scheduler.window /\ scheduler'.wake = tick + WindowTicks
        /\ scheduler'.restarts = scheduler.restarts
    BY <1>1, <2>1 DEF HasFields, SchedulerFields
  <2>3. Timely(scheduler)'
    BY <1>1, <2>2 DEF Timely
  <2>4. ASSUME NEW q \in Projects, NEW u \in Nat, Requested(q, u) PROVE Requested(q, u)'
    <3>1. u <= scheduler.window
      BY <1>1, <2>4 DEF Requested
    <3>2. Starts(u) + WindowTicks <= tick + WindowTicks
      <4>1. PICK t \in Nat : t = tick
        BY <1>1
      <4>2. PICK w \in Nat : w = scheduler.window
        BY <1>1
      <4>3. QED
        BY <1>1, <3>1, <4>1, <4>2, SleepsThrough
    <3>3. QED
      BY <2>2, <3>2 DEF Requested
  <2>5. QED
    BY <1>1, <1>3, <2>2, <2>3, <2>4, SchedulerGoesOn
<1>6. CASE Len(schedules) = scheduler.size /\ ~(Len(scheduler.custom) <= 1)
  <2>1. PICK rest : scheduler' = [scheduler EXCEPT !.custom = rest]
    BY <1>6 DEF RequestCustom
  <2>2. /\ HasFields(scheduler', SchedulerFields) /\ scheduler'.at = "custom"
        /\ scheduler'.window = scheduler.window /\ scheduler'.wake = scheduler.wake
        /\ scheduler'.restarts = scheduler.restarts
    BY <1>1, <2>1 DEF HasFields, SchedulerFields
  <2>3. Timely(scheduler)'
    BY <1>1, <2>2 DEF Timely
  <2>4. \A q, u : Requested(q, u) => Requested(q, u)'
    BY <1>1, <2>2 DEF Requested
  <2>5. QED
    BY <1>1, <1>3, <2>2, <2>3, <2>4, SchedulerGoesOn
<1>7. QED
  BY <1>4, <1>5, <1>6

(* A schedule more or less, or time: nothing the loop is past comes back.  *)
LEMMA SchedulerStaysInv ==
    ASSUME SchedulerIInv, tick' \in {tick, tick + 1}, requested' = requested,
           scheduler' = scheduler \/ \E rest : scheduler' = [scheduler EXCEPT !.custom = rest]
    PROVE  SchedulerIInv'
<1>1. /\ tick \in Nat /\ scheduler.wake \in Nat /\ scheduler.window \in Nat
      /\ scheduler.restarts \in Nat /\ Starts(scheduler.window) \in Nat
      /\ scheduler.at # "asleep" => Starts(scheduler.window) <= tick
      /\ HasFields(scheduler, SchedulerFields) /\ IsFiniteSet(requested)
      /\ scheduler.at \in {"asleep", "default", "custom"}
  BY HoursInOrder DEF SchedulerIInv, Timely
<1>2. /\ HasFields(scheduler', SchedulerFields) /\ scheduler'.at = scheduler.at
      /\ scheduler'.window = scheduler.window /\ scheduler'.wake = scheduler.wake
      /\ scheduler'.restarts = scheduler.restarts /\ scheduler'.left = scheduler.left
  <2>1. CASE scheduler' = scheduler
    BY <1>1, <2>1
  <2>2. ASSUME NEW rest, scheduler' = [scheduler EXCEPT !.custom = rest]
        PROVE  /\ HasFields(scheduler', SchedulerFields) /\ scheduler'.at = scheduler.at
               /\ scheduler'.window = scheduler.window /\ scheduler'.wake = scheduler.wake
               /\ scheduler'.restarts = scheduler.restarts /\ scheduler'.left = scheduler.left
    BY <1>1, <2>2 DEF HasFields, SchedulerFields
  <2>3. QED
    BY <2>1, <2>2
<1>3. tick' \in Nat /\ tick <= tick'
  BY <1>1
<1>4. Timely(scheduler)'
  BY <1>1, <1>2, <1>3 DEF Timely
<1>5. \A q, u : Requested(q, u) => Requested(q, u)'
  BY <1>2 DEF Requested
<1>6. QED
  BY <1>1, <1>2, <1>3, <1>4, <1>5, SchedulerGoesOn

(* The process of the scheduler service starts anew.                       *)
LEMMA CrashSchedulerInv ==
    ASSUME SchedulerIInv, CrashScheduler
    PROVE  SchedulerIInv'
<1>1. /\ tick' = tick /\ requested' = requested /\ tick \in Nat /\ scheduler.window \in Nat
      /\ scheduler.restarts \in Nat /\ HasFields(scheduler, SchedulerFields)
      /\ IsFiniteSet(requested)
  BY DEF CrashScheduler, SchedulerIInv, Timely
<1>2. scheduler' = [scheduler EXCEPT !.at = "asleep", !.wake = tick, !.left = {},
                                     !.custom = << >>, !.restarts = @ + 1]
  BY DEF CrashScheduler
<1>3. HasFields(scheduler', SchedulerFields) /\ scheduler'.at = "asleep" /\ scheduler'.wake = tick
  BY <1>1, <1>2 DEF HasFields, SchedulerFields
<1>4. scheduler'.window = scheduler.window /\ scheduler'.restarts = scheduler.restarts + 1
  BY <1>1, <1>2 DEF HasFields, SchedulerFields
<1>5. Timely(scheduler)'
  BY <1>1, <1>3, <1>4 DEF Timely
<1>6. QED
  BY <1>1, <1>3, <1>4, <1>5, SchedulerStartsAnew

(* Nothing is made before the loops start.                                 *)
LEMMA ReportScheduleInitInv == ReportScheduleInit => ReporterIInv /\ SchedulerIInv
<1> SUFFICES ASSUME ReportScheduleInit PROVE ReporterIInv /\ SchedulerIInv
  OBVIOUS
<1>1. tick = 0 /\ generated = {} /\ requested = {}
  BY DEF ReportScheduleInit
<1>2. /\ HasFields(reporter, ReporterFields)
      /\ reporter.at = "asleep" /\ reporter.wake = 0 /\ reporter.window = 0 /\ reporter.restarts = 0
  BY DEF ReportScheduleInit, HasFields, ReporterFields
<1>3. HasFields(scheduler, SchedulerFields) /\ scheduler.at = "asleep"
  BY DEF ReportScheduleInit, HasFields, SchedulerFields
<1>4. scheduler.wake = 0 /\ scheduler.window = 0 /\ scheduler.restarts = 0
  BY DEF ReportScheduleInit
<1>5. Timely(reporter) /\ Timely(scheduler)
  BY <1>2, <1>3, <1>4 DEF Timely
<1>6. IsFiniteSet({}) /\ Cardinality({}) = 0
  BY FS_EmptySet
<1>7. \A p, v : GeneratedFor(generated, p, v) = {} /\ DefaultFor(requested, p, v) = {}
  BY <1>1 DEF GeneratedFor, DefaultFor
<1>8. ReporterIInv
  <2>1. \A p \in Projects, v \in Nat :
          /\ Cardinality(GeneratedFor(generated, p, v)) <= reporter.restarts + 1
          /\ Cardinality(GeneratedFor(generated, p, v)) <= reporter.restarts
    BY <1>2, <1>6, <1>7
  <2>2. QED
    BY <1>1, <1>2, <1>5, <1>6, <2>1 DEF ReporterIInv
<1>9. SchedulerIInv
  <2>1. \A p \in Projects, v \in Nat :
          /\ Cardinality(DefaultFor(requested, p, v)) <= scheduler.restarts + 1
          /\ Cardinality(DefaultFor(requested, p, v)) <= scheduler.restarts
    BY <1>4, <1>6, <1>7
  <2>2. QED
    BY <1>1, <1>3, <1>5, <1>6, <2>1 DEF SchedulerIInv
<1>10. QED
  BY <1>8, <1>9

(* No step of the two loops, their routes or the clock breaks either half. *)
LEMMA ReportScheduleStepInv ==
    ASSUME ReporterIInv, SchedulerIInv, [ReportScheduleNext]_scheduleVars
    PROVE  ReporterIInv' /\ SchedulerIInv'
<1>1. ASSUME NEW reply \in Answers, ReporterRound(reply)
      PROVE  ReporterIInv' /\ SchedulerIInv'
  <2>1. ReporterIInv'
    BY <1>1, ReporterRoundInv
  <2>2. SchedulerIInv'
    BY <1>1, SchedulerStaysInv DEF ReporterRound
  <2>3. QED
    BY <2>1, <2>2
<1>2. ASSUME NEW reply \in Answers, SchedulerRound(reply)
      PROVE  ReporterIInv' /\ SchedulerIInv'
  <2>1. ReporterIInv'
    BY <1>2, ReporterStaysInv DEF SchedulerRound
  <2>2. SchedulerIInv'
    BY <1>2, SchedulerRoundInv
  <2>3. QED
    BY <2>1, <2>2
<1>3. ASSUME NEW reply \in Answers, RequestCustom(reply)
      PROVE  ReporterIInv' /\ SchedulerIInv'
  <2>1. ReporterIInv'
    BY <1>3, ReporterStaysInv DEF RequestCustom
  <2>2. SchedulerIInv'
    BY <1>3, RequestCustomInv
  <2>3. QED
    BY <2>1, <2>2
<1>4. ASSUME NEW reply \in Answers, NEW project \in Projects, GenerateScheduled(project, reply)
      PROVE  ReporterIInv' /\ SchedulerIInv'
  <2>1. ReporterIInv'
    BY <1>4, GenerateScheduledInv
  <2>2. SchedulerIInv'
    BY <1>4, SchedulerStaysInv DEF GenerateScheduled
  <2>3. QED
    BY <2>1, <2>2
<1>5. ASSUME NEW reply \in Answers, NEW project \in Projects, RequestDefault(project, reply)
      PROVE  ReporterIInv' /\ SchedulerIInv'
  <2>1. ReporterIInv'
    BY <1>5, ReporterStaysInv DEF RequestDefault
  <2>2. SchedulerIInv'
    BY <1>5, RequestDefaultInv
  <2>3. QED
    BY <2>1, <2>2
<1>6. ASSUME NEW project \in Projects,
             CreateReportSchedule(project) \/ DeleteReportSchedules(project)
      PROVE  ReporterIInv' /\ SchedulerIInv'
  <2>1. UNCHANGED <<tick, reporter, generated, requested>>
    BY <1>6 DEF CreateReportSchedule, DeleteReportSchedules
  <2>2. scheduler' = scheduler \/ \E rest : scheduler' = [scheduler EXCEPT !.custom = rest]
    <3>1. CASE CreateReportSchedule(project)
      BY <3>1 DEF CreateReportSchedule
    <3>2. CASE DeleteReportSchedules(project)
      BY <3>2 DEF DeleteReportSchedules
    <3>3. QED
      BY <1>6, <3>1, <3>2
  <2>3. ReporterIInv'
    BY <2>1, ReporterStaysInv
  <2>4. SchedulerIInv'
    BY <2>1, <2>2, SchedulerStaysInv
  <2>5. QED
    BY <2>3, <2>4
<1>7. CASE CrashScheduler
  <2>1. ReporterIInv'
    BY <1>7, ReporterStaysInv DEF CrashScheduler
  <2>2. SchedulerIInv'
    BY <1>7, CrashSchedulerInv
  <2>3. QED
    BY <2>1, <2>2
<1>10. CASE CrashReporter
  <2>1. ReporterIInv'
    BY <1>10, CrashReporterInv
  <2>2. SchedulerIInv'
    BY <1>10, SchedulerStaysInv DEF CrashReporter
  <2>3. QED
    BY <2>1, <2>2
<1>8. CASE TimePasses
  <2>1. UNCHANGED <<reporter, generated, scheduler, requested>> /\ tick' = tick + 1
    BY <1>8 DEF TimePasses
  <2>2. ReporterIInv'
    BY <2>1, ReporterStaysInv
  <2>3. SchedulerIInv'
    BY <2>1, SchedulerStaysInv
  <2>4. QED
    BY <2>2, <2>3
<1>9. CASE UNCHANGED scheduleVars
  <2>1. UNCHANGED <<tick, reporter, generated, scheduler, requested>>
    BY <1>9 DEF scheduleVars
  <2>2. ReporterIInv'
    BY <2>1, ReporterStaysInv
  <2>3. SchedulerIInv'
    BY <2>1, SchedulerStaysInv
  <2>4. QED
    BY <2>2, <2>3
<1>11. QED
  BY <1>1, <1>2, <1>3, <1>4, <1>5, <1>6, <1>7, <1>8, <1>9, <1>10 DEF ReportScheduleNext

(* The invariant says it, but for the size of the instance.                *)
LEMMA SchedulesGiveOncePerWindow ==
    ASSUME ReporterIInv, SchedulerIInv
    PROVE  OncePerWindow
<1>1. reporter.restarts \in Nat /\ scheduler.restarts \in Nat
  BY DEF ReporterIInv, SchedulerIInv, Timely
<1>2. ASSUME NEW project \in Projects, NEW v \in Nat
      PROVE  /\ Cardinality(GeneratedFor(generated, project, v)) <= 1 + reporter.restarts
             /\ Cardinality(DefaultFor(requested, project, v)) <= 1 + scheduler.restarts
  <2>1. Cardinality(GeneratedFor(generated, project, v)) \in Nat
    BY ReportsAreCounted DEF ReporterIInv
  <2>2. Cardinality(DefaultFor(requested, project, v)) \in Nat
    BY DefaultsAreCounted DEF SchedulerIInv
  <2>3. Cardinality(GeneratedFor(generated, project, v)) <= reporter.restarts + 1
    BY DEF ReporterIInv
  <2>4. Cardinality(DefaultFor(requested, project, v)) <= scheduler.restarts + 1
    BY DEF SchedulerIInv
  <2>5. QED
    BY <1>1, <2>1, <2>2, <2>3, <2>4
<1>3. \A v \in 0 .. Window(MaxTick) : v \in Nat
  BY HoursBegin, ReportScheduleAssumption
<1>4. QED
  BY <1>2, <1>3 DEF OncePerWindow, GeneratedFor, DefaultFor

(* Each of the two loops makes at most one report, or request, for a       *)
(* project and an hour, and one more whenever it started anew.             *)
THEOREM ReportsComeOncePerWindow == ReportScheduleSpec => []OncePerWindow
<1>1. ReportScheduleInit => ReporterIInv /\ SchedulerIInv
  BY ReportScheduleInitInv
<1>2. (ReporterIInv /\ SchedulerIInv) /\ [ReportScheduleNext]_scheduleVars
         => (ReporterIInv /\ SchedulerIInv)'
  BY ReportScheduleStepInv
<1>3. ReporterIInv /\ SchedulerIInv => OncePerWindow
  BY SchedulesGiveOncePerWindow
<1>4. QED
  BY <1>1, <1>2, <1>3, PTL DEF ReportScheduleSpec

-----------------------------------------------------------------------------
(* The consumers together: a step of another service is none of this one.  *)

\* What each service does not share with the stream at hand.
Others ==
    /\ service # "media" => UNCHANGED mediaOwn
    /\ service # "enrichment" => UNCHANGED enrichmentOwn
    /\ service # "notification" => UNCHANGED notificationOwn
    /\ service \notin {"audit", "retention"} => UNCHANGED auditOwn
    /\ service # "workflows" => UNCHANGED workflowsOwn
    /\ service # "schedule" => UNCHANGED scheduleVars

(* A step is of the service that was chosen and leaves the others alone.   *)
LEMMA OneServiceAtATime ==
    ASSUME [ConsumersNext]_consumersVars
    PROVE  /\ service' = service
           /\ Others
           /\ service = "media" => [MediaNext]_mediaVars
           /\ service = "enrichment" => [EnrichmentNext]_enrichmentVars
           /\ service = "notification" => [NotificationNext]_notificationVars
           /\ service \in {"audit", "retention"} => [AuditNext]_auditVars
           /\ service = "reports" => [ReportsNext]_reportVars
           /\ service = "workflows" => [WorkflowsNext]_workflowVars
           /\ service = "schedule" => [ReportScheduleNext]_scheduleVars
           /\ service = "exports" => [ExportsNext]_exportVars
           /\ service = "deadletters" => [DeadLettersNext]_<<loopVars, deadOwn>>
<1>1. CASE UNCHANGED consumersVars
  <2>1. UNCHANGED <<service, loopVars, mediaOwn, enrichmentOwn, notificationOwn, auditOwn, reportsOwn,
                    workflowsOwn, scheduleVars, exportsOwn, deadOwn>>
    BY <1>1 DEF consumersVars, loopOwn, loopVars
  <2>2. UNCHANGED mediaVars /\ UNCHANGED enrichmentVars /\ UNCHANGED notificationVars
    BY <2>1 DEF mediaVars, mediaOwn, enrichmentVars, enrichmentOwn, notificationVars, notificationOwn
  <2>3. UNCHANGED auditVars /\ UNCHANGED reportVars /\ UNCHANGED workflowVars /\ UNCHANGED exportVars
    BY <2>1 DEF auditVars, auditOwn, reportVars, reportsOwn, workflowVars, workflowsOwn,
                exportVars, exportsOwn
  <2>4. QED
    BY <2>1, <2>2, <2>3 DEF Others
<1>2. CASE ConsumersNext
  BY <1>2 DEF ConsumersNext, Only, Others
<1>3. QED
  BY <1>1, <1>2

(* Every request for a report that was acknowledged was answered.          *)
THEOREM ReportRequestsAreAnswered == ConsumersSpec => []ReportRequestsAnswered
<1> DEFINE Inv == service = "reports" => ReportsIInv
<1>1. ConsumersInit => Inv
  BY ReportsInitInv DEF ConsumersInit
<1>2. Inv /\ [ConsumersNext]_consumersVars => Inv'
  BY OneServiceAtATime, ReportsStepInv
<1>3. Inv => ReportRequestsAnswered
  BY DEF ReportRequestsAnswered, ReportsIInv
<1>4. QED
  BY <1>1, <1>2, <1>3, PTL DEF ConsumersSpec

(* A job whose request was taken is COMPLETED or FAILED unless an error or *)
(* a crash struck, and a COMPLETED one has a file that shows its rows.     *)
THEOREM ExportsAreSettled == ConsumersSpec => []ExportsSettled
<1> DEFINE Inv == service = "exports" => ExportsIInv
<1>1. ConsumersInit => Inv
  BY ExportsInitInv DEF ConsumersInit
<1>2. Inv /\ [ConsumersNext]_consumersVars => Inv'
  BY OneServiceAtATime, ExportsStepInv
<1>3. Inv => ExportsSettled
  BY DEF ExportsSettled, ExportsIInv
<1>4. QED
  BY <1>1, <1>2, <1>3, PTL DEF ConsumersSpec

(* No message of the bus vanishes while operators put dead letters back.   *)
THEOREM TheBusKeepsEverything == ConsumersSpec => []NothingLostByTheBus
<1> DEFINE Inv == service = "deadletters" => DeadLettersIInv
<1>1. ConsumersInit => Inv
  BY DeadLettersInitInv DEF ConsumersInit
<1>2. Inv /\ [ConsumersNext]_consumersVars => Inv'
  BY OneServiceAtATime, DeadLettersStepInv
<1>3. Inv => NothingLostByTheBus
  BY KeptIsNotLost DEF NothingLostByTheBus
<1>4. QED
  BY <1>1, <1>2, <1>3, PTL DEF ConsumersSpec

-----------------------------------------------------------------------------
(* The services whose properties do not ask which of them is explored: a   *)
(* service that is not has done nothing.                                   *)

MediaKeeps ==
    MediaRowWasAnnounced /\ (service = "media" => MediaIInv)

EnrichmentKeeps ==
    /\ service = "enrichment" => EnrichmentIInv
    /\ service # "enrichment" => RepeatIsExplained

NotificationKeeps ==
    /\ service = "notification" => NotificationIInv
    /\ service # "notification" =>
          alertLog = {} /\ notified = {} /\ \A w \in Workers : counters[w] = {}

AuditKeeps ==
    /\ DeletedWasExpired /\ PurgedIsForgotten
    /\ service \in {"audit", "retention"} => RetentionIInv /\ PurgeIInv /\ day \in Int

WorkflowsKeeps ==
    ExecutionsAddUp /\ (service = "workflows" => WorkflowsIInv)

ScheduleKeeps ==
    /\ service = "schedule" => ReporterIInv /\ SchedulerIInv
    /\ service # "schedule" => OncePerWindow

ConsumersIInv ==
    /\ MediaKeeps
    /\ EnrichmentKeeps
    /\ NotificationKeeps
    /\ AuditKeeps
    /\ WorkflowsKeeps
    /\ ScheduleKeeps

(* The services start as they do alone.                                    *)
LEMMA ConsumersInitInv == ConsumersInit => ConsumersIInv
<1> SUFFICES ASSUME ConsumersInit PROVE ConsumersIInv
  OBVIOUS
<1>1. MediaKeeps
  BY MediaInitInv DEF ConsumersInit, MediaKeeps, MediaIInv
<1>2. EnrichmentKeeps
  BY EnrichmentInitInv, BudgetsExplainRepeats DEF ConsumersInit, EnrichmentKeeps
<1>3. NotificationKeeps
  <2>1. alertLog = {} /\ notified = {} /\ \A w \in Workers : counters[w] = {}
    BY DEF ConsumersInit, NotificationInit
  <2>2. QED
    BY <2>1, NotificationInitInv DEF ConsumersInit, NotificationKeeps
<1>4. AuditKeeps
  <2>1. RetentionIInv /\ PurgeIInv /\ day \in Int
    BY RetentionInitInv, PurgeInitInv DEF ConsumersInit
  <2>2. QED
    BY <2>1 DEF AuditKeeps, RetentionIInv, PurgeIInv
<1>5. WorkflowsKeeps
  BY WorkflowsInitInv DEF ConsumersInit, WorkflowsKeeps, WorkflowsIInv
<1>6. ScheduleKeeps
  BY ReportScheduleInitInv, SchedulesGiveOncePerWindow DEF ConsumersInit, ScheduleKeeps
<1>7. QED
  BY <1>1, <1>2, <1>3, <1>4, <1>5, <1>6 DEF ConsumersIInv

(* A step is the service's own, or one that leaves it alone.               *)
LEMMA ConsumersStepInv == ConsumersIInv /\ [ConsumersNext]_consumersVars => ConsumersIInv'
<1> SUFFICES ASSUME ConsumersIInv, [ConsumersNext]_consumersVars PROVE ConsumersIInv'
  OBVIOUS
<1>1. service' = service /\ Others
  BY OneServiceAtATime
<1>2. MediaKeeps'
  <2>1. CASE service = "media"
    <3>1. MediaIInv'
      BY <2>1, OneServiceAtATime, MediaStepInv DEF ConsumersIInv, MediaKeeps
    <3>2. QED
      BY <1>1, <3>1 DEF MediaKeeps, MediaIInv
  <2>2. CASE service # "media"
    <3>1. UNCHANGED <<mediaResults, mediaRow>>
      BY <1>1, <2>2 DEF Others, mediaOwn
    <3>2. QED
      BY <1>1, <2>2, <3>1 DEF ConsumersIInv, MediaKeeps, MediaRowWasAnnounced
  <2>3. QED
    BY <2>1, <2>2
<1>3. EnrichmentKeeps'
  <2>1. CASE service = "enrichment"
    <3>1. EnrichmentIInv'
      BY <2>1, OneServiceAtATime, EnrichmentStepInv DEF ConsumersIInv, EnrichmentKeeps
    <3>2. QED
      BY <1>1, <2>1, <3>1 DEF EnrichmentKeeps
  <2>2. CASE service # "enrichment"
    <3>1. UNCHANGED <<enriched, enrichResults, done, lapses>>
      BY <1>1, <2>2 DEF Others, enrichmentOwn
    <3>2. QED
      BY <1>1, <2>2, <3>1 DEF ConsumersIInv, EnrichmentKeeps, RepeatIsExplained
  <2>3. QED
    BY <2>1, <2>2
<1>4. NotificationKeeps'
  <2>1. CASE service = "notification"
    <3>1. NotificationIInv'
      BY <2>1, OneServiceAtATime, NotificationStepInv DEF ConsumersIInv, NotificationKeeps
    <3>2. QED
      BY <1>1, <2>1, <3>1 DEF NotificationKeeps
  <2>2. CASE service # "notification"
    <3>1. UNCHANGED <<counters, alertLog, notified>>
      BY <1>1, <2>2 DEF Others, notificationOwn
    <3>2. QED
      BY <1>1, <2>2, <3>1 DEF ConsumersIInv, NotificationKeeps
  <2>3. QED
    BY <2>1, <2>2
<1>5. AuditKeeps'
  <2>1. CASE service \in {"audit", "retention"}
    <3>1. RetentionIInv'
      BY <2>1, OneServiceAtATime, RetentionNextInv DEF ConsumersIInv, AuditKeeps
    <3>2. PurgeIInv' /\ day' \in Int
      BY <2>1, OneServiceAtATime, PurgeNextInv DEF ConsumersIInv, AuditKeeps
    <3>3. QED
      BY <3>1, <3>2 DEF AuditKeeps, RetentionIInv, PurgeIInv
  <2>2. CASE service \notin {"audit", "retention"}
    <3>1. UNCHANGED <<rows, round, named>>
      BY <1>1, <2>2 DEF Others, auditOwn
    <3>2. DeletedWasExpired'
      BY <3>1 DEF ConsumersIInv, AuditKeeps, DeletedWasExpired
    <3>3. PurgedIsForgotten'
      BY <3>1 DEF ConsumersIInv, AuditKeeps, PurgedIsForgotten, RowsOf
    <3>4. QED
      BY <1>1, <2>2, <3>2, <3>3 DEF AuditKeeps
  <2>3. QED
    BY <2>1, <2>2
<1>6. WorkflowsKeeps'
  <2>1. CASE service = "workflows"
    <3>1. WorkflowsIInv'
      BY <2>1, OneServiceAtATime, WorkflowsStepInv DEF ConsumersIInv, WorkflowsKeeps
    <3>2. QED
      BY <1>1, <3>1 DEF WorkflowsKeeps, WorkflowsIInv
  <2>2. CASE service # "workflows"
    <3>1. UNCHANGED <<workflows, counted>>
      BY <1>1, <2>2 DEF Others, workflowsOwn
    <3>2. QED
      BY <1>1, <2>2, <3>1 DEF ConsumersIInv, WorkflowsKeeps, ExecutionsAddUp
  <2>3. QED
    BY <2>1, <2>2
<1>7. ScheduleKeeps'
  <2>1. CASE service = "schedule"
    <3>1. ReporterIInv' /\ SchedulerIInv'
      BY <2>1, OneServiceAtATime, ReportScheduleStepInv DEF ConsumersIInv, ScheduleKeeps
    <3>2. QED
      BY <1>1, <2>1, <3>1 DEF ScheduleKeeps
  <2>2. CASE service # "schedule"
    <3>1. UNCHANGED <<reporter, generated, scheduler, requested>>
      BY <1>1, <2>2 DEF Others, scheduleVars
    <3>2. QED
      BY <1>1, <2>2, <3>1 DEF ConsumersIInv, ScheduleKeeps, OncePerWindow
  <2>3. QED
    BY <2>1, <2>2
<1>8. QED
  BY <1>2, <1>3, <1>4, <1>5, <1>6, <1>7 DEF ConsumersIInv

(* Whichever service is explored, the composition keeps every promise the  *)
(* services keep alone: what the run checks is what was proved above.      *)
THEOREM ConsumersKeepTheirPromises ==
    ConsumersSpec => [](/\ MediaRowWasAnnounced
                        /\ RepeatIsExplained
                        /\ AlertIsJustified
                        /\ DeletedWasExpired
                        /\ PurgedIsForgotten
                        /\ ExecutionsAddUp
                        /\ OncePerWindow)
<1> DEFINE Promises == /\ MediaRowWasAnnounced
                       /\ RepeatIsExplained
                       /\ AlertIsJustified
                       /\ DeletedWasExpired
                       /\ PurgedIsForgotten
                       /\ ExecutionsAddUp
                       /\ OncePerWindow
<1>1. ConsumersIInv => Promises
  <2> SUFFICES ASSUME ConsumersIInv PROVE Promises
    OBVIOUS
  <2>1. AlertIsJustified
    <3>1. CASE service = "notification"
      BY <3>1, AccountsJustifyAlerts DEF ConsumersIInv, NotificationKeeps
    <3>2. CASE service # "notification"
      BY <3>2 DEF ConsumersIInv, NotificationKeeps, AlertIsJustified
    <3>3. QED
      BY <3>1, <3>2
  <2>2. RepeatIsExplained
    BY BudgetsExplainRepeats DEF ConsumersIInv, EnrichmentKeeps
  <2>3. OncePerWindow
    BY SchedulesGiveOncePerWindow DEF ConsumersIInv, ScheduleKeeps
  <2>4. QED
    BY <2>1, <2>2, <2>3 DEF ConsumersIInv, MediaKeeps, AuditKeeps, WorkflowsKeeps
<1>2. ConsumersSpec => []Promises
  BY <1>1, ConsumersInitInv, ConsumersStepInv, PTL DEF ConsumersSpec
<1>3. QED
  BY <1>2

-----------------------------------------------------------------------------
(* Types.  What LoopIInv leaves to say is where a replica may be.          *)

LoopPlaces(Places) == Places \cup {"idle", "handle", "finally"}

PlacesFit(Places) == \A w \in Workers : place[w] \in LoopPlaces(Places)

(* What is known says that the state has its type.                         *)
LEMMA LoopIsTyped ==
    ASSUME NEW Entry, NEW Places, LoopIInv(Entry), PlacesFit(Places)
    PROVE  LoopTypeOK(Entry, Places)
  BY DEF LoopIInv, IsOn, PlacesFit, LoopPlaces, LoopTypeOK

(* A replica goes to a place of its service, or one of the loop.           *)
LEMMA PlaceFits ==
    ASSUME NEW Places, NEW Entry, LoopIInv(Entry), PlacesFit(Places), NEW w, NEW where,
           where \in LoopPlaces(Places), Goto(w, where)
    PROVE  PlacesFit(Places)'
  BY DEF Goto, PlacesFit, LoopIInv, IsOn

(* The loop's own steps.                                                   *)
LEMMA LoopPlacesFit ==
    ASSUME NEW Places, NEW Entry, LoopIInv(Entry), PlacesFit(Places), NEW w, NEW id, NEW reply,
           \/ Consume(w, reply) \/ Acknowledge(w, id, reply)
           \/ Finished(w, id) \/ Abandon(w) \/ CrashLoop(w)
    PROVE  PlacesFit(Places)'
<1>1. {"idle", "handle"} \subseteq LoopPlaces(Places)
  BY DEF LoopPlaces
<1>2. CASE Goto(w, "idle") \/ Goto(w, "handle")
  BY <1>1, <1>2, PlaceFits
<1>3. CASE place' = place
  BY <1>3 DEF PlacesFit
<1>4. QED
  BY <1>2, <1>3 DEF Consume, Acknowledge, Finished, Abandon, CrashLoop

(* A replica works on entries of the stream.                               *)
LEMMA AtHandIsEntry ==
    ASSUME NEW Entry, LoopIInv(Entry), NEW w \in Workers, NEW id \in todo[w]
    PROVE  EntryAt(id) \in Entry
<1>1. id \in 1 .. Len(stream.log) /\ stream.log \in Seq(Entry)
  BY DEF LoopIInv, StreamOf, Group
<1>2. QED
  BY <1>1 DEF EntryAt

-----------------------------------------------------------------------------
(* The media service.                                                      *)

MediaFits ==
    /\ PlacesFit(MediaPlaces)
    /\ \A w \in Workers : result[w] \subseteq Parts
    /\ mediaResults \subseteq MediaMentions \X SUBSET Parts
    /\ \A m \in MediaMentions : mediaRow[m] \subseteq Parts

(* A result has parts there are.                                           *)
LEMMA MediaNextFits ==
    ASSUME MediaIInv, MediaFits, [MediaNext]_mediaVars
    PROVE  MediaFits'
<1>1. LoopIInv(MediaRequests) /\ IsOn(result, Workers) /\ IsOn(mediaRow, MediaMentions)
  BY DEF MediaIInv
<1>2. ASSUME UNCHANGED <<mediaResults, mediaRow>>, PlacesFit(MediaPlaces)',
             NEW w \in Workers, NEW parts \in SUBSET Parts,
             result' \in {result, [result EXCEPT ![w] = parts]}
      PROVE  MediaFits'
  BY <1>1, <1>2 DEF MediaFits, IsOn
<1>3. ASSUME NEW w \in Workers, NEW where, Step(w, where), where \in LoopPlaces(MediaPlaces)
      PROVE  PlacesFit(MediaPlaces)'
  BY <1>1, <1>3, PlaceFits DEF Step, MediaFits
<1>4. {"finally", "analyze", "publish", "update"} \subseteq LoopPlaces(MediaPlaces)
  BY DEF LoopPlaces, MediaPlaces
<1>5. ASSUME NEW w \in Workers, NEW id, NEW reply,
             Consume(w, reply) \/ CrashLoop(w) \/ AckFinally(w, id, reply)
      PROVE  PlacesFit(MediaPlaces)'
  BY <1>1, <1>5, LoopPlacesFit DEF AckFinally, MediaFits
<1>6. CASE UNCHANGED <<place, result, mediaResults, mediaRow>>
  BY <1>6 DEF MediaFits, PlacesFit
<1>7. ASSUME NEW w \in Workers, MediaStep(w) PROVE MediaFits'
  <2>1. ASSUME NEW reply, Consume(w, reply), UNCHANGED <<result, mediaResults, mediaRow>>
        PROVE  MediaFits'
    BY <1>2, <1>5, <2>1
  <2>2. ASSUME NEW id \in todo[w], SkipMedia(w, id) \/ \E arrived \in BOOLEAN : Download(w, id, arrived)
        PROVE  MediaFits'
    BY <1>2, <1>3, <1>4, <2>2 DEF SkipMedia, Download
  <2>3. ASSUME NEW id \in todo[w], NEW parts \in SUBSET PartsOf(EntryAt(id).kind),
               (\E readable \in BOOLEAN : AnalyzeImage(w, id, parts, readable))
                  \/ AnalyzeSound(w, id, parts)
        PROVE  MediaFits'
    <3>1. parts \in SUBSET Parts
      BY DEF PartsOf, Parts
    <3>2. PlacesFit(MediaPlaces)'
      BY <1>3, <1>4, <2>3 DEF AnalyzeImage, AnalyzeSound
    <3>3. UNCHANGED <<mediaResults, mediaRow>> /\ result' \in {result, [result EXCEPT ![w] = parts]}
      BY <2>3 DEF AnalyzeImage, AnalyzeSound
    <3>4. QED
      BY <1>2, <3>1, <3>2, <3>3
  <2>4. ASSUME NEW id \in todo[w], NEW reply, PublishResult(w, id, reply) PROVE MediaFits'
    <3>1. EntryAt(id).mention \in MediaMentions
      BY <1>1, AtHandIsEntry DEF MediaMentions
    <3>2. PlacesFit(MediaPlaces)'
      BY <1>3, <1>4, <2>4 DEF PublishResult
    <3>3. QED
      BY <2>4, <3>1, <3>2 DEF PublishResult, MediaFits
  <2>5. ASSUME NEW id \in todo[w], NEW reply, UpdateMention(w, id, reply) PROVE MediaFits'
    <3>1. PlacesFit(MediaPlaces)'
      BY <1>3, <1>4, <2>5 DEF UpdateMention
    <3>2. QED
      BY <1>1, <2>5, <3>1 DEF UpdateMention, MediaFits, IsOn
  <2>6. ASSUME NEW id \in todo[w], NEW reply, AckFinally(w, id, reply), ForgetResult(w)
        PROVE  MediaFits'
    BY <1>2, <1>5, <2>6 DEF ForgetResult
  <2>7. QED
    BY <1>7, <2>1, <2>2, <2>3, <2>4, <2>5, <2>6 DEF MediaStep
<1>8. ASSUME NEW w \in Workers, CrashLoop(w), ForgetResult(w) PROVE MediaFits'
  BY <1>2, <1>5, <1>8 DEF ForgetResult
<1>9. QED
  BY <1>6, <1>7, <1>8 DEF MediaNext, RequestMedia, Add, Enter, mediaVars, loopVars

(* What is known says that the state has its type.                         *)
LEMMA MediaIsTyped == MediaIInv /\ MediaFits => MediaTypeOK
  BY LoopIsTyped DEF MediaIInv, IsOn, MediaFits, MediaTypeOK

(* So it is at first.                                                      *)
LEMMA MediaInitFits == MediaInit => MediaFits
  BY DEF MediaInit, LoopInit, MediaFits, PlacesFit, LoopPlaces

-----------------------------------------------------------------------------
(* The report service.                                                     *)

ReportsFit ==
    /\ PlacesFit(ReportPlaces)
    /\ IsOn(draft, Workers)
    /\ \A w \in Workers : draft[w] \subseteq PptxFiles
    /\ ready \subseteq Nat

(* A draft is of a file there may be.                                      *)
LEMMA ReportsNextFits ==
    ASSUME ReportsIInv, ReportsFit, [ReportsNext]_reportVars
    PROVE  ReportsFit'
<1>1. LoopIInv(ReportRequests)
  BY DEF ReportsIInv
<1>2. ASSUME PlacesFit(ReportPlaces)', NEW w \in Workers, NEW drafts \in SUBSET PptxFiles,
             draft' \in {draft, [draft EXCEPT ![w] = drafts]},
             NEW id \in Nat, ready' \in {ready, ready \cup {id}}
      PROVE  ReportsFit'
  BY <1>2 DEF ReportsFit, IsOn
<1>3. ASSUME NEW w \in Workers, NEW where, Step(w, where), where \in {"ack", "commit", "ready"}
      PROVE  PlacesFit(ReportPlaces)'
  <2>1. where \in LoopPlaces(ReportPlaces)
    BY <1>3 DEF LoopPlaces, ReportPlaces
  <2>2. QED
    BY <1>1, <1>3, <2>1, PlaceFits DEF Step, ReportsFit
<1>4. ASSUME NEW w \in Workers, NEW id, NEW reply,
             Consume(w, reply) \/ CrashLoop(w) \/ Acknowledge(w, id, reply) \/ Abandon(w)
                \/ Finished(w, id)
      PROVE  PlacesFit(ReportPlaces)'
  BY <1>1, <1>4, LoopPlacesFit DEF ReportsFit
<1>5. CASE UNCHANGED <<place, draft, ready>>
  BY <1>5 DEF ReportsFit, PlacesFit
<1>6. ASSUME NEW w \in Workers, NEW id \in todo[w], NEW reply, BuildReport(w, id, reply)
      PROVE  ReportsFit'
  <2>1. ready' = ready /\ \/ draft' = draft
                          \/ \E file \in PptxFiles : draft' = [draft EXCEPT ![w] = {file}]
    BY <1>6 DEF BuildReport, FilesFor, PptxFiles
  <2>2. PlacesFit(ReportPlaces)'
    BY <1>3, <1>4, <1>6 DEF BuildReport, LeavePending
  <2>3. QED
    BY <1>2, <2>1, <2>2
<1>7. ASSUME NEW w \in Workers, Listen(w) PROVE ReportsFit'
  <2>1. PICK reply \in Replies :
           \/ Consume(w, reply) /\ UNCHANGED <<draft, reports, ready>>
           \/ \E id \in todo[w] :
                 \/ MalformedRequest(w, id)
                 \/ BuildReport(w, id, reply)
                 \/ CommitReport(w, id, reply)
                 \/ PublishReady(w, id, reply)
                 \/ AckReport(w, id, reply)
    BY <1>7 DEF Listen
  <2>2. todo[w] \subseteq Nat
    BY <1>1 DEF LoopIInv
  <2>3. CASE Consume(w, reply) /\ UNCHANGED <<draft, reports, ready>>
    BY <1>2, <1>4, <2>3
  <2>4. ASSUME NEW id \in todo[w], MalformedRequest(w, id) \/ AckReport(w, id, reply)
        PROVE  ReportsFit'
    BY <1>2, <1>4, <2>4 DEF MalformedRequest, AckReport
  <2>5. ASSUME NEW id \in todo[w], CommitReport(w, id, reply) PROVE ReportsFit'
    <3>1. PlacesFit(ReportPlaces)'
      BY <1>3, <1>4, <2>5 DEF CommitReport, LeavePending
    <3>2. QED
      BY <1>2, <2>5, <3>1 DEF CommitReport
  <2>6. ASSUME NEW id \in todo[w], PublishReady(w, id, reply) PROVE ReportsFit'
    <3>1. PlacesFit(ReportPlaces)'
      BY <1>3, <1>4, <2>6 DEF PublishReady, LeavePending
    <3>2. QED
      BY <1>2, <2>2, <2>6, <3>1 DEF PublishReady
  <2>7. QED
    BY <1>6, <2>1, <2>3, <2>4, <2>5, <2>6
<1>8. ASSUME NEW w \in Workers, CrashReports(w) PROVE ReportsFit'
  BY <1>2, <1>4, <1>8 DEF CrashReports
<1>9. QED
  BY <1>5, <1>7, <1>8 DEF ReportsNext, AskReport, Add, Enter, reportVars, loopVars

(* What is known says that the state has its type.                         *)
LEMMA ReportsAreTyped == ReportsIInv /\ ReportsFit => ReportsTypeOK
  BY LoopIsTyped DEF ReportsIInv, IsOn, ReportsFit, ReportsTypeOK

(* So it is at first.                                                      *)
LEMMA ReportsInitFit == ReportsInit => ReportsFit
  BY DEF ReportsInit, LoopInit, ReportsFit, PlacesFit, LoopPlaces, IsOn

-----------------------------------------------------------------------------
(* The enrichment service.                                                 *)

EnrichmentFits ==
    /\ PlacesFit(EnrichmentPlaces)
    /\ enriched \subseteq EnrichableMentions \X BOOLEAN
    /\ done \subseteq EnrichableMentions

(* An author is a bot or is not.                                           *)
LEMMA BotOrNot == \A author : DetectBot(author) \in BOOLEAN
<1> SUFFICES ASSUME NEW author PROVE DetectBot(author) \in BOOLEAN
  OBVIOUS
<1>1. ActivityRisk(author.age, author.posts) \in Nat
  BY DEF ActivityRisk
<1>2. FollowRisk(author.followers, author.following) \in Nat
  BY DEF FollowRisk
<1>3. FrequencyRisk(author.age, author.posts) \in Nat
  BY DEF FrequencyRisk
<1>4. BioRisk(author.bio) \in Nat
  BY DEF BioRisk
<1>5. PICK risk \in Nat : DetectBot(author) = (risk >= 10)
  BY <1>1, <1>2, <1>3, <1>4 DEF DetectBot
<1>6. QED
  BY <1>5

(* What is enriched or remembered is a mention.                            *)
LEMMA EnrichmentNextFits ==
    ASSUME EnrichmentIInv, EnrichmentFits, [EnrichmentNext]_enrichmentVars
    PROVE  EnrichmentFits'
<1>1. LoopIInv(EnrichableMentions \cup {0})
  BY DEF EnrichmentIInv
<1>2. ASSUME PlacesFit(EnrichmentPlaces)', enriched' = enriched, done' \subseteq done
      PROVE  EnrichmentFits'
  BY <1>2 DEF EnrichmentFits
<1>3. ASSUME NEW w, NEW where, Goto(w, where), where \in {"finally"} \cup EnrichmentPlaces
      PROVE  PlacesFit(EnrichmentPlaces)'
  <2>1. where \in LoopPlaces(EnrichmentPlaces)
    BY <1>3 DEF LoopPlaces
  <2>2. QED
    BY <1>1, <1>3, <2>1, PlaceFits DEF EnrichmentFits
<1>4. ASSUME NEW w \in Workers, NEW id, NEW reply,
             Consume(w, reply) \/ CrashLoop(w) \/ AckFinally(w, id, reply)
      PROVE  PlacesFit(EnrichmentPlaces)'
  BY <1>1, <1>4, LoopPlacesFit DEF AckFinally, EnrichmentFits
<1>5. CASE UNCHANGED <<place, enriched, done>>
  BY <1>5 DEF EnrichmentFits, PlacesFit
<1>6. ASSUME NEW m, ExpireDone(m) PROVE EnrichmentFits'
  BY <1>6 DEF ExpireDone, loopVars, EnrichmentFits, PlacesFit
<1>7. ASSUME NEW w \in Workers, EnrichmentStep(w) PROVE EnrichmentFits'
  <2>1. ASSUME NEW reply, Consume(w, reply), UNCHANGED <<enriched, enrichResults, done, lapses>>
        PROVE  EnrichmentFits'
    BY <1>2, <1>4, <2>1
  <2>2. ASSUME NEW id, NEW reply,
               LookUpDone(w, id, reply) \/ AckDuplicate(w, id, reply) \/ PublishScores(w, id, reply)
        PROVE  EnrichmentFits'
    <3>1. PICK where \in {"finally"} \cup EnrichmentPlaces : Goto(w, where)
      BY <2>2 DEF LookUpDone, AckDuplicate, PublishScores, Step, EnrichmentPlaces
    <3>2. enriched' = enriched /\ done' = done
      BY <2>2 DEF LookUpDone, AckDuplicate, PublishScores
    <3>3. QED
      BY <1>2, <1>3, <3>1, <3>2
  <2>3. ASSUME NEW id \in todo[w], NEW reply, EnrichMention(w, id, reply) PROVE EnrichmentFits'
    <3>1. PICK where \in {"finally"} \cup EnrichmentPlaces : Goto(w, where)
      BY <2>3 DEF EnrichMention, Step, EnrichmentPlaces
    <3>2. EntryAt(id) \in EnrichableMentions /\ done' = done
      BY <2>3 DEF EnrichMention, EnrichmentIInv, AtScores
    <3>3. PICK bot \in BOOLEAN : bot = DetectBot(AuthorOf[EntryAt(id)])
      BY BotOrNot
    <3>4. enriched' \subseteq enriched \cup {<<EntryAt(id), bot>>}
      BY <2>3, <3>3 DEF EnrichMention
    <3>5. PlacesFit(EnrichmentPlaces)'
      BY <1>3, <3>1
    <3>6. QED
      BY <3>2, <3>4, <3>5 DEF EnrichmentFits
  <2>4. ASSUME NEW id \in todo[w], NEW reply, Remember(w, id, reply) PROVE EnrichmentFits'
    <3>1. Goto(w, "finally")
      BY <2>4 DEF Remember, Step
    <3>2. EntryAt(id) \in EnrichableMentions /\ enriched' = enriched
      BY <2>4 DEF Remember, EnrichmentIInv, AtScores
    <3>3. done' \subseteq done \cup {EntryAt(id)}
      BY <2>4 DEF Remember
    <3>4. PlacesFit(EnrichmentPlaces)'
      BY <1>3, <3>1
    <3>5. QED
      BY <3>2, <3>3, <3>4 DEF EnrichmentFits
  <2>5. ASSUME NEW id, NEW reply, AckFinally(w, id, reply),
               UNCHANGED <<enriched, enrichResults, done, lapses>>
        PROVE  EnrichmentFits'
    BY <1>2, <1>4, <2>5
  <2>6. QED
    BY <1>7, <2>1, <2>2, <2>3, <2>4, <2>5 DEF EnrichmentStep
<1>8. ASSUME NEW w \in Workers, CrashEnrichment(w) \/ \E id \in todo[w] : RefuseMention(w, id)
      PROVE  EnrichmentFits'
  BY <1>2, <1>3, <1>4, <1>8 DEF CrashEnrichment, RefuseMention, Step
<1>9. QED
  BY <1>5, <1>6, <1>7, <1>8 DEF EnrichmentNext, RequestEnrichment, Enter, enrichmentVars, loopVars

(* What is known says that the state has its type.                         *)
LEMMA EnrichmentIsTyped == EnrichmentIInv /\ EnrichmentFits => EnrichmentTypeOK
  BY LoopIsTyped DEF EnrichmentIInv, EnrichmentFits, EnrichmentTypeOK

(* So it is at first.                                                      *)
LEMMA EnrichmentInitFits == EnrichmentInit => EnrichmentFits
  BY DEF EnrichmentInit, LoopInit, EnrichmentFits, PlacesFit, LoopPlaces

-----------------------------------------------------------------------------
(* The notification service.                                               *)

NotificationFits ==
    /\ PlacesFit(NotificationPlaces)
    /\ clock \in 0 .. MaxClock
    /\ \A w \in Workers : counters[w] \subseteq [id : Nat, at : 0 .. MaxClock]
    /\ IsOn(rulesLeft, Workers) /\ \A w \in Workers : rulesLeft[w] \subseteq AlertRules
    /\ \A w \in Workers : alerting[w] \subseteq AlertRules
    /\ alertLog \subseteq [rule : AlertRules, id : Nat, recent : Nat]
    /\ notified \subseteq AlertRules \X Nat
    /\ alertDlq \subseteq Nat

(* Nothing is counted, logged or sent.                                     *)
LEMMA NotificationQuietFits ==
    ASSUME NotificationFits, PlacesFit(NotificationPlaces)',
           UNCHANGED <<clock, counters, alerting, alertLog, notified>>,
           NEW w \in Workers, NEW rules \in SUBSET AlertRules,
           rulesLeft' \in {rulesLeft, [rulesLeft EXCEPT ![w] = rules]},
           NEW id \in Nat, alertDlq' \in {alertDlq, alertDlq \cup {id}}
    PROVE  NotificationFits'
<1>1. IsOn(rulesLeft', Workers) /\ \A v \in Workers : rulesLeft'[v] \subseteq AlertRules
  BY DEF NotificationFits, IsOn
<1>2. QED
  BY <1>1 DEF NotificationFits

(* The except clause and a step inside the handler stay within its places. *)
LEMMA NotificationPlacesFit ==
    ASSUME NotificationIInv, NotificationFits, NEW w \in Workers, NEW id, NEW reply,
           NEW transient, NEW where \in NotificationPlaces,
           \/ Goto(w, where) \/ Consume(w, reply) \/ Acknowledge(w, id, reply)
           \/ Finished(w, id) \/ CrashLoop(w) \/ Except(w, id, transient)
    PROVE  PlacesFit(NotificationPlaces)'
<1>1. LoopIInv(AnalyzedMentions) /\ PlacesFit(NotificationPlaces)
  BY DEF NotificationIInv, NotificationFits
<1>2. where \in LoopPlaces(NotificationPlaces) /\ "dlq" \in LoopPlaces(NotificationPlaces)
  BY DEF LoopPlaces, NotificationPlaces
<1>3. CASE Goto(w, where) \/ Goto(w, "dlq")
  BY <1>1, <1>2, <1>3, PlaceFits
<1>4. CASE Consume(w, reply) \/ Acknowledge(w, id, reply) \/ Finished(w, id) \/ CrashLoop(w)
  BY <1>1, <1>4, LoopPlacesFit
<1>5. QED
  BY <1>3, <1>4 DEF Except

(* What counts, logs and sends nothing.                                    *)
LEMMA NotificationHandlerFits ==
    ASSUME NotificationIInv, NotificationFits, NEW w \in Workers, NEW id \in todo[w], NEW reply,
           \/ RefuseAnalyzed(w, id)
           \/ LoadRules(w, id, reply)
           \/ \E rule \in rulesLeft[w] : PassRule(w, id, rule, reply)
           \/ AckEvaluated(w, id, reply)
           \/ MoveAnalyzed(w, id, reply)
           \/ MoveAnalyzedAck(w, id, reply)
           \/ AckUnmoved(w, id, reply)
    PROVE  NotificationFits'
<1>1. id \in Nat /\ IsOn(rulesLeft, Workers) /\ rulesLeft[w] \subseteq AlertRules
  BY DEF NotificationIInv, LoopIInv, NotificationFits
<1>2. {} \subseteq AlertRules /\ RulesOf(EntryAt(id).project) \subseteq AlertRules
      /\ \A rule : rulesLeft[w] \ {rule} \subseteq AlertRules
  BY <1>1 DEF RulesOf
<1>3. {"rules", "last_resort", "dlq_ack"} \subseteq NotificationPlaces
  BY DEF NotificationPlaces
<1>4. CASE RefuseAnalyzed(w, id)
  <2>1. PlacesFit(NotificationPlaces)'
    BY <1>3, <1>4, NotificationPlacesFit DEF RefuseAnalyzed
  <2>2. /\ rulesLeft' = [rulesLeft EXCEPT ![w] = {}]
        /\ UNCHANGED <<clock, counters, alerting, alertLog, notified, alertDlq>>
    BY <1>4 DEF RefuseAnalyzed, Except
  <2>3. {} \in SUBSET AlertRules
    OBVIOUS
  <2>4. QED
    BY <1>1, <2>1, <2>2, <2>3, NotificationQuietFits
<1>5. CASE LoadRules(w, id, reply)
  <2>1. PlacesFit(NotificationPlaces)'
    BY <1>3, <1>5, NotificationPlacesFit DEF LoadRules, Step
  <2>2. \/ rulesLeft' = [rulesLeft EXCEPT ![w] = {}]
        \/ rulesLeft' = [rulesLeft EXCEPT ![w] = RulesOf(EntryAt(id).project)]
    BY <1>5 DEF LoadRules, Except
  <2>3. UNCHANGED <<clock, counters, alerting, alertLog, notified, alertDlq>>
    BY <1>5 DEF LoadRules
  <2>4. QED
    BY <1>1, <1>2, <2>1, <2>2, <2>3, NotificationQuietFits
<1>6. ASSUME NEW rule \in rulesLeft[w], PassRule(w, id, rule, reply) PROVE NotificationFits'
  <2>1. PlacesFit(NotificationPlaces)'
    BY <1>3, <1>6, NotificationPlacesFit DEF PassRule, Step
  <2>2. \/ rulesLeft' = [rulesLeft EXCEPT ![w] = {}]
        \/ rulesLeft' = [rulesLeft EXCEPT ![w] = rulesLeft[w] \ {rule}]
    BY <1>6 DEF PassRule, Except
  <2>3. UNCHANGED <<clock, counters, alerting, alertLog, notified, alertDlq>>
    BY <1>6 DEF PassRule
  <2>4. QED
    BY <1>1, <1>2, <2>1, <2>2, <2>3, NotificationQuietFits
<1>7. CASE AckEvaluated(w, id, reply) \/ AckUnmoved(w, id, reply) \/ MoveAnalyzedAck(w, id, reply)
  <2>1. PlacesFit(NotificationPlaces)'
    BY <1>3, <1>7, NotificationPlacesFit DEF AckEvaluated, AckUnmoved, MoveAnalyzedAck
  <2>2. UNCHANGED <<clock, counters, rulesLeft, alerting, alertLog, notified, alertDlq>>
    BY <1>7 DEF AckEvaluated, AckUnmoved, MoveAnalyzedAck
  <2>3. QED
    BY <1>1, <2>1, <2>2, NotificationQuietFits
<1>8. CASE MoveAnalyzed(w, id, reply)
  <2>1. PlacesFit(NotificationPlaces)'
    BY <1>3, <1>8, NotificationPlacesFit DEF MoveAnalyzed, Step
  <2>2. /\ UNCHANGED <<clock, counters, rulesLeft, alerting, alertLog, notified>>
        /\ alertDlq' \in {alertDlq, alertDlq \cup {id}}
    BY <1>8 DEF MoveAnalyzed
  <2>3. QED
    BY <1>1, <2>1, <2>2, NotificationQuietFits
<1>9. QED
  BY <1>4, <1>5, <1>6, <1>7, <1>8

(* What is counted, logged or sent is a delivered mention, at a tick there *)
(* was, and a rule.                                                        *)
LEMMA NotificationAlertFits ==
    ASSUME NotificationIInv, NotificationFits, NotificationIInv', NEW w \in Workers, NEW id \in todo[w],
           \/ CountMention(w, id)
           \/ \E reply \in Replies, rule \in rulesLeft[w] : LogAlert(w, id, rule, reply)
           \/ \E rule \in alerting[w] : SendNotifications(w, id, rule)
    PROVE  NotificationFits'
<1>1. id \in Nat /\ IsOn(rulesLeft, Workers) /\ IsOn(counters, Workers) /\ IsOn(alerting, Workers)
  BY DEF NotificationIInv, LoopIInv, NotificationFits, Counting, Sending
<1>2. {"load", "rules", "send"} \subseteq NotificationPlaces
  BY DEF NotificationPlaces
<1>3. CASE CountMention(w, id)
  <2>1. PlacesFit(NotificationPlaces)'
    BY <1>2, <1>3, NotificationPlacesFit DEF CountMention, Step
  <2>2. PICK kept \in SUBSET (counters[w] \cup {[id |-> id, at |-> clock]}) :
           counters' = [counters EXCEPT ![w] = kept]
    BY <1>3 DEF CountMention
  <2>3. [id |-> id, at |-> clock] \in [id : Nat, at : 0 .. MaxClock]
    BY <1>1 DEF NotificationFits
  <2>4. \A v \in Workers : counters'[v] \subseteq [id : Nat, at : 0 .. MaxClock]
    BY <1>1, <2>2, <2>3 DEF NotificationFits, IsOn
  <2>5. UNCHANGED <<clock, rulesLeft, alerting, alertLog, notified, alertDlq>>
    BY <1>3 DEF CountMention
  <2>6. QED
    BY <2>1, <2>4, <2>5 DEF NotificationFits
<1>4. ASSUME NEW reply \in Replies, NEW rule \in rulesLeft[w], LogAlert(w, id, rule, reply)
      PROVE  NotificationFits'
  <2>1. PlacesFit(NotificationPlaces)'
    BY <1>2, <1>4, NotificationPlacesFit DEF LogAlert, Step
  <2>2. rule \in AlertRules
    BY <1>4 DEF NotificationFits
  <2>3. PICK n : Alert(w, id, rule) = [rule |-> rule, id |-> id, recent |-> n]
    BY DEF Alert
  <2>4. \A a \in alertLog' : a.recent \in Nat
    BY DEF NotificationIInv, Logging
  <2>5. alertLog' \subseteq [rule : AlertRules, id : Nat, recent : Nat]
    <3>1. CASE alertLog' = alertLog
      BY <3>1 DEF NotificationFits
    <3>2. CASE alertLog' = alertLog \cup {[rule |-> rule, id |-> id, recent |-> n]}
      <4>1. [rule |-> rule, id |-> id, recent |-> n] \in alertLog'
        BY <3>2
      <4>2. [rule |-> rule, id |-> id, recent |-> n].recent \in Nat
        BY <2>4, <4>1
      <4>3. QED
        BY <1>1, <2>2, <3>2, <4>2 DEF NotificationFits
    <3>3. QED
      BY <1>4, <2>3, <3>1, <3>2 DEF LogAlert
  <2>6. \E rules \in SUBSET AlertRules : rulesLeft' = [rulesLeft EXCEPT ![w] = rules]
    <3>1. \/ rulesLeft' = [rulesLeft EXCEPT ![w] = {}]
          \/ rulesLeft' = [rulesLeft EXCEPT ![w] = rulesLeft[w] \ {rule}]
      BY <1>4 DEF LogAlert, Except
    <3>2. QED
      BY <3>1 DEF NotificationFits
  <2>7. IsOn(rulesLeft', Workers) /\ \A v \in Workers : rulesLeft'[v] \subseteq AlertRules
    BY <1>1, <2>6 DEF NotificationFits, IsOn
  <2>8. alerting' = alerting \/ alerting' = [alerting EXCEPT ![w] = {rule}]
    BY <1>4 DEF LogAlert
  <2>9. \A v \in Workers : alerting'[v] \subseteq AlertRules
    BY <1>1, <2>2, <2>8 DEF NotificationFits, IsOn
  <2>10. UNCHANGED <<clock, counters, notified, alertDlq>>
    BY <1>4 DEF LogAlert
  <2>11. QED
    BY <2>1, <2>5, <2>7, <2>9, <2>10 DEF NotificationFits
<1>5. ASSUME NEW rule \in alerting[w], SendNotifications(w, id, rule) PROVE NotificationFits'
  <2>1. PlacesFit(NotificationPlaces)'
    BY <1>2, <1>5, NotificationPlacesFit DEF SendNotifications, Step
  <2>2. notified' \in {notified, notified \cup {<<rule, id>>}} /\ alerting' = [alerting EXCEPT ![w] = {}]
    BY <1>5 DEF SendNotifications
  <2>3. rule \in AlertRules
    BY <1>5 DEF NotificationFits
  <2>4. \A v \in Workers : alerting'[v] \subseteq AlertRules
    BY <1>1, <2>2 DEF NotificationFits, IsOn
  <2>5. UNCHANGED <<clock, counters, rulesLeft, alertLog, alertDlq>>
    BY <1>5 DEF SendNotifications
  <2>6. notified' \subseteq AlertRules \X Nat
    BY <1>1, <2>2, <2>3 DEF NotificationFits
  <2>7. QED
    BY <2>1, <2>4, <2>5, <2>6 DEF NotificationFits
<1>6. QED
  BY <1>3, <1>4, <1>5

(* Every step of the service.                                              *)
LEMMA NotificationNextFits ==
    ASSUME NotificationIInv, NotificationFits, [NotificationNext]_notificationVars
    PROVE  NotificationFits'
<1>1. NotificationIInv'
  BY NotificationStepInv
<1>2. IsOn(counters, Workers) /\ IsOn(rulesLeft, Workers) /\ IsOn(alerting, Workers)
  BY DEF NotificationIInv, NotificationFits, Counting, Sending
<1>3. CASE UNCHANGED <<place, clock, counters, rulesLeft, alerting, alertLog, notified, alertDlq>>
  BY <1>3 DEF NotificationFits, PlacesFit
<1>4. CASE Tick
  <2>1. UNCHANGED <<place, counters, rulesLeft, alerting, alertLog, notified, alertDlq>>
        /\ clock' = clock + 1 /\ clock < MaxClock
    BY <1>4 DEF Tick, loopVars
  <2>2. clock' \in 0 .. MaxClock
    BY <2>1, NotificationAssumption DEF NotificationFits
  <2>3. QED
    BY <2>1, <2>2 DEF NotificationFits, PlacesFit
<1>5. ASSUME NEW w \in Workers, CrashNotification(w) PROVE NotificationFits'
  <2>1. "load" \in NotificationPlaces
    BY DEF NotificationPlaces
  <2>2. PlacesFit(NotificationPlaces)'
    BY <1>5, <2>1, NotificationPlacesFit DEF CrashNotification
  <2>3. QED
    BY <1>2, <1>5, <2>2 DEF CrashNotification, NotificationFits, IsOn
<1>6. ASSUME NEW w \in Workers, NEW reply, Consume(w, reply),
             UNCHANGED <<clock, counters, rulesLeft, alerting, alertLog, notified, alertDlq>>
      PROVE  NotificationFits'
  <2>1. "load" \in NotificationPlaces
    BY DEF NotificationPlaces
  <2>2. PlacesFit(NotificationPlaces)'
    BY <1>6, <2>1, NotificationPlacesFit
  <2>3. QED
    BY <1>6, <2>2 DEF NotificationFits
<1>7. ASSUME NEW w \in Workers, NotificationStep(w) PROVE NotificationFits'
  <2>1. ASSUME NEW id \in todo[w], NEW reply \in Replies,
               \/ RefuseAnalyzed(w, id)
               \/ LoadRules(w, id, reply)
               \/ \E rule \in rulesLeft[w] : PassRule(w, id, rule, reply)
               \/ AckEvaluated(w, id, reply)
               \/ MoveAnalyzed(w, id, reply)
               \/ MoveAnalyzedAck(w, id, reply)
               \/ AckUnmoved(w, id, reply)
        PROVE  NotificationFits'
    BY <2>1, NotificationHandlerFits
  <2>2. ASSUME NEW id \in todo[w], RefuseAnalyzed(w, id) PROVE NotificationFits'
    BY <2>2, NotificationHandlerFits
  <2>3. ASSUME NEW id \in todo[w],
               \/ CountMention(w, id)
               \/ \E reply \in Replies, rule \in rulesLeft[w] : LogAlert(w, id, rule, reply)
               \/ \E rule \in alerting[w] : SendNotifications(w, id, rule)
        PROVE  NotificationFits'
    BY <1>1, <2>3, NotificationAlertFits
  <2>4. QED
    BY <1>6, <1>7, <2>1, <2>2, <2>3 DEF NotificationStep
<1>8. QED
  BY <1>3, <1>4, <1>5, <1>7 DEF NotificationNext, AddAnalyzed, Add, Enter, notificationVars, loopVars

(* What is known says that the state has its type.                         *)
LEMMA NotificationIsTyped == NotificationIInv /\ NotificationFits => NotificationTypeOK
  BY LoopIsTyped DEF NotificationIInv, Counting, Sending, IsOn, NotificationFits, NotificationTypeOK

(* So it is at first.                                                      *)
LEMMA NotificationInitFits == NotificationInit => NotificationFits
  BY NotificationAssumption DEF NotificationInit, LoopInit, NotificationFits, PlacesFit, LoopPlaces, IsOn

-----------------------------------------------------------------------------
(* The audit service.                                                      *)

RoundPlaces == {"idle", "orgs", "default", "commit"}

PurgePlaces == {"idle", "flush", "commit"}

AuditFits ==
    /\ PlacesFit({})
    /\ day \in 0 .. MaxDay
    /\ \A org \in Orgs : policy[org] \in {{p} : p \in Policies} \cup {NoPolicy}
    /\ members \subseteq Orgs \X Users
    /\ anonymous \subseteq Users
    /\ \A t \in Rounds : round[t].at \in RoundPlaces
    /\ \A p \in Purges : purge[p].at \in PurgePlaces

(* A round goes from place to place.                                       *)
LEMMA RetentionFits ==
    ASSUME RetentionIInv, AuditFits, NEW t \in Rounds, Retention(t)
    PROVE  AuditFits'
<1>1. IsOn(round, Rounds) /\ HasFields(round[t], RoundFields) /\ round[t].at \in RoundPlaces
  BY DEF RetentionIInv, RoundFits, AuditFits
<1>2. UNCHANGED <<loopVars, day, policy, members, anonymous, purge>>
  BY DEF Retention, BeginRound, DeleteOfOrg, ReadPolicyOrgs, DeleteByDefault, CommitRound
<1>3. ASSUME NEW to, round' = [round EXCEPT ![t] = to], to.at \in RoundPlaces PROVE AuditFits'
  <2>1. \A u \in Rounds : round'[u].at \in RoundPlaces
    BY <1>1, <1>3 DEF AuditFits, IsOn
  <2>2. QED
    BY <1>2, <2>1 DEF AuditFits, PlacesFit, loopVars
<1>4. ASSUME NEW orgs, BeginRound(t, orgs) PROVE AuditFits'
  <2>1. PICK left, inForce :
           round' = [round EXCEPT ![t] = [at |-> "orgs", day |-> day, plan |-> policy,
                                          doomed |-> {}, left |-> left, inForce |-> inForce]]
    BY <1>4 DEF BeginRound
  <2>2. QED
    BY <1>3, <2>1 DEF RoundPlaces
<1>5. ASSUME NEW org, DeleteOfOrg(t, org) PROVE AuditFits'
  <2>1. PICK doomed :
           round' = [round EXCEPT ![t] = [round[t] EXCEPT !.left = round[t].left \ {org},
                                                          !.doomed = doomed]]
    BY <1>1, <1>5 DEF DeleteOfOrg, IsOn
  <2>2. [round[t] EXCEPT !.left = round[t].left \ {org}, !.doomed = doomed].at = round[t].at
    BY <1>1 DEF HasFields, RoundFields
  <2>3. QED
    BY <1>1, <1>3, <2>1, <2>2
<1>6. ASSUME NEW where \in RoundPlaces, NEW left, NEW doomed,
             round' = [round EXCEPT ![t] = [round[t] EXCEPT !.at = where, !.left = left,
                                                            !.doomed = doomed]]
      PROVE  AuditFits'
  <2>1. [round[t] EXCEPT !.at = where, !.left = left, !.doomed = doomed].at = where
    BY <1>1 DEF HasFields, RoundFields
  <2>2. QED
    BY <1>3, <1>6, <2>1
<1>7. CASE ReadPolicyOrgs(t)
  <2>1. PICK left : round' = [round EXCEPT ![t] = [round[t] EXCEPT !.at = "default", !.left = left]]
    BY <1>1, <1>7 DEF ReadPolicyOrgs, IsOn
  <2>2. [round[t] EXCEPT !.at = "default", !.left = left].at = "default"
    BY <1>1 DEF HasFields, RoundFields
  <2>3. QED
    BY <1>3, <2>1, <2>2 DEF RoundPlaces
<1>8. CASE DeleteByDefault(t)
  <2>1. PICK doomed :
           round' = [round EXCEPT ![t] = [round[t] EXCEPT !.at = "commit", !.left = {},
                                                          !.doomed = doomed]]
    BY <1>1, <1>8 DEF DeleteByDefault, IsOn
  <2>2. QED
    BY <1>6, <2>1 DEF RoundPlaces
<1>9. ASSUME NEW reply, CommitRound(t, reply) PROVE AuditFits'
  BY <1>3, <1>9 DEF CommitRound, Idle, RoundPlaces
<1>10. QED
  BY <1>4, <1>5, <1>7, <1>8, <1>9 DEF Retention

(* A change of policy is of one organisation, and no round moves.          *)
LEMMA ConfigureFits ==
    ASSUME RetentionIInv, AuditFits, NEW org \in Orgs, NEW p \in Policies, ConfigureRetention(org, p)
    PROVE  AuditFits'
<1>1. IsOn(policy, Orgs) /\ policy' = [policy EXCEPT ![org] = {p}]
  BY DEF RetentionIInv, ConfigureRetention
<1>2. \A o \in Orgs : policy'[o] \in {{q} : q \in Policies} \cup {NoPolicy}
  BY <1>1 DEF AuditFits, IsOn
<1>3. ASSUME NEW t \in Rounds PROVE round'[t].at = round[t].at
  <2>1. PICK inForce : round'[t] = [round[t] EXCEPT !.inForce = inForce]
    BY DEF ConfigureRetention
  <2>2. HasFields(round[t], RoundFields)
    BY DEF RetentionIInv, RoundFits
  <2>3. QED
    BY <2>1, <2>2 DEF HasFields, RoundFields
<1>4. UNCHANGED <<place, day, members, anonymous, purge>>
  BY DEF ConfigureRetention, loopVars
<1>5. QED
  BY <1>2, <1>3, <1>4 DEF AuditFits, PlacesFit

(* A purge goes from place to place, and takes members away.               *)
LEMMA PurgingFits ==
    ASSUME PurgeIInv, AuditFits, NEW p \in Purges, Purging(p)
    PROVE  AuditFits'
<1>1. IsOn(purge, Purges) /\ HasFields(purge[p], PurgeFields) /\ purge[p].at \in PurgePlaces
      /\ (purge[p].at # "idle" => purge[p].user \in Users)
  BY DEF PurgeIInv, SelectedAll, AuditFits
<1>2. UNCHANGED <<loopVars, day, policy, round>>
  BY DEF Purging, BeginPurge, FlushPurge, CommitPurge
<1>3. ASSUME NEW to, purge' = [purge EXCEPT ![p] = to], to.at \in PurgePlaces,
             members' \subseteq members, anonymous' \subseteq Users
      PROVE  AuditFits'
  <2>1. \A q \in Purges : purge'[q].at \in PurgePlaces
    BY <1>1, <1>3 DEF AuditFits, IsOn
  <2>2. QED
    BY <1>2, <1>3, <2>1 DEF AuditFits, PlacesFit, loopVars
<1>4. anonymous \subseteq Users
  BY DEF AuditFits
<1>5. ASSUME NEW org, NEW user, BeginPurge(p, org, user) PROVE AuditFits'
  <2>1. PICK selected :
           purge' = [purge EXCEPT ![p] = [IdlePurge EXCEPT !.at = "flush", !.org = org,
                                                           !.user = user, !.selected = selected]]
    BY <1>5 DEF BeginPurge
  <2>2. [IdlePurge EXCEPT !.at = "flush", !.org = org, !.user = user, !.selected = selected].at = "flush"
    BY DEF IdlePurge
  <2>3. members' = members /\ anonymous' = anonymous
    BY <1>5 DEF BeginPurge
  <2>4. QED
    BY <1>3, <1>4, <2>1, <2>2, <2>3 DEF PurgePlaces
<1>6. CASE FlushPurge(p)
  <2>1. members' = members /\ anonymous' = anonymous
    BY <1>6 DEF FlushPurge
  <2>2. CASE purge' = [purge EXCEPT ![p] = IdlePurge]
    BY <1>3, <1>4, <2>1, <2>2 DEF IdlePurge, PurgePlaces
  <2>3. ASSUME NEW last, purge' = [purge EXCEPT ![p] = [purge[p] EXCEPT !.at = "commit", !.last = last]]
        PROVE  AuditFits'
    <3>1. [purge[p] EXCEPT !.at = "commit", !.last = last].at = "commit"
      BY <1>1 DEF HasFields, PurgeFields
    <3>2. QED
      BY <1>3, <1>4, <2>1, <2>3, <3>1 DEF PurgePlaces
  <2>4. QED
    BY <1>1, <1>6, <2>2, <2>3 DEF FlushPurge, IsOn
<1>7. ASSUME NEW reply, CommitPurge(p, reply) PROVE AuditFits'
  <2>1. purge' = [purge EXCEPT ![p] = IdlePurge] /\ members' \subseteq members
    BY <1>7 DEF CommitPurge
  <2>2. anonymous' \in {anonymous, anonymous \cup {purge[p].user}} /\ purge[p].at # "idle"
    BY <1>7 DEF CommitPurge
  <2>3. anonymous' \subseteq Users
    BY <1>1, <1>4, <2>2
  <2>4. IdlePurge.at \in PurgePlaces
    BY DEF IdlePurge, PurgePlaces
  <2>5. QED
    BY <1>3, <2>1, <2>3, <2>4
<1>8. QED
  BY <1>5, <1>6, <1>7 DEF Purging

(* Every step of the audit service.                                        *)
LEMMA AuditNextFits ==
    ASSUME RetentionIInv, PurgeIInv, AuditFits, [AuditNext]_auditVars
    PROVE  AuditFits'
<1>1. LoopIInv(AuditEvents) /\ PlacesFit({})
  BY DEF PurgeIInv, AuditFits
<1>2. ASSUME PlacesFit({})', UNCHANGED <<day, policy, members, anonymous, round, purge>>
      PROVE  AuditFits'
  BY <1>2 DEF AuditFits
<1>3. CASE UNCHANGED <<place, day, policy, members, anonymous, round, purge>>
  BY <1>1, <1>2, <1>3 DEF PlacesFit
<1>4. ASSUME NEW w \in Workers, AuditConsumer(w) PROVE AuditFits'
  <2>1. PICK reply \in Replies :
          \/ Consume(w, reply) /\ AuditUnchanged
          \/ \E id \in todo[w] : \/ StoreAudit(w, id, reply)
                                 \/ AckFinally(w, id, reply) /\ AuditUnchanged
    BY <1>4 DEF AuditConsumer
  <2>2. CASE Consume(w, reply) /\ AuditUnchanged
    BY <1>1, <1>2, <2>2, LoopPlacesFit DEF AuditUnchanged
  <2>3. ASSUME NEW id \in todo[w], StoreAudit(w, id, reply) PROVE AuditFits'
    <3>1. "finally" \in LoopPlaces({})
      BY DEF LoopPlaces
    <3>2. PlacesFit({})'
      BY <1>1, <2>3, <3>1, PlaceFits DEF StoreAudit, Step
    <3>3. QED
      BY <1>2, <2>3, <3>2 DEF StoreAudit
  <2>4. ASSUME NEW id \in todo[w], AckFinally(w, id, reply) /\ AuditUnchanged PROVE AuditFits'
    BY <1>1, <1>2, <2>4, LoopPlacesFit DEF AuditUnchanged, AckFinally
  <2>5. QED
    BY <2>1, <2>2, <2>3, <2>4
<1>5. ASSUME NEW w \in Workers, CrashLoop(w) /\ AuditUnchanged PROVE AuditFits'
  BY <1>1, <1>2, <1>5, LoopPlacesFit DEF AuditUnchanged
<1>6. CASE NextDay
  <2>1. UNCHANGED <<place, policy, members, anonymous, round, purge>> /\ day' = day + 1 /\ day < MaxDay
    BY <1>6 DEF NextDay, loopVars
  <2>2. day' \in 0 .. MaxDay
    BY <2>1, AuditAssumption DEF AuditFits
  <2>3. QED
    BY <2>1, <2>2 DEF AuditFits, PlacesFit
<1>7. QED
  BY <1>3, <1>4, <1>5, <1>6, RetentionFits, ConfigureFits, PurgingFits
     DEF AuditNext, PublishAudit, Add, Enter, auditVars, loopVars

(* What is known says that the state has its type.                         *)
LEMMA AuditIsTyped == RetentionIInv /\ PurgeIInv /\ AuditFits => AuditTypeOK
  BY LoopIsTyped DEF RetentionIInv, PurgeIInv, IsOn, AuditFits, RoundPlaces, PurgePlaces, AuditTypeOK

(* So it is at first.                                                      *)
LEMMA AuditInitFits == AuditInit => AuditFits
  BY AuditAssumption DEF AuditInit, LoopInit, AuditFits, PlacesFit, LoopPlaces, RoundPlaces, PurgePlaces,
     Idle, IdlePurge, NoPolicy

-----------------------------------------------------------------------------
(* The workflows.                                                          *)

WorkflowsFit ==
    /\ PlacesFit(WorkflowPlaces)
    /\ \A row \in workflows : row.definition \in Definitions /\ row.status \in {"active", "paused"}
    /\ flagged \subseteq stored
    /\ \A w \in Workers : running[w] = {} \/ \E row : running[w] = {row}

(* The requests write rows of definitions there may be.                    *)
LEMMA RequestsFit ==
    ASSUME WorkflowsIInv, WorkflowsFit,
           \/ \E mention \in TriggerMentions : PublishMention(mention) \/ StoreMention(mention)
           \/ \E definition \in Definitions : CreateWorkflow(definition)
           \/ \E workflow \in workflows :
                 \/ \E definition \in Definitions, status \in {"active", "paused"} :
                       UpdateWorkflow(workflow, definition, status)
                 \/ DeleteWorkflow(workflow)
    PROVE  WorkflowsFit'
<1>1. /\ UNCHANGED <<place, flagged, running>> /\ stored \subseteq stored'
  BY DEF PublishMention, Add, Enter, StoreMention, CreateWorkflow, UpdateWorkflow, DeleteWorkflow,
         Database, Engine, loopVars
<1>2. ASSUME \A row \in workflows' : row.definition \in Definitions /\ row.status \in {"active", "paused"}
      PROVE  WorkflowsFit'
  BY <1>1, <1>2 DEF WorkflowsFit, PlacesFit
<1>3. CASE workflows' \subseteq workflows
  BY <1>2, <1>3 DEF WorkflowsFit
<1>4. ASSUME NEW definition \in Definitions, CreateWorkflow(definition) PROVE WorkflowsFit'
  <2>1. workflows' = workflows \cup {[id |-> created', definition |-> definition,
                                      status |-> "active", executions |-> 0]}
    BY <1>4 DEF CreateWorkflow
  <2>2. QED
    BY <1>2, <2>1 DEF WorkflowsFit
<1>5. ASSUME NEW workflow \in workflows, NEW definition \in Definitions,
             NEW status \in {"active", "paused"}, UpdateWorkflow(workflow, definition, status)
      PROVE  WorkflowsFit'
  <2>1. workflows' = (workflows \ {workflow})
                        \cup {[workflow EXCEPT !.definition = definition, !.status = status]}
    BY <1>5 DEF UpdateWorkflow
  <2>2. HasFields(workflow, RowFields)
    BY DEF WorkflowsIInv, RowsFit
  <2>3. [workflow EXCEPT !.definition = definition, !.status = status].definition = definition
    BY <2>2 DEF HasFields, RowFields
  <2>4. [workflow EXCEPT !.definition = definition, !.status = status].status = status
    BY <2>2 DEF HasFields, RowFields
  <2>5. QED
    BY <1>2, <2>1, <2>3, <2>4 DEF WorkflowsFit
<1>6. QED
  BY <1>3, <1>4, <1>5 DEF PublishMention, StoreMention, DeleteWorkflow, Database

(* A replica runs one workflow at a time, and flags what is stored.        *)
LEMMA EngineFits ==
    ASSUME WorkflowsIInv, WorkflowsFit, NEW w \in Workers, ConsumeMentions(w) \/ CrashWorkflows(w)
    PROVE  WorkflowsFit'
<1>1. LoopIInv(TriggerMentions) /\ IsOn(running, Workers) /\ PlacesFit(WorkflowPlaces)
  BY DEF WorkflowsIInv, WorkflowsFit
<1>2. ASSUME NEW where, Goto(w, where), where \in {"finally", "evaluate", "execute", "emit"}
      PROVE  PlacesFit(WorkflowPlaces)'
  <2>1. where \in LoopPlaces(WorkflowPlaces)
    BY <1>2 DEF LoopPlaces, WorkflowPlaces
  <2>2. QED
    BY <1>1, <1>2, <2>1, PlaceFits
<1>3. ASSUME NEW id, NEW reply,
             Consume(w, reply) \/ Abandon(w) \/ CrashLoop(w) \/ AckFinally(w, id, reply)
      PROVE  PlacesFit(WorkflowPlaces)'
  BY <1>1, <1>3, LoopPlacesFit DEF AckFinally
<1>4. ASSUME PlacesFit(WorkflowPlaces)', UNCHANGED Database, NEW row,
             running' \in {running, [running EXCEPT ![w] = {row}], [running EXCEPT ![w] = {}]}
      PROVE  WorkflowsFit'
  <2>1. ASSUME NEW v \in Workers PROVE running'[v] = {} \/ \E r : running'[v] = {r}
    <3>1. CASE v = w
      <4>1. running'[v] \in {running[v], {row}, {}}
        BY <1>1, <1>4, <3>1 DEF IsOn
      <4>2. QED
        BY <4>1 DEF WorkflowsFit
    <3>2. CASE v # w
      <4>1. running'[v] = running[v]
        BY <1>1, <1>4, <3>2 DEF IsOn
      <4>2. QED
        BY <4>1 DEF WorkflowsFit
    <3>3. QED
      BY <3>1, <3>2
  <2>2. UNCHANGED <<workflows, stored, flagged>>
    BY <1>4 DEF Database
  <2>3. QED
    BY <1>4, <2>1, <2>2 DEF WorkflowsFit
<1>5. ASSUME NEW reply, Consume(w, reply), UNCHANGED <<Database, Engine>> PROVE WorkflowsFit'
  BY <1>3, <1>4, <1>5 DEF Engine
<1>6. ASSUME CrashWorkflows(w) PROVE WorkflowsFit'
  BY <1>3, <1>4, <1>6 DEF CrashWorkflows
<1>7. ASSUME NEW id \in todo[w], PassMention(w, id) \/ Evaluated(w, id) PROVE WorkflowsFit'
  BY <1>2, <1>3, <1>4, <1>7 DEF PassMention, Evaluated, Step, Engine
<1>8. ASSUME NEW id \in todo[w], NEW row, EvaluateTriggers(w, id, row) PROVE WorkflowsFit'
  <2>1. PlacesFit(WorkflowPlaces)'
    BY <1>2, <1>8 DEF EvaluateTriggers, Step
  <2>2. UNCHANGED Database /\ running' \in {running, [running EXCEPT ![w] = {row}]}
    BY <1>8 DEF EvaluateTriggers
  <2>3. QED
    BY <1>4, <2>1, <2>2
<1>9. ASSUME NEW id \in todo[w], NEW reply, LoadWorkflows(w, id, reply) PROVE WorkflowsFit'
  BY <1>2, <1>4, <1>9 DEF LoadWorkflows, Step
<1>10. ASSUME NEW id \in todo[w], NEW reply, ExecuteAction(w, id, reply) PROVE WorkflowsFit'
  <2>1. PlacesFit(WorkflowPlaces)'
    BY <1>2, <1>10 DEF ExecuteAction, Step
  <2>2. flagged' \subseteq flagged \cup stored /\ UNCHANGED <<workflows, stored, running>>
    BY <1>10 DEF ExecuteAction
  <2>3. QED
    BY <2>1, <2>2 DEF WorkflowsFit
<1>11. ASSUME NEW id \in todo[w], NEW reply, NEW row, CountExecution(w, id, row, reply)
       PROVE  WorkflowsFit'
  <2>1. PlacesFit(WorkflowPlaces)'
    BY <1>2, <1>11 DEF CountExecution, Step
  <2>2. workflows' = {IF Applied(reply) /\ r.id = row.id
                      THEN [r EXCEPT !.executions = r.executions + 1] ELSE r : r \in workflows}
        /\ UNCHANGED <<stored, flagged, running>>
    BY <1>11 DEF CountExecution
  <2>3. ASSUME NEW s \in workflows'
        PROVE  s.definition \in Definitions /\ s.status \in {"active", "paused"}
    <3>1. PICK r \in workflows : s = r \/ s = [r EXCEPT !.executions = r.executions + 1]
      BY <2>2
    <3>2. HasFields(r, RowFields) /\ r.definition \in Definitions /\ r.status \in {"active", "paused"}
      BY DEF WorkflowsIInv, RowsFit, WorkflowsFit
    <3>3. [r EXCEPT !.executions = r.executions + 1].definition = r.definition
      BY <3>2 DEF HasFields, RowFields
    <3>4. [r EXCEPT !.executions = r.executions + 1].status = r.status
      BY <3>2 DEF HasFields, RowFields
    <3>5. QED
      BY <3>1, <3>2, <3>3, <3>4
  <2>4. QED
    BY <2>1, <2>2, <2>3 DEF WorkflowsFit
<1>12. ASSUME NEW id \in todo[w], NEW reply, NEW row, EmitTrigger(w, id, row, reply)
       PROVE  WorkflowsFit'
  BY <1>2, <1>4, <1>12 DEF EmitTrigger, Step
<1>13. ASSUME NEW id \in todo[w], NEW reply, AckFinally(w, id, reply), UNCHANGED <<Database, Engine>>
       PROVE  WorkflowsFit'
  BY <1>3, <1>4, <1>13 DEF Engine
<1>14. QED
  BY <1>5, <1>6, <1>7, <1>8, <1>9, <1>10, <1>11, <1>12, <1>13 DEF ConsumeMentions

(* Every step of the service.                                              *)
LEMMA WorkflowsNextFit ==
    ASSUME WorkflowsIInv, WorkflowsFit, [WorkflowsNext]_workflowVars
    PROVE  WorkflowsFit'
<1>1. CASE UNCHANGED workflowVars
  BY <1>1 DEF workflowVars, loopVars, WorkflowsFit, PlacesFit
<1>2. QED
  BY <1>1, RequestsFit, EngineFits DEF WorkflowsNext

(* A row's executions are the runs that were counted.                      *)
LEMMA WorkflowsAreTyped == WorkflowsIInv /\ WorkflowsFit => WorkflowsTypeOK
<1> SUFFICES ASSUME WorkflowsIInv, WorkflowsFit PROVE WorkflowsTypeOK
  OBVIOUS
<1>1. LoopTypeOK(TriggerMentions, WorkflowPlaces)
  BY LoopIsTyped DEF WorkflowsIInv, WorkflowsFit
<1>2. ASSUME NEW row \in workflows PROVE row.executions \in Nat
  <2>1. /\ row.executions = Cardinality({run \in counted : run[1] = row.id})
        /\ IsFiniteSet(counted)
    BY DEF WorkflowsIInv, ExecutionsAddUp, RowsFit
  <2>2. IsFiniteSet({run \in counted : run[1] = row.id})
    BY <2>1, FS_Subset
  <2>3. QED
    BY <2>1, <2>2, FS_CardinalityType
<1>3. ASSUME NEW w \in Workers PROVE Cardinality(running[w]) <= 1
  <2>1. CASE running[w] = {}
    BY <2>1, FS_EmptySet
  <2>2. ASSUME NEW row, running[w] = {row} PROVE Cardinality(running[w]) = 1
    BY <2>2, FS_Singleton
  <2>3. QED
    BY <2>1, <2>2 DEF WorkflowsFit
<1>4. QED
  BY <1>1, <1>2, <1>3 DEF WorkflowsIInv, RowsFit, WorkflowsFit, WorkflowsTypeOK

(* So it is at first.                                                      *)
LEMMA WorkflowsInitFit == WorkflowsInit => WorkflowsFit
  BY DEF WorkflowsInit, LoopInit, WorkflowsFit, PlacesFit, LoopPlaces

-----------------------------------------------------------------------------
(* The loops of the reports.                                               *)

ScheduleFits ==
    /\ tick \in 0 .. MaxTick
    /\ reporter.left \subseteq Projects
    /\ scheduler.left \subseteq Projects
    /\ schedules \in Seq(Projects)

(* A dictionary with an entry less has no other entries.                   *)
LEMMA WithoutFits ==
    ASSUME NEW S, NEW s \in Seq(S), NEW x PROVE Without(s, x) \in Seq(S)
<1>1. ASSUME NEW i \in DOMAIN s PROVE RemoveAt(s, i) \in Seq(S)
  <2>1. i \in 1 .. Len(s)
    OBVIOUS
  <2>2. SubSeq(s, 1, i - 1) \in Seq(S) /\ SubSeq(s, i + 1, Len(s)) \in Seq(S)
    BY <2>1
  <2>3. QED
    BY <2>2 DEF RemoveAt
<1>2. CASE \E i \in DOMAIN s : s[i] = x
  BY <1>1, <1>2 DEF Without
<1>3. QED
  BY <1>2 DEF Without

(* What a loop does to what it has left.                                   *)
LEMMA LeftFits ==
    ASSUME NEW loop, "left" \in DOMAIN loop, NEW at, NEW wake, NEW window, NEW restarts, NEW custom,
           NEW size, NEW left
    PROVE  /\ Asleep(loop).left = {}
           /\ [loop EXCEPT !.wake = wake].left = loop.left
           /\ [loop EXCEPT !.wake = wake, !.restarts = restarts].left = loop.left
           /\ [loop EXCEPT !.at = at, !.left = left, !.window = window].left = left
           /\ [loop EXCEPT !.at = at, !.window = window, !.left = left].left = left
           /\ [loop EXCEPT !.left = left].left = left
           /\ [loop EXCEPT !.at = at, !.wake = wake, !.left = left, !.restarts = restarts].left = left
           /\ [loop EXCEPT !.at = at, !.left = left, !.custom = custom, !.size = size].left = left
           /\ [loop EXCEPT !.at = at, !.wake = wake, !.custom = custom, !.restarts = restarts].left
                 = loop.left
           /\ [loop EXCEPT !.custom = custom].left = loop.left
           /\ [loop EXCEPT !.at = at, !.wake = wake, !.left = left, !.custom = custom,
                           !.restarts = restarts].left = left
  BY DEF Asleep

(* Every step of the loops and of the requests.                            *)
LEMMA ScheduleNextFits ==
    ASSUME ReporterIInv, SchedulerIInv, ScheduleFits, [ReportScheduleNext]_scheduleVars
    PROVE  ScheduleFits'
<1>1. "left" \in DOMAIN reporter /\ "left" \in DOMAIN scheduler
  BY DEF ReporterIInv, SchedulerIInv, HasFields, ReporterFields, SchedulerFields
<1>2. CASE UNCHANGED scheduleVars
  BY <1>2 DEF scheduleVars, ScheduleFits
<1>3. ASSUME reporter'.left \subseteq Projects, UNCHANGED <<tick, schedules, scheduler>>
      PROVE  ScheduleFits'
  BY <1>3 DEF ScheduleFits
<1>4. ASSUME scheduler'.left \subseteq Projects, UNCHANGED <<tick, schedules, reporter>>
      PROVE  ScheduleFits'
  BY <1>4 DEF ScheduleFits
<1>5. ASSUME NEW reply, ReporterRound(reply) PROVE ScheduleFits'
  <2>1. UNCHANGED <<tick, schedules, scheduler>>
    BY <1>5 DEF ReporterRound
  <2>2. PICK n : n = reporter.restarts + 1
    OBVIOUS
  <2>3. \/ reporter' = [reporter EXCEPT !.wake = tick, !.restarts = n]
        \/ reporter' = [reporter EXCEPT !.at = "round", !.left = Projects, !.window = Window(tick)]
        \/ reporter' = Asleep(reporter)
    BY <1>5, <2>2 DEF ReporterRound
  <2>4. CASE reporter' = [reporter EXCEPT !.wake = tick, !.restarts = n]
    BY <1>1, <1>3, <2>1, <2>4, LeftFits DEF ScheduleFits
  <2>5. CASE reporter' = [reporter EXCEPT !.at = "round", !.left = Projects, !.window = Window(tick)]
    BY <1>1, <1>3, <2>1, <2>5, LeftFits
  <2>6. CASE reporter' = Asleep(reporter)
    BY <1>1, <1>3, <2>1, <2>6, LeftFits
  <2>7. QED
    BY <2>3, <2>4, <2>5, <2>6
<1>6. ASSUME NEW project, NEW reply, GenerateScheduled(project, reply) PROVE ScheduleFits'
  <2>1. UNCHANGED <<tick, schedules, scheduler>>
    BY <1>6 DEF GenerateScheduled
  <2>2. reporter'.left \in {{}, reporter.left \ {project}}
    BY <1>1, <1>6, LeftFits DEF GenerateScheduled
  <2>3. QED
    BY <1>3, <2>1, <2>2 DEF ScheduleFits
<1>7. CASE CrashReporter
  <2>1. UNCHANGED <<tick, schedules, scheduler>>
    BY <1>7 DEF CrashReporter
  <2>2. reporter'.left = {}
    BY <1>1, <1>7, LeftFits DEF CrashReporter
  <2>3. QED
    BY <1>3, <2>1, <2>2
<1>8. ASSUME NEW reply, SchedulerRound(reply) PROVE ScheduleFits'
  <2>1. UNCHANGED <<tick, schedules, reporter>>
    BY <1>8 DEF SchedulerRound
  <2>2. scheduler'.left \in {{}, scheduler.left, Projects}
    BY <1>1, <1>8, LeftFits DEF SchedulerRound
  <2>3. QED
    BY <1>4, <2>1, <2>2 DEF ScheduleFits
<1>9. ASSUME NEW project, NEW reply, RequestDefault(project, reply) PROVE ScheduleFits'
  <2>1. UNCHANGED <<tick, schedules, reporter>>
    BY <1>9 DEF RequestDefault
  <2>2. scheduler'.left \in {{}, scheduler.left \ {project}}
    BY <1>1, <1>9, LeftFits DEF RequestDefault, IntoCustom
  <2>3. QED
    BY <1>4, <2>1, <2>2 DEF ScheduleFits
<1>10. ASSUME NEW reply, RequestCustom(reply) PROVE ScheduleFits'
  <2>1. UNCHANGED <<tick, schedules, reporter>>
    BY <1>10 DEF RequestCustom
  <2>2. scheduler'.left \in {{}, scheduler.left}
    BY <1>1, <1>10, LeftFits DEF RequestCustom
  <2>3. QED
    BY <1>4, <2>1, <2>2 DEF ScheduleFits
<1>11. ASSUME NEW project \in Projects, CreateReportSchedule(project) PROVE ScheduleFits'
  <2>1. scheduler'.left = scheduler.left
    BY <1>1, <1>11, LeftFits DEF CreateReportSchedule
  <2>2. schedules' = Append(schedules, project) /\ UNCHANGED <<tick, reporter>>
    BY <1>11 DEF CreateReportSchedule
  <2>3. QED
    BY <2>1, <2>2 DEF ScheduleFits
<1>12. ASSUME NEW project, DeleteReportSchedules(project) PROVE ScheduleFits'
  <2>1. scheduler'.left = scheduler.left
    BY <1>1, <1>12, LeftFits DEF DeleteReportSchedules
  <2>2. schedules' = Without(schedules, project) /\ UNCHANGED <<tick, reporter>>
    BY <1>12 DEF DeleteReportSchedules
  <2>3. QED
    BY <2>1, <2>2, WithoutFits DEF ScheduleFits
<1>13. CASE CrashScheduler
  <2>1. scheduler'.left = {}
    BY <1>1, <1>13, LeftFits DEF CrashScheduler
  <2>2. schedules' = << >> /\ UNCHANGED <<tick, reporter>>
    BY <1>13 DEF CrashScheduler
  <2>3. QED
    BY <2>1, <2>2 DEF ScheduleFits
<1>14. CASE TimePasses
  <2>1. tick' = tick + 1 /\ tick < MaxTick /\ UNCHANGED <<reporter, schedules, scheduler>>
    BY <1>14 DEF TimePasses
  <2>2. tick' \in 0 .. MaxTick
    BY <2>1, ReportScheduleAssumption DEF ScheduleFits
  <2>3. QED
    BY <2>1, <2>2 DEF ScheduleFits
<1>15. QED
  BY <1>2, <1>5, <1>6, <1>7, <1>8, <1>9, <1>10, <1>11, <1>12, <1>13, <1>14 DEF ReportScheduleNext

(* What is known says that the state has its type.                         *)
LEMMA SchedulesAreTyped == ReporterIInv /\ SchedulerIInv /\ ScheduleFits => ReportScheduleTypeOK
  BY DEF ReporterIInv, SchedulerIInv, ScheduleFits, Scheduled, ReportScheduleTypeOK

(* So it is at first.                                                      *)
LEMMA ScheduleInitFits == ReportScheduleInit => ScheduleFits
  BY ReportScheduleAssumption DEF ReportScheduleInit, ScheduleFits

-----------------------------------------------------------------------------
(* The export service.                                                     *)

ExportsFit ==
    /\ PlacesFit(ExportPlaces)
    /\ \A job \in jobs : job.status \in JobStatus
    /\ hit \subseteq 1 .. Cardinality(jobs) + 1
    /\ \A w \in Workers : exported[w] \subseteq Nat

(* A commit of the handler leaves as many jobs, in a status there is.      *)
LEMMA JobsMarked ==
    ASSUME JobsFit, \A job \in jobs : job.status \in JobStatus,
           NEW e, NEW status \in JobStatus, NEW n,
           \/ jobs' = jobs
           \/ jobs' = Marked(e, status, n)
           \/ jobs' = Failed(e)
    PROVE  Cardinality(jobs') = Cardinality(jobs) /\ \A job \in jobs' : job.status \in JobStatus
<1>1. CASE jobs' = jobs
  BY <1>1
<1>2. ASSUME NEW g, g = [job \in jobs |-> g[job]], jobs' = {g[job] : job \in jobs},
             \A job \in jobs : \/ g[job] = job
                               \/ /\ job.id = e
                                  /\ \/ g[job] = [job EXCEPT !.status = status, !.rows = n]
                                     \/ g[job] = [job EXCEPT !.status = "FAILED"]
      PROVE  Cardinality(jobs') = Cardinality(jobs) /\ \A job \in jobs' : job.status \in JobStatus
  <2>1. ASSUME NEW job \in jobs
        PROVE  /\ HasFields(g[job], JobFields) /\ g[job].id = job.id /\ g[job].ask = job.ask
               /\ (job.id # e => g[job] = job) /\ g[job].status \in JobStatus
    <3>1. HasFields(job, JobFields) /\ job.status \in JobStatus /\ "FAILED" \in JobStatus
      BY DEF JobsFit, JobStatus
    <3>2. CASE g[job] = job
      BY <3>1, <3>2
    <3>3. CASE job.id = e /\ g[job] = [job EXCEPT !.status = status, !.rows = n]
      BY <3>1, <3>3 DEF HasFields, JobFields
    <3>4. CASE job.id = e /\ g[job] = [job EXCEPT !.status = "FAILED"]
      BY <3>1, <3>4 DEF HasFields, JobFields
    <3>5. QED
      BY <1>2, <3>2, <3>3, <3>4
  <2>2. Cardinality(jobs') = Cardinality(jobs)
    <3>1. \A job \in jobs : /\ HasFields(g[job], JobFields)
                            /\ g[job].id = job.id /\ g[job].ask = job.ask
                            /\ job.id # e => g[job] = job
      BY <2>1
    <3>2. IsOn(g, jobs) /\ jobs' = {g[job] : job \in jobs}
      BY <1>2 DEF IsOn
    <3>3. QED
      BY <3>1, <3>2, JobsRewritten
  <2>3. QED
    BY <1>2, <2>1, <2>2
<1>3. CASE jobs' = Marked(e, status, n)
  <2>1. PICK g : g = [job \in jobs |-> IF job.id = e THEN [job EXCEPT !.status = status, !.rows = n]
                                       ELSE job]
    OBVIOUS
  <2>2. g = [job \in jobs |-> g[job]] /\ jobs' = {g[job] : job \in jobs}
    BY <1>3, <2>1 DEF Marked
  <2>3. \A job \in jobs : \/ g[job] = job
                          \/ job.id = e /\ g[job] = [job EXCEPT !.status = status, !.rows = n]
    BY <2>1
  <2>4. QED
    BY <1>2, <2>2, <2>3
<1>4. CASE jobs' = Failed(e)
  <2>1. PICK g : g = [job \in jobs |-> IF job.id = e THEN [job EXCEPT !.status = "FAILED"] ELSE job]
    OBVIOUS
  <2>2. g = [job \in jobs |-> g[job]] /\ jobs' = {g[job] : job \in jobs}
    BY <1>4, <2>1 DEF Failed
  <2>3. \A job \in jobs : \/ g[job] = job
                          \/ job.id = e /\ g[job] = [job EXCEPT !.status = "FAILED"]
    BY <2>1
  <2>4. QED
    BY <1>2, <2>2, <2>3
<1>5. QED
  BY <1>1, <1>3, <1>4

(* What is hit is a job, or the one that was to be.                        *)
LEMMA HitFits ==
    ASSUME ExportsIInv, ExportsFit, NEW S, S \subseteq {EntryAt(id) : id \in Ids(stream)} \cup creating,
           NEW raised, Cut(raised, S), Cardinality(jobs') = Cardinality(jobs)
    PROVE  hit' \subseteq 1 .. Cardinality(jobs') + 1
<1>1. PICK count \in Nat : count = Cardinality(jobs)
  BY FS_CardinalityType DEF ExportsIInv, JobsFit
<1>2. creating \subseteq 1 .. count /\ \A id \in Ids(stream) : EntryAt(id) \in 1 .. count
  BY <1>1 DEF ExportsIInv, AskedOnce
<1>3. S \subseteq 1 .. count + 1
  <2>1. ASSUME NEW x \in S PROVE x \in 1 .. count + 1
    <3>1. x \in creating \/ \E id \in Ids(stream) : x = EntryAt(id)
      BY <2>1
    <3>2. x \in 1 .. count
      BY <1>2, <3>1
    <3>3. QED
      BY <3>2
  <2>2. QED
    BY <2>1
<1>4. QED
  BY <1>1, <1>3 DEF Cut, ExportsFit

(* The entries of a consumer are of the stream.                            *)
LEMMA JobsOfStream ==
    ASSUME ExportsIInv, NEW w \in Workers
    PROVE  /\ JobsOf(w) \subseteq {EntryAt(id) : id \in Ids(stream)}
           /\ {EntryAt(id) : id \in Fresh(stream, group, BatchSize)} \subseteq
                 {EntryAt(id) : id \in Ids(stream)}
<1>1. todo[w] \subseteq Ids(stream)
  BY DEF ExportsIInv, LoopIInv, StreamOf, Group, Ids
<1>2. Fresh(stream, group, BatchSize) \subseteq Ids(stream)
  <2>1. stream.first \in Nat \ {0} /\ group.last \in Nat /\ Len(stream.log) \in Nat
    BY DEF ExportsIInv, LoopIInv, StreamOf, Group
  <2>2. QED
    BY <2>1, LoopAssumption DEF Fresh, FirstFresh, LastFresh, Ids
<1>3. QED
  BY <1>1, <1>2 DEF JobsOf

(* A handler's step.                                                       *)
LEMMA ExportHandlerFits ==
    ASSUME ExportsIInv, ExportsFit, NEW w \in Workers, NEW id \in todo[w], NEW reply,
           \/ StartJob(w, id, reply)
           \/ Generate(w, id, reply)
           \/ CompleteJob(w, id, reply)
           \/ FailJob(w, id, reply)
    PROVE  ExportsFit'
<1>1. LoopIInv(Nat) /\ JobsFit /\ IsOn(exported, Workers) /\ PlacesFit(ExportPlaces)
      /\ \A job \in jobs : job.status \in JobStatus
  BY DEF ExportsIInv, ExportsFit
<1>2. PlacesFit(ExportPlaces)'
  <2>1. {"finally", "generate", "complete", "fail"} \subseteq LoopPlaces(ExportPlaces)
    BY DEF LoopPlaces, ExportPlaces
  <2>2. PICK where \in {"finally", "generate", "complete", "fail"} : Goto(w, where)
    BY DEF StartJob, Generate, CompleteJob, FailJob, Step
  <2>3. QED
    BY <1>1, <2>1, <2>2, PlaceFits
<1>3. PICK status, n : /\ status \in JobStatus
                       /\ \/ jobs' = jobs
                          \/ jobs' = Marked(EntryAt(id), status, n)
                          \/ jobs' = Failed(EntryAt(id))
  <2>1. {"PROCESSING", "COMPLETED"} \subseteq JobStatus
    BY DEF JobStatus
  <2>2. QED
    BY <2>1 DEF StartJob, Generate, CompleteJob, FailJob, Mark
<1>4. Cardinality(jobs') = Cardinality(jobs) /\ \A job \in jobs' : job.status \in JobStatus
  BY <1>1, <1>3, JobsMarked
<1>5. hit' \subseteq 1 .. Cardinality(jobs') + 1
  <2>1. {EntryAt(id)} \subseteq {EntryAt(i) : i \in Ids(stream)} \cup creating
    BY JobsOfStream DEF JobsOf
  <2>2. hit' = hit \/ \E raised : Cut(raised, {EntryAt(id)})
    BY DEF StartJob, Generate, CompleteJob, FailJob
  <2>3. QED
    BY <1>4, <2>1, <2>2, HitFits DEF ExportsFit
<1>6. \A v \in Workers : exported'[v] \subseteq Nat
  <2>1. ASSUME NEW now, now \subseteq Nat, exported' \in {exported, [exported EXCEPT ![w] = now]}
        PROVE  \A v \in Workers : exported'[v] \subseteq Nat
    BY <1>1, <2>1 DEF IsOn, ExportsFit
  <2>2. CASE exported' = exported \/ exported' = [exported EXCEPT ![w] = {}]
    BY <2>1, <2>2
  <2>3. ASSUME NEW filters, NEW found \in SUBSET Corpus,
               exported' = [exported EXCEPT ![w] = {SelectedRows(found, filters)}]
        PROVE  \A v \in Workers : exported'[v] \subseteq Nat
    <3>1. IsFiniteSet({m \in found : Satisfies(m, filters)})
      BY ExportAssumption, FS_Subset
    <3>2. SelectedRows(found, filters) \in Nat
      BY <3>1, FS_CardinalityType DEF SelectedRows
    <3>3. {SelectedRows(found, filters)} \subseteq Nat
      BY <3>2
    <3>4. QED
      BY <2>1, <2>3, <3>3
  <2>4. QED
    BY <2>2, <2>3 DEF StartJob, Generate, CompleteJob, FailJob
<1>7. QED
  BY <1>2, <1>4, <1>5, <1>6 DEF ExportsFit

(* The requests, the batches and the crashes.                              *)
LEMMA ExportOutsideFits ==
    ASSUME ExportsIInv, ExportsFit, NEW reply,
           \/ \E ask \in ExportRequests : CommitJob(ask, reply)
           \/ \E id \in creating : AskExport(id, reply)
           \/ \E w \in Workers : \/ ConsumeExports(w, reply) \/ CrashExports(w)
                                 \/ \E id \in todo[w] : AckExport(w, id, reply)
    PROVE  ExportsFit'
<1>1. LoopIInv(Nat) /\ JobsFit /\ IsOn(exported, Workers) /\ PlacesFit(ExportPlaces)
  BY DEF ExportsIInv, ExportsFit
<1>2. PICK count \in Nat : count = Cardinality(jobs)
  BY <1>1, FS_CardinalityType DEF JobsFit
<1>3. ASSUME NEW ask \in ExportRequests, CommitJob(ask, reply) PROVE ExportsFit'
  <2>1. UNCHANGED <<place, exported>>
    BY <1>3 DEF CommitJob, loopVars
  <2>2. hit' \subseteq 1 .. count + 1
    <3>1. hit' \in {hit, hit \cup {count + 1}}
      BY <1>2, <1>3 DEF CommitJob, Cut
    <3>2. hit \subseteq 1 .. count + 1
      BY <1>2 DEF ExportsFit
    <3>3. QED
      BY <3>1, <3>2
  <2>3. CASE jobs' = jobs
    BY <1>2, <2>1, <2>2, <2>3 DEF ExportsFit, PlacesFit
  <2>4. PICK new : new = [id |-> count + 1, ask |-> ask, status |-> "PENDING", rows |-> 0]
    OBVIOUS
  <2>5. CASE jobs' = jobs \cup {new}
    <3>1. new.id = count + 1 /\ new.status \in JobStatus
      BY <2>4 DEF JobStatus
    <3>2. new \notin jobs
      BY <1>1, <1>2, <3>1 DEF JobsFit
    <3>3. Cardinality(jobs') = count + 1
      BY <1>1, <1>2, <2>5, <3>2, FS_AddElement DEF JobsFit
    <3>4. hit' \subseteq 1 .. Cardinality(jobs') + 1
      BY <2>2, <3>3
    <3>5. \A job \in jobs' : job.status \in JobStatus
      BY <2>5, <3>1 DEF ExportsFit
    <3>6. QED
      BY <2>1, <3>4, <3>5 DEF ExportsFit, PlacesFit
  <2>6. QED
    BY <1>2, <1>3, <2>3, <2>4, <2>5 DEF CommitJob
<1>4. ASSUME PlacesFit(ExportPlaces)', jobs' = jobs, NEW S,
             S \subseteq {EntryAt(id) : id \in Ids(stream)} \cup creating,
             NEW raised, Cut(raised, S), NEW w \in Workers,
             exported' \in {exported, [exported EXCEPT ![w] = {}]}
      PROVE  ExportsFit'
  <2>1. hit' \subseteq 1 .. Cardinality(jobs') + 1
    BY <1>4, HitFits
  <2>2. \A v \in Workers : exported'[v] \subseteq Nat
    BY <1>1, <1>4 DEF IsOn, ExportsFit
  <2>3. QED
    BY <1>4, <2>1, <2>2 DEF ExportsFit
<1>5. ASSUME NEW id \in creating, AskExport(id, reply) PROVE ExportsFit'
  <2>1. UNCHANGED <<place, jobs, exported>> /\ Cut(Raised(reply), {id})
    BY <1>5 DEF AskExport, Add, Enter, loopVars
  <2>2. hit' \subseteq 1 .. Cardinality(jobs') + 1
    <3>1. {id} \subseteq creating
      BY <1>5
    <3>2. QED
      BY <2>1, <3>1, HitFits
  <2>3. QED
    BY <1>1, <2>1, <2>2 DEF ExportsFit, PlacesFit
<1>6. ASSUME NEW w \in Workers, ConsumeExports(w, reply) PROVE ExportsFit'
  <2>1. PlacesFit(ExportPlaces)'
    BY <1>1, <1>6, LoopPlacesFit DEF ConsumeExports
  <2>2. QED
    BY <1>4, <1>6, <2>1, JobsOfStream DEF ConsumeExports
<1>7. ASSUME NEW w \in Workers, CrashExports(w) PROVE ExportsFit'
  <2>1. PlacesFit(ExportPlaces)'
    BY <1>1, <1>7, LoopPlacesFit DEF CrashExports
  <2>2. JobsOf(w) \cup creating \subseteq {EntryAt(id) : id \in Ids(stream)} \cup creating
    BY JobsOfStream
  <2>3. QED
    BY <1>4, <1>7, <2>1, <2>2 DEF CrashExports
<1>8. ASSUME NEW w \in Workers, NEW id \in todo[w], AckExport(w, id, reply) PROVE ExportsFit'
  <2>1. PlacesFit(ExportPlaces)'
    BY <1>1, <1>8, LoopPlacesFit DEF AckExport, AckFinally
  <2>2. JobsOf(w) \ {EntryAt(id)} \subseteq {EntryAt(i) : i \in Ids(stream)} \cup creating
    BY JobsOfStream
  <2>3. QED
    BY <1>4, <1>8, <2>1, <2>2 DEF AckExport
<1>9. QED
  BY <1>3, <1>5, <1>6, <1>7, <1>8

(* Every step of the service.                                              *)
LEMMA ExportsNextFit ==
    ASSUME ExportsIInv, ExportsFit, [ExportsNext]_exportVars
    PROVE  ExportsFit'
<1>1. CASE UNCHANGED exportVars
  BY <1>1 DEF exportVars, loopVars, ExportsFit, PlacesFit
<1>2. QED
  BY <1>1, ExportHandlerFits, ExportOutsideFits DEF ExportsNext, ExportConsumer

(* A job asks for what may be asked for, and has a number.                 *)
LEMMA ExportsAreTyped == ExportsIInv /\ ExportsFit => ExportsTypeOK
<1> SUFFICES ASSUME ExportsIInv, ExportsFit PROVE ExportsTypeOK
  OBVIOUS
<1>1. LoopTypeOK(Nat, ExportPlaces)
  BY LoopIsTyped DEF ExportsIInv, ExportsFit
<1>2. PICK count \in Nat : count = Cardinality(jobs)
  BY FS_CardinalityType DEF ExportsIInv, JobsFit
<1>3. creating \cup hit \subseteq 1 .. Cardinality(jobs) + 1
  <2>1. creating \subseteq 1 .. count /\ hit \subseteq 1 .. count + 1
    BY <1>2 DEF ExportsIInv, AskedOnce, ExportsFit
  <2>2. QED
    BY <1>2, <2>1
<1>4. exported \in [Workers -> SUBSET Nat]
  BY DEF ExportsIInv, IsOn, ExportsFit
<1>5. QED
  BY <1>1, <1>3, <1>4 DEF ExportsIInv, JobsFit, ExportsFit, ExportsTypeOK

(* There are no jobs at first.                                             *)
LEMMA ExportsInitFit == ExportsInit => ExportsFit
  BY DEF ExportsInit, LoopInit, ExportsFit, PlacesFit, LoopPlaces

-----------------------------------------------------------------------------
(* The dead letters of the bus.                                            *)

DeadLettersFit == PlacesFit(DeadPlaces)

(* Every step of the bus.                                                  *)
LEMMA DeadLettersNextFit ==
    ASSUME DeadLettersIInv, DeadLettersFit, [DeadLettersNext]_<<loopVars, deadOwn>>
    PROVE  DeadLettersFit'
<1>1. LoopIInv(Work) /\ PlacesFit(DeadPlaces)
  BY DEF DeadLettersIInv, DeadLettersFit
<1>2. CASE place' = place
  BY <1>2 DEF DeadLettersFit, PlacesFit
<1>3. CASE \E o \in Operators : ReprocessDlq(o)
  BY <1>2, <1>3 DEF ReprocessDlq, ReadDead, Republish, DeleteDead, CrashOperator, loopVars
<1>4. ASSUME NEW w, NEW where, Goto(w, where), where \in DeadPlaces PROVE DeadLettersFit'
  <2>1. where \in LoopPlaces(DeadPlaces)
    BY <1>4 DEF LoopPlaces
  <2>2. QED
    BY <1>1, <1>4, <2>1, PlaceFits DEF DeadLettersFit
<1>5. ASSUME NEW w \in Workers, NEW id, NEW reply,
             \/ Consume(w, reply) \/ Acknowledge(w, id, reply)
             \/ Finished(w, id) \/ Abandon(w) \/ CrashLoop(w)
      PROVE  DeadLettersFit'
  BY <1>1, <1>5, LoopPlacesFit DEF DeadLettersFit
<1>6. ASSUME NEW w \in Workers, ConsumeWithRetry(w) \/ CrashConsumer(w) PROVE DeadLettersFit'
  <2>1. {"ack", "dead", "deadAck"} \subseteq DeadPlaces
    BY DEF DeadPlaces
  <2>2. \/ \E where \in DeadPlaces : Goto(w, where)
        \/ \E id, reply : \/ Consume(w, reply) \/ Acknowledge(w, id, reply)
                          \/ Finished(w, id) \/ Abandon(w) \/ CrashLoop(w)
    BY <1>6, <2>1 DEF ConsumeWithRetry, CrashConsumer, HandleWork, HandlerRaises, FailWork, AckWork,
                      MoveWork, AckMoved, Step
  <2>3. QED
    BY <1>4, <1>5, <2>2
<1>7. QED
  BY <1>2, <1>3, <1>6 DEF DeadLettersNext, PublishWork, Add, Enter, loopVars

(* What is known says that the state has its type.                         *)
LEMMA DeadLettersAreTyped == DeadLettersIInv /\ DeadLettersFit => DeadLettersTypeOK
  BY LoopIsTyped DEF DeadLettersIInv, MovesDead, DeadLettersFit, Work, DeadLettersTypeOK

(* So it is at first.                                                      *)
LEMMA DeadLettersInitFit == DeadLettersInit => DeadLettersFit
  BY DEF DeadLettersInit, LoopInit, DeadLettersFit, PlacesFit, LoopPlaces

-----------------------------------------------------------------------------
(* The service that is explored is typed, whichever it is.                 *)

ServiceFits ==
    /\ service = "media" => MediaIInv /\ MediaFits
    /\ service = "enrichment" => EnrichmentIInv /\ EnrichmentFits
    /\ service = "notification" => NotificationIInv /\ NotificationFits
    /\ service \in {"audit", "retention"} => RetentionIInv /\ PurgeIInv /\ day \in Int /\ AuditFits
    /\ service = "reports" => ReportsIInv /\ ReportsFit
    /\ service = "workflows" => WorkflowsIInv /\ WorkflowsFit
    /\ service = "schedule" => ReporterIInv /\ SchedulerIInv /\ ScheduleFits
    /\ service = "exports" => ExportsIInv /\ ExportsFit
    /\ service = "deadletters" => DeadLettersIInv /\ DeadLettersFit

(* The services start as they do alone.                                    *)
LEMMA ServiceInitFits == ConsumersInit => ServiceFits
<1> SUFFICES ASSUME ConsumersInit PROVE ServiceFits
  OBVIOUS
<1>1. (MediaIInv /\ MediaFits) /\ (EnrichmentIInv /\ EnrichmentFits)
  BY MediaInitInv, MediaInitFits, EnrichmentInitInv, EnrichmentInitFits DEF ConsumersInit
<1>2. (NotificationIInv /\ NotificationFits) /\ (RetentionIInv /\ PurgeIInv /\ day \in Int /\ AuditFits)
  BY NotificationInitInv, NotificationInitFits, RetentionInitInv, PurgeInitInv, AuditInitFits
     DEF ConsumersInit
<1>3. (ReportsIInv /\ ReportsFit) /\ (WorkflowsIInv /\ WorkflowsFit)
  BY ReportsInitInv, ReportsInitFit, WorkflowsInitInv, WorkflowsInitFit DEF ConsumersInit
<1>4. (ReporterIInv /\ SchedulerIInv /\ ScheduleFits) /\ (ExportsIInv /\ ExportsFit)
  BY ReportScheduleInitInv, ScheduleInitFits, ExportsInitInv, ExportsInitFit DEF ConsumersInit
<1>5. DeadLettersIInv /\ DeadLettersFit
  BY DeadLettersInitInv, DeadLettersInitFit DEF ConsumersInit
<1>6. QED
  BY <1>1, <1>2, <1>3, <1>4, <1>5 DEF ServiceFits

(* A step of the service keeps what is known of it.                        *)
LEMMA ServiceNextFits == ServiceFits /\ [ConsumersNext]_consumersVars => ServiceFits'
<1> SUFFICES ASSUME ServiceFits, [ConsumersNext]_consumersVars PROVE ServiceFits'
  OBVIOUS
<1>1. service' = service
  BY OneServiceAtATime
<1>2. ASSUME service = "media" PROVE (MediaIInv /\ MediaFits)'
  BY <1>2, OneServiceAtATime, MediaStepInv, MediaNextFits DEF ServiceFits
<1>3. ASSUME service = "enrichment" PROVE (EnrichmentIInv /\ EnrichmentFits)'
  BY <1>3, OneServiceAtATime, EnrichmentStepInv, EnrichmentNextFits DEF ServiceFits
<1>4. ASSUME service = "notification" PROVE (NotificationIInv /\ NotificationFits)'
  BY <1>4, OneServiceAtATime, NotificationStepInv, NotificationNextFits DEF ServiceFits
<1>5. ASSUME service \in {"audit", "retention"}
      PROVE  (RetentionIInv /\ PurgeIInv /\ day \in Int /\ AuditFits)'
  BY <1>5, OneServiceAtATime, RetentionNextInv, PurgeNextInv, AuditNextFits DEF ServiceFits
<1>6. ASSUME service = "reports" PROVE (ReportsIInv /\ ReportsFit)'
  BY <1>6, OneServiceAtATime, ReportsStepInv, ReportsNextFits DEF ServiceFits
<1>7. ASSUME service = "workflows" PROVE (WorkflowsIInv /\ WorkflowsFit)'
  BY <1>7, OneServiceAtATime, WorkflowsStepInv, WorkflowsNextFit DEF ServiceFits
<1>8. ASSUME service = "schedule" PROVE (ReporterIInv /\ SchedulerIInv /\ ScheduleFits)'
  BY <1>8, OneServiceAtATime, ReportScheduleStepInv, ScheduleNextFits DEF ServiceFits
<1>9. ASSUME service = "exports" PROVE (ExportsIInv /\ ExportsFit)'
  BY <1>9, OneServiceAtATime, ExportsStepInv, ExportsNextFit DEF ServiceFits
<1>10. ASSUME service = "deadletters" PROVE (DeadLettersIInv /\ DeadLettersFit)'
  BY <1>10, OneServiceAtATime, DeadLettersStepInv, DeadLettersNextFit DEF ServiceFits
<1>11. QED
  BY <1>1, <1>2, <1>3, <1>4, <1>5, <1>6, <1>7, <1>8, <1>9, <1>10 DEF ServiceFits

(* Whichever service is explored, its state has the type it declares: a    *)
(* replica is at a place of its handler with entries of the stream, a      *)
(* running workflow is one, a draft or a result has parts there are.       *)
THEOREM ConsumersTyping == ConsumersSpec => []ConsumersTypeOK
<1>1. ServiceFits => ConsumersTypeOK
  BY MediaIsTyped, EnrichmentIsTyped, NotificationIsTyped, AuditIsTyped, ReportsAreTyped,
     WorkflowsAreTyped, SchedulesAreTyped, ExportsAreTyped, DeadLettersAreTyped
     DEF ServiceFits, ConsumersTypeOK
<1>2. QED
  BY <1>1, ServiceInitFits, ServiceNextFits, PTL DEF ConsumersSpec
=============================================================================
