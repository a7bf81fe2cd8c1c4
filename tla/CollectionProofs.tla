--------------------------- MODULE CollectionProofs ---------------------------
(***************************************************************************)
(* Proofs about the other two services of the collection pipeline, for any *)
(* number of replicas, any batch sizes and stream length, and any pattern  *)
(* of crashes and of Redis and database failures.                          *)
(*                                                                         *)
(* Query service.  AckedIsStoredOrDead is not inductive: what a replica    *)
(* acknowledges is accounted for because of where it is in its handler,    *)
(* which Justified records.                                                *)
(*                                                                         *)
(* Collector.  OnePublishPerWorker counts published events, but a claimed  *)
(* post is not published yet, so the invariant counts copies: published    *)
(* ones and those a coroutine holds.  While the key of a post exists,      *)
(* every further copy is owed to a coroutine that missed the key before it *)
(* was set (Claiming), and each life of the key lets each coroutine        *)
(* through once (Within).                                                  *)
(***************************************************************************)
EXTENDS AnalyzerProofs, QueryStore, Collector

-----------------------------------------------------------------------------
(* The query service.                                                      *)

(* A replica holds only what the group delivered, and what it is about to  *)
(* acknowledge is stored, dead-lettered, or was refused by move_to_dlq.    *)
Justified(q) ==
    /\ batch[q] \subseteq 1 .. storeGroup.last
    /\ \A id \in batch[q] : IsNext(q, id) =>
          /\ qpc[q] \in {"index", "ack"} => MentionOf(id) \in Stored
          /\ qpc[q] = "dlq_ack" => id \in DeadIds
          /\ qpc[q] = "last_resort" => id \in storeRaised

QueryIInv ==
    /\ QueryTypeOK
    /\ StoredOnce
    /\ AckedIsStoredOrDead
    /\ DeadIds \subseteq 1 .. storeGroup.last
    /\ \A q \in Stores : Justified(q)

(* A new row joins Stored, and repeats no row if it was not there.         *)
LEMMA AppendedRow ==
    ASSUME QueryTypeOK, NEW m \in MentionKeys, m \notin Stored, rows' = Append(rows, m)
    PROVE  /\ rows' \in Seq(MentionKeys)
           /\ Stored' = Stored \cup {m}
           /\ StoredOnce /\ UNCHANGED indexed => StoredOnce'
<1>1. rows \in Seq(MentionKeys)
  BY DEF QueryTypeOK
<1>2. /\ rows' \in Seq(MentionKeys)
      /\ DOMAIN rows' = 1 .. Len(rows) + 1 /\ DOMAIN rows = 1 .. Len(rows)
      /\ Len(rows) \in Nat
      /\ \A i \in 1 .. Len(rows) : rows'[i] = rows[i]
      /\ rows'[Len(rows) + 1] = m
  BY <1>1
<1>3. \A i \in DOMAIN rows' : i \in DOMAIN rows \/ i = Len(rows) + 1
  BY <1>2
<1>4. Stored' \subseteq Stored \cup {m}
  BY <1>2, <1>3 DEF Stored
<1>5. Stored \cup {m} \subseteq Stored'
  <2>1. Len(rows) + 1 \in DOMAIN rows'
    BY <1>2
  <2>2. QED
    BY <1>2, <2>1 DEF Stored
<1>6. ASSUME StoredOnce, UNCHANGED indexed PROVE StoredOnce'
  <2>1. \A i \in DOMAIN rows : rows[i] # m
    BY DEF Stored
  <2>2. \A i, j \in DOMAIN rows' : rows'[i] = rows'[j] => i = j
    BY <1>2, <1>3, <1>6, <2>1 DEF StoredOnce
  <2>3. indexed' \subseteq Stored'
    BY <1>5, <1>6 DEF StoredOnce
  <2>4. QED
    BY <2>2, <2>3 DEF StoredOnce
<1>7. QED
  BY <1>2, <1>4, <1>5, <1>6

(* A new dead letter joins DeadIds.                                        *)
LEMMA AppendedDeadId ==
    ASSUME QueryTypeOK, NEW entry \in DLQEntry, analyzedDlq' = Append(analyzedDlq, entry)
    PROVE  analyzedDlq' \in Seq(DLQEntry) /\ DeadIds' = DeadIds \cup {entry.id}
<1>1. analyzedDlq \in Seq(DLQEntry)
  BY DEF QueryTypeOK
<1>2. /\ analyzedDlq' \in Seq(DLQEntry)
      /\ DOMAIN analyzedDlq' = 1 .. Len(analyzedDlq) + 1
      /\ DOMAIN analyzedDlq = 1 .. Len(analyzedDlq)
      /\ Len(analyzedDlq) \in Nat
      /\ \A i \in 1 .. Len(analyzedDlq) : analyzedDlq'[i] = analyzedDlq[i]
      /\ analyzedDlq'[Len(analyzedDlq) + 1] = entry
  BY <1>1
<1>3. \A i \in DOMAIN analyzedDlq' : i \in DOMAIN analyzedDlq \/ i = Len(analyzedDlq) + 1
  BY <1>2
<1>4. DeadIds' \subseteq DeadIds \cup {entry.id}
  BY <1>2, <1>3 DEF DeadIds
<1>5. DeadIds \cup {entry.id} \subseteq DeadIds'
  <2>1. Len(analyzedDlq) + 1 \in DOMAIN analyzedDlq'
    BY <1>2
  <2>2. QED
    BY <1>2, <2>1 DEF DeadIds
<1>6. QED
  BY <1>2, <1>4, <1>5

(* The mention of an id in the batch is one of MentionKeys.                *)
LEMMA MentionOfDelivered ==
    ASSUME QueryIInv, NEW q \in Stores, NEW id \in batch[q]
    PROVE  id \in Nat \ {0} /\ id <= storeGroup.last /\ MentionOf(id) \in MentionKeys
<1>1. /\ storeGroup.last \in Nat /\ storeGroup.last <= Len(analyzedIn.log)
      /\ analyzedIn.log \in Seq(StoredEvent)
  BY DEF QueryIInv, QueryTypeOK, Group, StreamOf
<1>2. id \in 1 .. storeGroup.last
  BY DEF QueryIInv, Justified
<1>3. analyzedIn.log[id] \in StoredEvent
  BY <1>1, <1>2
<1>4. QED
  BY <1>1, <1>2, <1>3 DEF MentionOf, StoredEvent

(* What a step of replica q has to show: the stores only grow, so that the *)
(* other replicas stay justified.                                          *)
Grown ==
    /\ UNCHANGED analyzedIn
    /\ storeGroup.last <= storeGroup'.last
    /\ Stored \subseteq Stored'
    /\ DeadIds \subseteq DeadIds' /\ DeadIds' \subseteq DeadIds \cup (1 .. storeGroup.last)
    /\ storeRaised \subseteq storeRaised'

(* The invariant after a step of replica q, from what that step has to show.*)
LEMMA OneReplicaMoved ==
    ASSUME QueryIInv, QueryTypeOK', Grown, NEW q \in Stores,
           \A r \in Stores : r # q => batch'[r] = batch[r] /\ qpc'[r] = qpc[r],
           Justified(q)', StoredOnce', AckedIsStoredOrDead'
    PROVE  QueryIInv'
<1>1. ASSUME NEW r \in Stores, r # q PROVE Justified(r)'
  <2>1. storeGroup.last \in Nat /\ storeGroup'.last \in Nat
    BY DEF QueryIInv, QueryTypeOK, Group
  <2>2. batch'[r] \subseteq 1 .. storeGroup'.last
    BY <1>1, <2>1 DEF QueryIInv, Justified, Grown
  <2>3. \A id : IsNext(r, id)' <=> IsNext(r, id)
    BY <1>1 DEF IsNext
  <2>4. \A id : MentionOf(id)' = MentionOf(id)
    BY DEF MentionOf, Grown
  <2>5. QED
    BY <1>1, <2>2, <2>3, <2>4 DEF QueryIInv, Justified, Grown
<1>2. DeadIds' \subseteq 1 .. storeGroup'.last
  <2>1. storeGroup.last \in Nat /\ storeGroup'.last \in Nat
    BY DEF QueryIInv, QueryTypeOK, Group
  <2>2. storeGroup.last <= storeGroup'.last /\ DeadIds' \subseteq 1 .. storeGroup.last
    BY DEF QueryIInv, Grown
  <2>3. QED
    BY <2>1, <2>2
<1>3. QED
  BY <1>1, <1>2 DEF QueryIInv

(* An acknowledgement of a justified id keeps the group accounted for.     *)
LEMMA AckedStaysAccounted ==
    ASSUME QueryIInv, Grown, NEW id,
           storeGroup'.acked \subseteq storeGroup.acked \cup {id},
           MentionOf(id) \in Stored \/ id \in DeadIds \cup storeRaised
    PROVE  AckedIsStoredOrDead'
<1>1. \A x : MentionOf(x)' = MentionOf(x)
  BY DEF MentionOf, Grown
<1>2. QED
  BY <1>1 DEF QueryIInv, AckedIsStoredOrDead, Grown

(* The invariant holds at first.                                           *)
LEMMA QueryInitInv == QueryInit => QueryIInv
<1> SUFFICES ASSUME QueryInit PROVE QueryIInv
  OBVIOUS
<1>1. /\ analyzedIn = [log |-> << >>, first |-> 1] /\ rows = << >> /\ analyzedDlq = << >>
      /\ storeGroup = [last |-> 0, pending |-> {}, acked |-> {}] /\ Len(analyzedIn.log) = 0
  BY DEF QueryInit, EmptyStream, NewGroup
<1>2. QueryTypeOK
  <2>1. analyzedIn \in StreamOf(StoredEvent) /\ storeGroup \in Group
    BY <1>1 DEF StreamOf, Group
  <2>2. QED
    BY <1>1, <2>1 DEF QueryInit, QueryTypeOK, QueryPc, Errors
<1>3. StoredOnce /\ AckedIsStoredOrDead
  BY <1>1 DEF QueryInit, StoredOnce, AckedIsStoredOrDead
<1>4. \A q \in Stores : Justified(q)
  BY DEF QueryInit, Justified
<1>5. DeadIds \subseteq 1 .. storeGroup.last
  BY <1>1 DEF DeadIds
<1>6. QED
  BY <1>2, <1>3, <1>4, <1>5 DEF QueryIInv

(* A stuttering step keeps the invariant.                                  *)
LEMMA QueryUnchangedInv ==
    ASSUME QueryIInv, UNCHANGED queryVars
    PROVE  QueryIInv'
<1> USE DEF queryVars
<1>1. Stored' = Stored /\ DeadIds' = DeadIds
  BY DEF Stored, DeadIds
<1>2. QueryTypeOK' /\ StoredOnce'
  BY <1>1 DEF QueryIInv, QueryTypeOK, StoredOnce
<1>3. AckedIsStoredOrDead'
  BY <1>1 DEF QueryIInv, AckedIsStoredOrDead, MentionOf
<1>4. ASSUME NEW q \in Stores PROVE Justified(q)'
  BY <1>1 DEF QueryIInv, Justified, IsNext, MentionOf
<1>5. QED
  BY <1>1, <1>2, <1>3, <1>4 DEF QueryIInv

(* However many events join the stream, nothing already delivered moves.   *)
LEMMA AnalyzedGrowsInv ==
    ASSUME QueryIInv, NEW new \in Seq(StoredEvent), analyzedIn' \in XAdd(analyzedIn, new),
           UNCHANGED <<storeGroup, analyzedDlq, rows, indexed, qpc, batch, error, storeRaised>>
    PROVE  QueryIInv'
<1>1. /\ analyzedIn \in StreamOf(StoredEvent) /\ analyzedIn.log \in Seq(StoredEvent)
      /\ storeGroup.last \in Nat /\ storeGroup.last <= Len(analyzedIn.log)
      /\ storeGroup.acked \subseteq 1 .. storeGroup.last
  BY DEF QueryIInv, QueryTypeOK, StreamOf, Group
<1>2. /\ analyzedIn' \in StreamOf(StoredEvent)
      /\ analyzedIn'.log = analyzedIn.log \o new
  BY <1>1, XAddStream
<1>3. storeGroup.last <= Len(analyzedIn'.log)
  <2>1. Len(analyzedIn'.log) = Len(analyzedIn.log) + Len(new)
    BY <1>1, XAddStream
  <2>2. Len(analyzedIn.log) \in Nat /\ Len(new) \in Nat
    BY <1>1
  <2>3. QED
    BY <1>1, <2>1, <2>2
<1>4. \A id \in 1 .. storeGroup.last : MentionOf(id)' = MentionOf(id)
  BY <1>1, <1>2 DEF MentionOf
<1>5. Stored' = Stored /\ DeadIds' = DeadIds
  BY DEF Stored, DeadIds
<1>6. QueryTypeOK' /\ StoredOnce'
  BY <1>1, <1>2, <1>3, <1>5 DEF QueryIInv, QueryTypeOK, StoredOnce
<1>7. AckedIsStoredOrDead'
  BY <1>1, <1>4, <1>5 DEF QueryIInv, AckedIsStoredOrDead
<1>8. ASSUME NEW q \in Stores PROVE Justified(q)'
  BY <1>4, <1>5 DEF QueryIInv, Justified, IsNext
<1>9. QED
  BY <1>5, <1>6, <1>7, <1>8 DEF QueryIInv

(* Publish keeps the invariant.                                            *)
LEMMA PublishInv ==
    ASSUME QueryIInv, NEW m \in MentionKeys, Publish(m)
    PROVE  QueryIInv'
<1>1. /\ analyzedIn' \in XAdd(analyzedIn, <<[mention |-> m, origin |-> 0]>>)
      /\ UNCHANGED <<storeGroup, analyzedDlq, rows, indexed, qpc, batch, error, storeRaised>>
  BY DEF Publish
<1>2. PICK new \in Seq(StoredEvent) : analyzedIn' \in XAdd(analyzedIn, new)
  <2>1. <<[mention |-> m, origin |-> 0]>> \in Seq(StoredEvent)
    BY DEF StoredEvent
  <2>2. QED
    BY <1>1, <2>1
<1>3. QED
  BY <1>1, <1>2, AnalyzedGrowsInv

(* ConsumeAnalyzed keeps the invariant.                                    *)
LEMMA ConsumeAnalyzedInv ==
    ASSUME QueryIInv, NEW q \in Stores, NEW reply \in Replies, ConsumeAnalyzed(q, reply)
    PROVE  QueryIInv'
<1> DEFINE new == Fresh(analyzedIn, storeGroup, StoreBatch)
<1> DEFINE last == LastFresh(analyzedIn, storeGroup, StoreBatch)
<1>1. /\ new # {} /\ storeGroup' = XReadGroup(analyzedIn, storeGroup, StoreBatch)
      /\ \/ UNCHANGED <<qpc, batch>>
         \/ batch' = [batch EXCEPT ![q] = new] /\ qpc' = [qpc EXCEPT ![q] = "select"]
      /\ UNCHANGED <<analyzedIn, analyzedDlq, rows, indexed, error, storeRaised>>
  BY DEF ConsumeAnalyzed, Goto
<1>2. /\ analyzedIn \in StreamOf(StoredEvent) /\ storeGroup \in Group
      /\ storeGroup.last \in Nat /\ storeGroup.last <= Len(analyzedIn.log)
      /\ storeGroup.pending \cup storeGroup.acked \subseteq 1 .. storeGroup.last
      /\ qpc \in [Stores -> QueryPc] /\ batch \in [Stores -> SUBSET Nat]
  BY DEF QueryIInv, QueryTypeOK, Group
<1>3. /\ last \in Nat /\ storeGroup.last < last /\ last <= Len(analyzedIn.log)
      /\ \A id \in new : id \in Nat /\ storeGroup.last < id /\ id <= last
  BY <1>1, <1>2, FreshIds, QueryStoreAssumption
<1>4. /\ storeGroup'.last = last /\ storeGroup'.acked = storeGroup.acked
      /\ storeGroup'.pending = storeGroup.pending \cup new
      /\ storeGroup' \in Group
      /\ storeGroup'.pending \cup storeGroup'.acked \subseteq 1 .. storeGroup'.last
  <2>1. storeGroup' = [last |-> last, pending |-> storeGroup.pending \cup new,
                       acked |-> storeGroup.acked]
    BY <1>1 DEF XReadGroup
  <2>2. \A id \in 1 .. storeGroup.last : id \in 1 .. last
    BY <1>2, <1>3
  <2>3. new \subseteq 1 .. last
    BY <1>2, <1>3
  <2>4. QED
    BY <2>1, <2>2, <2>3, <1>2, <1>3 DEF Group
<1>5. Stored' = Stored /\ DeadIds' = DeadIds
  BY <1>1 DEF Stored, DeadIds
<1>6. Grown
  BY <1>1, <1>2, <1>3, <1>4, <1>5 DEF Grown
<1>7. qpc' \in [Stores -> QueryPc] /\ batch' \in [Stores -> SUBSET Nat]
  <2>1. new \in SUBSET Nat /\ "select" \in QueryPc
    BY <1>3 DEF QueryPc
  <2>2. QED
    BY <2>1, <1>1, <1>2
<1>8. QueryTypeOK' /\ StoredOnce'
  BY <1>1, <1>3, <1>4, <1>5, <1>7 DEF QueryIInv, QueryTypeOK, StoredOnce
<1>9. AckedIsStoredOrDead'
  BY <1>1, <1>4, <1>5 DEF QueryIInv, AckedIsStoredOrDead, MentionOf
<1>10. Justified(q)'
  <2>1. CASE UNCHANGED <<qpc, batch>>
    <3>1. batch'[q] \subseteq 1 .. storeGroup'.last
      BY <2>1, <1>2, <1>3, <1>4 DEF QueryIInv, Justified
    <3>2. QED
      BY <2>1, <3>1, <1>1, <1>5 DEF QueryIInv, Justified, IsNext, MentionOf
  <2>2. CASE batch' = [batch EXCEPT ![q] = new] /\ qpc' = [qpc EXCEPT ![q] = "select"]
    <3>1. batch'[q] = new /\ qpc'[q] = "select"
      BY <2>2, <1>2
    <3>2. new \subseteq 1 .. last
      BY <1>2, <1>3
    <3>3. QED
      BY <3>1, <3>2, <1>4 DEF Justified
  <2>3. QED
    BY <2>1, <2>2, <1>1
<1>11. \A r \in Stores : r # q => batch'[r] = batch[r] /\ qpc'[r] = qpc[r]
  BY <1>1, <1>2
<1>12. QED
  BY <1>6, <1>8, <1>9, <1>10, <1>11, OneReplicaMoved

(* A step within the handling of one entry that leaves the batch alone:    *)
(* what it has to show about the place the replica goes to.                *)
LEMMA EntryStepInv ==
    ASSUME QueryIInv, NEW q \in Stores, NEW id \in batch[q], IsNext(q, id),
           NEW pc \in QueryPc, qpc' = [qpc EXCEPT ![q] = pc],
           \/ UNCHANGED error
           \/ \E why \in Errors : error' = [error EXCEPT ![q] = why],
           UNCHANGED batch, Grown,
           storeGroup' \in Group, storeGroup'.last = storeGroup.last,
           storeGroup'.pending \cup storeGroup'.acked \subseteq 1 .. storeGroup'.last,
           analyzedDlq' \in Seq(DLQEntry), rows' \in Seq(MentionKeys),
           indexed' \in SUBSET MentionKeys, storeRaised' \in SUBSET Nat,
           StoredOnce', AckedIsStoredOrDead',
           pc \in {"index", "ack"} => MentionOf(id) \in Stored',
           pc = "dlq_ack" => id \in DeadIds',
           pc = "last_resort" => id \in storeRaised'
    PROVE  QueryIInv'
<1>1. /\ qpc \in [Stores -> QueryPc] /\ batch \in [Stores -> SUBSET Nat]
      /\ error \in [Stores -> Errors]
      /\ storeGroup.last \in Nat /\ storeGroup.last <= Len(analyzedIn.log)
  BY DEF QueryIInv, QueryTypeOK, Group
<1>2. qpc' \in [Stores -> QueryPc] /\ qpc'[q] = pc
      /\ \A r \in Stores : r # q => batch'[r] = batch[r] /\ qpc'[r] = qpc[r]
  BY <1>1
<1>3. error' \in [Stores -> Errors]
  BY <1>1
<1>4. QueryTypeOK'
  BY <1>1, <1>2, <1>3 DEF QueryIInv, QueryTypeOK, Grown
<1>5. Justified(q)'
  <2>1. batch'[q] \subseteq 1 .. storeGroup'.last
    BY DEF QueryIInv, Justified
  <2>2. \A other \in batch'[q] : IsNext(q, other)' => other = id
    BY <1>1 DEF IsNext
  <2>3. MentionOf(id)' = MentionOf(id)
    BY DEF MentionOf, Grown
  <2>4. QED
    BY <1>2, <2>1, <2>2, <2>3 DEF Justified
<1>6. QED
  BY <1>2, <1>4, <1>5, OneReplicaMoved

(* The replica lets go of the entry (Done) or of the whole batch (Drop):   *)
(* nothing is left to justify.                                             *)
LEMMA LetGoInv ==
    ASSUME QueryIInv, NEW q \in Stores, NEW id, Done(q, id) \/ Drop(q), Grown,
           storeGroup' \in Group, storeGroup'.last = storeGroup.last,
           storeGroup'.pending \cup storeGroup'.acked \subseteq 1 .. storeGroup'.last,
           analyzedDlq' \in Seq(DLQEntry), rows' \in Seq(MentionKeys),
           indexed' \in SUBSET MentionKeys, storeRaised' \in SUBSET Nat,
           StoredOnce', AckedIsStoredOrDead'
    PROVE  QueryIInv'
<1>1. /\ qpc \in [Stores -> QueryPc] /\ batch \in [Stores -> SUBSET Nat]
      /\ error \in [Stores -> Errors]
      /\ storeGroup.last \in Nat /\ storeGroup.last <= Len(analyzedIn.log)
  BY DEF QueryIInv, QueryTypeOK, Group
<1>2. {"idle", "select"} \subseteq QueryPc /\ "none" \in Errors
  BY DEF QueryPc, Errors
<1>3. /\ batch' \in [Stores -> SUBSET Nat] /\ batch'[q] \subseteq batch[q]
      /\ qpc' \in [Stores -> QueryPc] /\ qpc'[q] \in {"idle", "select"}
      /\ error' \in [Stores -> Errors]
      /\ \A r \in Stores : r # q => batch'[r] = batch[r] /\ qpc'[r] = qpc[r]
  <2>1. CASE Done(q, id)
    <3>1. /\ batch' = [batch EXCEPT ![q] = @ \ {id}]
          /\ error' = [error EXCEPT ![q] = "none"]
          /\ \E pc \in {"idle", "select"} : qpc' = [qpc EXCEPT ![q] = pc]
      BY <2>1 DEF Done, Goto
    <3>2. QED
      BY <3>1, <1>1, <1>2
  <2>2. CASE Drop(q)
    <3>1. /\ batch' = [batch EXCEPT ![q] = {}]
          /\ error' = [error EXCEPT ![q] = "none"]
          /\ qpc' = [qpc EXCEPT ![q] = "idle"]
      BY <2>2 DEF Drop, Goto
    <3>2. QED
      BY <3>1, <1>1, <1>2
  <2>3. QED
    BY <2>1, <2>2
<1>4. QueryTypeOK'
  BY <1>1, <1>3 DEF QueryIInv, QueryTypeOK, Grown
<1>5. Justified(q)'
  BY <1>3 DEF QueryIInv, Justified
<1>6. QED
  BY <1>3, <1>4, <1>5, OneReplicaMoved

(* What a step that leaves the group and the tables alone need not show.   *)
LEMMA QueryTypes ==
    ASSUME QueryIInv
    PROVE  /\ storeGroup \in Group /\ storeGroup.last \in Nat
           /\ storeGroup.pending \cup storeGroup.acked \subseteq 1 .. storeGroup.last
           /\ analyzedDlq \in Seq(DLQEntry) /\ rows \in Seq(MentionKeys)
           /\ indexed \in SUBSET MentionKeys /\ storeRaised \in SUBSET Nat
           /\ error \in [Stores -> Errors] /\ StoredOnce /\ AckedIsStoredOrDead
  BY DEF QueryIInv, QueryTypeOK, Group

(* Nothing is acknowledged, so all acknowledged is still accounted for.    *)
LEMMA NothingAcked ==
    ASSUME QueryIInv, Grown, UNCHANGED storeGroup
    PROVE  AckedIsStoredOrDead'
  BY DEF QueryIInv, AckedIsStoredOrDead, Grown, MentionOf

(* Select keeps the invariant.                                             *)
LEMMA SelectInv ==
    ASSUME QueryIInv, NEW q \in Stores, NEW id \in batch[q], NEW reply \in Replies,
           Select(q, id, reply)
    PROVE  QueryIInv'
<1>1. /\ IsNext(q, id)
      /\ UNCHANGED <<analyzedIn, storeGroup, analyzedDlq, rows, indexed, batch, storeRaised>>
      /\ \E pc \in {"dlq", "ack", "insert"} :
            /\ qpc' = [qpc EXCEPT ![q] = pc]
            /\ pc = "ack" => MentionOf(id) \in Stored
      /\ \/ UNCHANGED error
         \/ error' = [error EXCEPT ![q] = "transient"]
  BY DEF Select, Except, Goto
<1>2. Stored' = Stored /\ DeadIds' = DeadIds
  BY <1>1 DEF Stored, DeadIds
<1>3. Grown
  BY <1>1, <1>2, QueryTypes DEF Grown
<1>4. StoredOnce' /\ AckedIsStoredOrDead'
  BY <1>1, <1>2, <1>3, QueryTypes, NothingAcked DEF StoredOnce
<1>5. PICK pc \in {"dlq", "ack", "insert"} :
         /\ qpc' = [qpc EXCEPT ![q] = pc]
         /\ pc = "ack" => MentionOf(id) \in Stored
  BY <1>1
<1>6. pc \in QueryPc /\ "transient" \in Errors
  BY DEF QueryPc, Errors
<1>7. QED
  BY <1>1, <1>2, <1>3, <1>4, <1>5, <1>6, QueryTypes, EntryStepInv

(* Insert keeps the invariant.                                             *)
LEMMA InsertInv ==
    ASSUME QueryIInv, NEW q \in Stores, NEW id \in batch[q], NEW reply \in Replies,
           Insert(q, id, reply)
    PROVE  QueryIInv'
<1>1. /\ IsNext(q, id)
      /\ UNCHANGED <<analyzedIn, storeGroup, analyzedDlq, indexed, batch, storeRaised>>
  BY DEF Insert
<1>2. \/ /\ UNCHANGED rows
         /\ qpc' = [qpc EXCEPT ![q] = "dlq"]
         /\ \E why \in Errors : error' = [error EXCEPT ![q] = why]
      \/ /\ MentionOf(id) \notin Stored /\ rows' = Append(rows, MentionOf(id))
         /\ \/ /\ qpc' = [qpc EXCEPT ![q] = "dlq"]
               /\ \E why \in Errors : error' = [error EXCEPT ![q] = why]
            \/ qpc' = [qpc EXCEPT ![q] = "index"] /\ UNCHANGED error
  BY DEF Insert, Except, Goto, Applied, Raised, Errors
<1>3. DeadIds' = DeadIds
  BY <1>1 DEF DeadIds
<1>4. MentionOf(id) \in MentionKeys
  BY MentionOfDelivered
<1>5. {"dlq", "index"} \subseteq QueryPc
  BY DEF QueryPc
<1>6. CASE /\ UNCHANGED rows
           /\ qpc' = [qpc EXCEPT ![q] = "dlq"]
           /\ \E why \in Errors : error' = [error EXCEPT ![q] = why]
  <2>1. Stored' = Stored
    BY <1>6 DEF Stored
  <2>2. Grown
    BY <1>1, <1>3, <2>1, QueryTypes DEF Grown
  <2>3. StoredOnce' /\ AckedIsStoredOrDead'
    BY <1>1, <1>6, <2>1, <2>2, QueryTypes, NothingAcked DEF StoredOnce
  <2>4. QED
    BY <1>1, <1>5, <1>6, <2>2, <2>3, QueryTypes, EntryStepInv
<1>7. CASE /\ MentionOf(id) \notin Stored /\ rows' = Append(rows, MentionOf(id))
           /\ \/ /\ qpc' = [qpc EXCEPT ![q] = "dlq"]
                 /\ \E why \in Errors : error' = [error EXCEPT ![q] = why]
              \/ qpc' = [qpc EXCEPT ![q] = "index"] /\ UNCHANGED error
  <2>1. /\ rows' \in Seq(MentionKeys)
        /\ Stored' = Stored \cup {MentionOf(id)}
        /\ StoredOnce'
    BY <1>1, <1>4, <1>7, QueryTypes, AppendedRow DEF QueryIInv
  <2>2. Grown
    BY <1>1, <1>3, <2>1, QueryTypes DEF Grown
  <2>3. AckedIsStoredOrDead'
    BY <1>1, <2>2, NothingAcked
  <2>4. CASE /\ qpc' = [qpc EXCEPT ![q] = "dlq"]
             /\ \E why \in Errors : error' = [error EXCEPT ![q] = why]
    BY <1>1, <1>5, <2>1, <2>2, <2>3, <2>4, QueryTypes, EntryStepInv
  <2>5. CASE qpc' = [qpc EXCEPT ![q] = "index"] /\ UNCHANGED error
    BY <1>1, <1>5, <2>1, <2>2, <2>3, <2>5, QueryTypes, EntryStepInv
  <2>6. QED
    BY <1>7, <2>4, <2>5
<1>8. QED
  BY <1>2, <1>6, <1>7

(* Index keeps the invariant.                                              *)
LEMMA IndexInv ==
    ASSUME QueryIInv, NEW q \in Stores, NEW id \in batch[q], NEW reply \in Replies,
           Index(q, id, reply)
    PROVE  QueryIInv'
<1>1. /\ IsNext(q, id) /\ qpc[q] = "index" /\ qpc' = [qpc EXCEPT ![q] = "ack"]
      /\ indexed' \in {indexed, indexed \cup {MentionOf(id)}}
      /\ UNCHANGED <<analyzedIn, storeGroup, analyzedDlq, rows, batch, error, storeRaised>>
  BY DEF Index, Goto
<1>2. Stored' = Stored /\ DeadIds' = DeadIds
  BY <1>1 DEF Stored, DeadIds
<1>3. Grown
  BY <1>1, <1>2, QueryTypes DEF Grown
<1>4. MentionOf(id) \in Stored /\ MentionOf(id) \in MentionKeys
  BY <1>1, MentionOfDelivered DEF QueryIInv, Justified
<1>5. StoredOnce' /\ indexed' \in SUBSET MentionKeys
  BY <1>1, <1>2, <1>4, QueryTypes DEF StoredOnce
<1>6. AckedIsStoredOrDead'
  BY <1>1, <1>3, NothingAcked
<1>7. "ack" \in QueryPc
  BY DEF QueryPc
<1>8. QED
  BY <1>1, <1>2, <1>3, <1>4, <1>5, <1>6, <1>7, QueryTypes, EntryStepInv

(* The group after an acknowledgement that the server may have done.       *)
LEMMA StoreGroupAfterAck ==
    ASSUME QueryIInv, NEW id, storeGroup' \in {storeGroup, XAck(storeGroup, id)}
    PROVE  /\ storeGroup' \in Group /\ storeGroup'.last = storeGroup.last
           /\ storeGroup'.acked \subseteq storeGroup.acked \cup {id}
           /\ storeGroup'.pending \cup storeGroup'.acked \subseteq 1 .. storeGroup'.last
  BY AckedGroup, QueryTypes

(* AckStored keeps the invariant.                                          *)
LEMMA AckStoredInv ==
    ASSUME QueryIInv, NEW q \in Stores, NEW id \in batch[q], NEW reply \in Replies,
           AckStored(q, id, reply)
    PROVE  QueryIInv'
<1>1. /\ IsNext(q, id) /\ qpc[q] = "ack"
      /\ storeGroup' \in {storeGroup, XAck(storeGroup, id)}
      /\ \/ /\ qpc' = [qpc EXCEPT ![q] = "dlq"]
            /\ error' = [error EXCEPT ![q] = "transient"]
            /\ UNCHANGED batch
         \/ Done(q, id)
      /\ UNCHANGED <<analyzedIn, analyzedDlq, rows, indexed, storeRaised>>
  BY DEF AckStored, Except, Goto
<1>2. Stored' = Stored /\ DeadIds' = DeadIds
  BY <1>1 DEF Stored, DeadIds
<1>3. /\ storeGroup' \in Group /\ storeGroup'.last = storeGroup.last
      /\ storeGroup'.acked \subseteq storeGroup.acked \cup {id}
      /\ storeGroup'.pending \cup storeGroup'.acked \subseteq 1 .. storeGroup'.last
  BY <1>1, StoreGroupAfterAck
<1>4. Grown
  BY <1>1, <1>2, <1>3, QueryTypes DEF Grown
<1>5. MentionOf(id) \in Stored
  BY <1>1 DEF QueryIInv, Justified
<1>6. StoredOnce' /\ AckedIsStoredOrDead'
  BY <1>1, <1>2, <1>3, <1>4, <1>5, QueryTypes, AckedStaysAccounted DEF StoredOnce
<1>7. "dlq" \in QueryPc /\ "transient" \in Errors
  BY DEF QueryPc, Errors
<1>8. CASE Done(q, id)
  BY <1>1, <1>3, <1>4, <1>6, <1>8, QueryTypes, LetGoInv
<1>9. CASE /\ qpc' = [qpc EXCEPT ![q] = "dlq"]
           /\ error' = [error EXCEPT ![q] = "transient"]
           /\ UNCHANGED batch
  BY <1>1, <1>3, <1>4, <1>6, <1>7, <1>9, QueryTypes, EntryStepInv
<1>10. QED
  BY <1>1, <1>8, <1>9

(* DeadLetter keeps the invariant.                                         *)
LEMMA DeadLetterInv ==
    ASSUME QueryIInv, NEW q \in Stores, NEW id \in batch[q], NEW reply \in Replies,
           DeadLetter(q, id, reply)
    PROVE  QueryIInv'
<1> DEFINE entry == [id |-> id, error |-> error[q]]
<1>1. /\ IsNext(q, id)
      /\ analyzedDlq' \in {analyzedDlq, Append(analyzedDlq, entry)}
      /\ UNCHANGED <<analyzedIn, storeGroup, rows, indexed>>
      /\ \/ /\ qpc' = [qpc EXCEPT ![q] = "last_resort"]
            /\ storeRaised' = storeRaised \cup {id}
            /\ UNCHANGED <<batch, error>>
         \/ /\ qpc' = [qpc EXCEPT ![q] = "dlq_ack"]
            /\ analyzedDlq' = Append(analyzedDlq, entry)
            /\ UNCHANGED <<batch, error, storeRaised>>
         \/ Done(q, id) /\ UNCHANGED storeRaised
  BY DEF DeadLetter, MoveRaised, Goto, Applied, Raised
<1>2. entry \in DLQEntry /\ id \in Nat
  BY QueryTypes, MentionOfDelivered DEF DLQEntry
<1>3. /\ analyzedDlq' \in Seq(DLQEntry)
      /\ DeadIds \subseteq DeadIds' /\ DeadIds' \subseteq DeadIds \cup {id}
      /\ analyzedDlq' = Append(analyzedDlq, entry) => id \in DeadIds'
  <2>1. CASE analyzedDlq' = Append(analyzedDlq, entry)
    <3>1. analyzedDlq' \in Seq(DLQEntry) /\ DeadIds' = DeadIds \cup {entry.id}
      BY <1>2, <2>1, AppendedDeadId DEF QueryIInv
    <3>2. QED
      BY <3>1
  <2>2. CASE analyzedDlq' = analyzedDlq
    <3>1. DeadIds' = DeadIds /\ analyzedDlq' \in Seq(DLQEntry)
      BY <2>2, QueryTypes DEF DeadIds
    <3>2. analyzedDlq' # Append(analyzedDlq, entry)
      BY <2>2, QueryTypes
    <3>3. QED
      BY <3>1, <3>2
  <2>3. QED
    BY <1>1, <2>1, <2>2
<1>4. storeRaised \subseteq storeRaised' /\ storeRaised' \in SUBSET Nat
  BY <1>1, <1>2, QueryTypes
<1>5. Stored' = Stored
  BY <1>1 DEF Stored
<1>6. Grown
  <2>1. storeGroup.last \in Nat /\ id \in 1 .. storeGroup.last
    BY <1>2, QueryTypes, MentionOfDelivered
  <2>2. DeadIds' \subseteq DeadIds \cup (1 .. storeGroup.last)
    BY <1>3, <2>1
  <2>3. QED
    BY <1>1, <1>3, <1>4, <1>5, <2>1, <2>2 DEF Grown
<1>7. StoredOnce' /\ AckedIsStoredOrDead'
  BY <1>1, <1>5, <1>6, QueryTypes, NothingAcked DEF StoredOnce
<1>8. {"last_resort", "dlq_ack"} \subseteq QueryPc
  BY DEF QueryPc
<1>9. CASE /\ qpc' = [qpc EXCEPT ![q] = "last_resort"]
           /\ storeRaised' = storeRaised \cup {id}
           /\ UNCHANGED <<batch, error>>
  BY <1>1, <1>3, <1>4, <1>6, <1>7, <1>8, <1>9, QueryTypes, EntryStepInv
<1>10. CASE /\ qpc' = [qpc EXCEPT ![q] = "dlq_ack"]
            /\ analyzedDlq' = Append(analyzedDlq, entry)
            /\ UNCHANGED <<batch, error, storeRaised>>
  <2>1. id \in DeadIds'
    BY <1>3, <1>10
  <2>2. QED
    BY <1>1, <1>3, <1>4, <1>6, <1>7, <1>8, <1>10, <2>1, QueryTypes, EntryStepInv
<1>11. CASE Done(q, id) /\ UNCHANGED storeRaised
  BY <1>1, <1>3, <1>4, <1>6, <1>7, <1>11, QueryTypes, LetGoInv
<1>12. QED
  BY <1>1, <1>9, <1>10, <1>11

(* The two acknowledgements after a failure, of move_to_dlq and of the     *)
(* last resort.                                                            *)
LEMMA FailedEntryAckInv ==
    ASSUME QueryIInv, NEW q \in Stores, NEW id \in batch[q], NEW reply \in Replies,
           DeadLetterAck(q, id, reply) \/ AckUnstored(q, id, reply)
    PROVE  QueryIInv'
<1>1. /\ IsNext(q, id) /\ qpc[q] \in {"dlq_ack", "last_resort"}
      /\ storeGroup' \in {storeGroup, XAck(storeGroup, id)}
      /\ UNCHANGED <<analyzedIn, analyzedDlq, rows, indexed>>
      /\ \/ /\ qpc' = [qpc EXCEPT ![q] = "last_resort"]
            /\ storeRaised' = storeRaised \cup {id}
            /\ UNCHANGED <<batch, error>>
         \/ (Done(q, id) \/ Drop(q)) /\ UNCHANGED storeRaised
  BY DEF DeadLetterAck, AckUnstored, MoveRaised, Goto
<1>2. Stored' = Stored /\ DeadIds' = DeadIds
  BY <1>1 DEF Stored, DeadIds
<1>3. /\ storeGroup' \in Group /\ storeGroup'.last = storeGroup.last
      /\ storeGroup'.acked \subseteq storeGroup.acked \cup {id}
      /\ storeGroup'.pending \cup storeGroup'.acked \subseteq 1 .. storeGroup'.last
  BY <1>1, StoreGroupAfterAck
<1>4. id \in Nat /\ storeRaised \subseteq storeRaised' /\ storeRaised' \in SUBSET Nat
  BY <1>1, QueryTypes, MentionOfDelivered
<1>5. Grown
  BY <1>1, <1>2, <1>3, <1>4, QueryTypes DEF Grown
<1>6. id \in DeadIds \cup storeRaised
  BY <1>1 DEF QueryIInv, Justified
<1>7. StoredOnce' /\ AckedIsStoredOrDead'
  BY <1>1, <1>2, <1>3, <1>5, <1>6, QueryTypes, AckedStaysAccounted DEF StoredOnce
<1>8. "last_resort" \in QueryPc
  BY DEF QueryPc
<1>9. CASE /\ qpc' = [qpc EXCEPT ![q] = "last_resort"]
           /\ storeRaised' = storeRaised \cup {id}
           /\ UNCHANGED <<batch, error>>
  BY <1>1, <1>3, <1>4, <1>5, <1>7, <1>8, <1>9, QueryTypes, EntryStepInv
<1>10. CASE (Done(q, id) \/ Drop(q)) /\ UNCHANGED storeRaised
  BY <1>1, <1>3, <1>4, <1>5, <1>7, <1>10, QueryTypes, LetGoInv
<1>11. QED
  BY <1>1, <1>9, <1>10

(* CrashStore keeps the invariant.                                         *)
LEMMA CrashStoreInv ==
    ASSUME QueryIInv, NEW q \in Stores, CrashStore(q)
    PROVE  QueryIInv'
<1>1. Drop(q) /\ UNCHANGED <<analyzedIn, storeGroup, analyzedDlq, rows, indexed, storeRaised>>
  BY DEF CrashStore
<1>2. Stored' = Stored /\ DeadIds' = DeadIds
  BY <1>1 DEF Stored, DeadIds
<1>3. Grown
  BY <1>1, <1>2, QueryTypes DEF Grown
<1>4. StoredOnce' /\ AckedIsStoredOrDead'
  BY <1>1, <1>2, <1>3, QueryTypes, NothingAcked DEF StoredOnce
<1>5. QED
  BY <1>1, <1>3, <1>4, QueryTypes, LetGoInv

(* Every step keeps the invariant.                                         *)
LEMMA QueryStepInv ==
    ASSUME QueryIInv, [QueryNext]_queryVars
    PROVE  QueryIInv'
<1>1. ASSUME NEW q \in Stores, StoreStep(q) PROVE QueryIInv'
  <2>1. PICK reply \in Replies :
           \/ ConsumeAnalyzed(q, reply)
           \/ \E id \in batch[q] :
                 \/ Select(q, id, reply)
                 \/ Insert(q, id, reply)
                 \/ Index(q, id, reply)
                 \/ AckStored(q, id, reply)
                 \/ DeadLetter(q, id, reply)
                 \/ DeadLetterAck(q, id, reply)
                 \/ AckUnstored(q, id, reply)
    BY <1>1 DEF StoreStep
  <2>2. QED
    BY <2>1, ConsumeAnalyzedInv, SelectInv, InsertInv, IndexInv, AckStoredInv, DeadLetterInv,
       FailedEntryAckInv
<1>2. QED
  BY <1>1, PublishInv, CrashStoreInv, QueryUnchangedInv DEF QueryNext

(* The inductive invariant of the query service holds.                     *)
THEOREM QueryInvariant == QuerySpec => []QueryIInv
<1>1. QueryIInv /\ [QueryNext]_queryVars => QueryIInv'
  BY QueryStepInv
<1>2. QED
  BY <1>1, QueryInitInv, PTL DEF QuerySpec

(* The variables of the query service keep their types.                    *)
THEOREM QueryTyping == QuerySpec => []QueryTypeOK
<1>1. QueryIInv => QueryTypeOK
  BY DEF QueryIInv
<1>2. QED
  BY <1>1, QueryInvariant, PTL

(* However often a mention is published and however the replicas, crashes  *)
(* and lost commits interleave, store_mention leaves one row of it, and    *)
(* only rows are indexed.                                                  *)
THEOREM QueryStoredOnce == QuerySpec => []StoredOnce
<1>1. QueryIInv => StoredOnce
  BY DEF QueryIInv
<1>2. QED
  BY <1>1, QueryInvariant, PTL

(* process_loop acknowledges an entry only once its mention is in the      *)
(* table or its copy in the DLQ, or move_to_dlq raised.                    *)
THEOREM QueryAckedIsStoredOrDead == QuerySpec => []AckedIsStoredOrDead
<1>1. QueryIInv => AckedIsStoredOrDead
  BY DEF QueryIInv
<1>2. QED
  BY <1>1, QueryInvariant, PTL

-----------------------------------------------------------------------------
(* The collector: copies of a post.                                        *)

(* What a worker is about to publish having looked at the keys.            *)
Looked(w) == IF w \in guarded THEN events[w] ELSE << >>

(* The copies of a post that a look at its key let through: published ones,*)
(* marked with no worker, and those among the events a worker is about to  *)
(* publish, marked with the worker.                                        *)
Copies(post) ==
    {copy \in (SUBSET Workers) \X Nat :
        \/ /\ copy[1] = {}
           /\ copy[2] \in Ids(rawOut) \ unchecked /\ rawOut.log[copy[2]].post = post
        \/ \E w \in Workers :
              /\ copy[1] = {w}
              /\ copy[2] \in DOMAIN Looked(w) /\ Looked(w)[copy[2]] = post}

(* The workers that found no key for the post and have not set it yet.     *)
Claiming(post) == {w \in Workers : cpc[w] = "claim" /\ Head(found[w]) = post}

Bound(lives) == Cardinality(Workers) * lives

(* Each life of the key lets every worker through once.                    *)
Within(post) ==
    /\ IsFiniteSet(Copies(post))
    /\ IF post \in claimed
       THEN Cardinality(Copies(post)) + Cardinality(Claiming(post))
               <= Bound(1 + expiries)
       ELSE Cardinality(Copies(post)) <= Bound(expiries)

CollectorIInv ==
    /\ CollectorTypeOK
    /\ requestGroup.last <= Len(requests.log)
    /\ \A w \in Workers : cpc[w] \in {"exists", "claim"} => found[w] # << >>
    /\ \A post \in Posts : Within(post)

-----------------------------------------------------------------------------
(* Counting copies.                                                        *)

(* There are finitely many workers, and as many at most about to claim.    *)
LEMMA FiniteWorkers ==
    /\ IsFiniteSet(Workers) /\ Cardinality(Workers) \in Nat
    /\ \A post : /\ IsFiniteSet(Claiming(post)) /\ Cardinality(Claiming(post)) \in Nat
                 /\ Cardinality(Claiming(post)) <= Cardinality(Workers)
<1>1. IsFiniteSet({"listener", "periodic"})
  <2>1. IsFiniteSet({"listener"})
    BY FS_Singleton
  <2>2. IsFiniteSet({"listener"} \cup {"periodic"})
    BY <2>1, FS_AddElement
  <2>3. {"listener", "periodic"} = {"listener"} \cup {"periodic"}
    OBVIOUS
  <2>4. QED
    BY <2>2, <2>3
<1>2. IsFiniteSet(Workers)
  BY <1>1, FS_Product, CollectorAssumption DEF Workers
<1>3. \A post : Claiming(post) \in SUBSET Workers
  BY DEF Claiming
<1>4. QED
  BY <1>2, <1>3, FS_Subset, FS_CardinalityType

(* The bound grows by the number of workers with each key that expires.    *)
LEMMA BoundGrows ==
    ASSUME NEW lives \in Nat
    PROVE  /\ Bound(lives) \in Nat
           /\ Bound(1 + lives) = Bound(lives) + Cardinality(Workers)
  BY FiniteWorkers DEF Bound

(* A step after which there are no more copies than before, nor more       *)
(* workers about to claim while the key exists, stays within the bound.    *)
LEMMA NoMoreCopies ==
    ASSUME CollectorTypeOK, CollectorTypeOK', NEW post, Within(post),
           IsFiniteSet(Copies(post))', Cardinality(Copies(post))' <= Cardinality(Copies(post)),
           post \in claimed' <=> post \in claimed,
           post \in claimed => Claiming(post)' \subseteq Claiming(post),
           expiries' \in {expiries, expiries + 1}
    PROVE  Within(post)'
<1>1. expiries \in Nat /\ expiries' \in Nat
  BY CollectorAssumption DEF CollectorTypeOK
<1>2. Cardinality(Workers) \in Nat
  BY FiniteWorkers
<1>3. Cardinality(Copies(post)) \in Nat /\ Cardinality(Copies(post))' \in Nat
  BY FS_CardinalityType DEF Within
<1>4. /\ Bound(expiries) \in Nat /\ Bound(1 + expiries) \in Nat
      /\ Bound(expiries') \in Nat /\ Bound(1 + expiries') \in Nat
      /\ Bound(expiries) <= Bound(expiries') /\ Bound(1 + expiries) <= Bound(1 + expiries')
  <2>1. CASE expiries' = expiries
    BY <2>1, <1>1, <1>2, BoundGrows
  <2>2. CASE expiries' = expiries + 1
    <3>1. Bound(expiries') = Bound(1 + expiries) /\ 1 + expiries \in Nat
      BY <2>2, <1>1
    <3>2. QED
      BY <3>1, <1>1, <1>2, BoundGrows
  <2>3. QED
    BY <2>1, <2>2
<1>5. CASE post \in claimed
  <2>1. IsFiniteSet(Claiming(post)) /\ Claiming(post)' \in SUBSET Claiming(post)
    BY <1>5, FiniteWorkers
  <2>2. /\ Cardinality(Claiming(post)) \in Nat /\ Cardinality(Claiming(post))' \in Nat
        /\ Cardinality(Claiming(post))' <= Cardinality(Claiming(post))
    BY <2>1, FS_Subset, FS_CardinalityType
  <2>3. Cardinality(Copies(post)) + Cardinality(Claiming(post)) <= Bound(1 + expiries)
    BY <1>5 DEF Within
  <2>4. Cardinality(Copies(post))' + Cardinality(Claiming(post))' <= Bound(1 + expiries')
    BY <2>2, <2>3, <1>3, <1>4
  <2>5. QED
    BY <2>4, <1>5 DEF Within
<1>6. CASE post \notin claimed
  <2>1. Cardinality(Copies(post)) <= Bound(expiries)
    BY <1>6 DEF Within
  <2>2. Cardinality(Copies(post))' <= Bound(expiries')
    BY <2>1, <1>3, <1>4
  <2>3. QED
    BY <2>2, <1>6 DEF Within
<1>7. QED
  BY <1>5, <1>6

(* A worker that sets the key has at most one copy more, and is one of the *)
(* workers that were about to claim the post no longer.                    *)
LEMMA ClaimedOnce ==
    ASSUME CollectorTypeOK, CollectorTypeOK', NEW post, Within(post),
           NEW w \in Claiming(post), Claiming(post)' \subseteq Claiming(post) \ {w},
           NEW copy, Copies(post)' \subseteq Copies(post) \cup {copy},
           post \in claimed', expiries' = expiries
    PROVE  Within(post)'
<1>1. expiries \in Nat
  BY CollectorAssumption DEF CollectorTypeOK
<1>2. /\ IsFiniteSet(Copies(post)') /\ Cardinality(Copies(post))' \in Nat
      /\ Cardinality(Copies(post)) \in Nat
      /\ Cardinality(Copies(post))' <= Cardinality(Copies(post)) + 1
  <2>1. IsFiniteSet(Copies(post)) /\ Cardinality(Copies(post)) \in Nat
    BY FS_CardinalityType DEF Within
  <2>2. IsFiniteSet(Copies(post) \cup {copy})
        /\ Cardinality(Copies(post) \cup {copy}) <= Cardinality(Copies(post)) + 1
    <3>1. /\ IsFiniteSet(Copies(post) \cup {copy})
          /\ Cardinality(Copies(post) \cup {copy})
               \in {Cardinality(Copies(post)), Cardinality(Copies(post)) + 1}
      BY <2>1, FS_AddElement
    <3>2. QED
      BY <2>1, <3>1
  <2>3. /\ IsFiniteSet(Copies(post)')
        /\ Cardinality(Copies(post)') <= Cardinality(Copies(post) \cup {copy})
    BY <2>2, FS_Subset
  <2>4. Cardinality(Copies(post)') \in Nat /\ Cardinality(Copies(post) \cup {copy}) \in Nat
    BY <2>2, <2>3, FS_CardinalityType
  <2>5. QED
    BY <2>1, <2>2, <2>3, <2>4
<1>3. /\ Cardinality(Claiming(post)) \in Nat /\ Cardinality(Claiming(post))' \in Nat
      /\ Cardinality(Claiming(post))' + 1 <= Cardinality(Claiming(post))
      /\ Cardinality(Claiming(post)) <= Cardinality(Workers) /\ Cardinality(Workers) \in Nat
  <2>1. /\ IsFiniteSet(Claiming(post)) /\ Cardinality(Claiming(post)) \in Nat
        /\ Cardinality(Claiming(post)) <= Cardinality(Workers) /\ Cardinality(Workers) \in Nat
    BY FiniteWorkers
  <2>2. IsFiniteSet(Claiming(post) \ {w})
        /\ Cardinality(Claiming(post) \ {w}) = Cardinality(Claiming(post)) - 1
    BY <2>1, FS_RemoveElement
  <2>3. /\ IsFiniteSet(Claiming(post)')
        /\ Cardinality(Claiming(post)') <= Cardinality(Claiming(post) \ {w})
    BY <2>2, FS_Subset
  <2>4. Cardinality(Claiming(post)') \in Nat
    BY <2>3, FS_CardinalityType
  <2>5. QED
    BY <2>1, <2>2, <2>3, <2>4
<1>4. /\ Bound(expiries) \in Nat
      /\ Bound(1 + expiries) = Bound(expiries) + Cardinality(Workers)
  BY <1>1, BoundGrows
<1>5. Cardinality(Copies(post))' + Cardinality(Claiming(post))' <= Bound(1 + expiries)
  <2>1. CASE post \in claimed
    <3>1. Cardinality(Copies(post)) + Cardinality(Claiming(post)) <= Bound(1 + expiries)
      BY <2>1 DEF Within
    <3>2. QED
      BY <3>1, <1>2, <1>3, <1>4
  <2>2. CASE post \notin claimed
    <3>1. Cardinality(Copies(post)) <= Bound(expiries)
      BY <2>2 DEF Within
    <3>2. QED
      BY <3>1, <1>2, <1>3, <1>4
  <2>3. QED
    BY <2>1, <2>2
<1>6. Bound(1 + expiries)' = Bound(1 + expiries)
  BY DEF Bound
<1>7. QED
  BY <1>2, <1>5, <1>6 DEF Within

(* The key of the post runs out: its workers' budget starts again.         *)
LEMMA ExpiredOnce ==
    ASSUME CollectorTypeOK, NEW post \in claimed, Within(post), Copies(post)' = Copies(post),
           post \notin claimed', expiries' = expiries + 1
    PROVE  Within(post)'
<1>1. expiries \in Nat
  BY CollectorAssumption DEF CollectorTypeOK
<1>2. Cardinality(Copies(post)) \in Nat /\ Cardinality(Claiming(post)) \in Nat
  BY FiniteWorkers, FS_CardinalityType DEF Within
<1>3. Cardinality(Copies(post)) + Cardinality(Claiming(post)) <= Bound(1 + expiries)
  BY DEF Within
<1>4. Bound(1 + expiries) = Bound(expiries') /\ Bound(1 + expiries) \in Nat
  <2>1. 1 + expiries = expiries' /\ 1 + expiries \in Nat
    BY <1>1
  <2>2. QED
    BY <2>1, BoundGrows
<1>5. Cardinality(Copies(post)) <= Bound(expiries')
  BY <1>2, <1>3, <1>4
<1>6. Bound(expiries') = Bound(expiries)'
  BY DEF Bound
<1>7. QED
  BY <1>5, <1>6 DEF Within

(* Published copies and copies to be published change only with the stream *)
(* and the workers' events.                                                *)
LEMMA SameCopies ==
    ASSUME UNCHANGED <<rawOut, events, guarded, unchecked>>, NEW post
    PROVE  Copies(post)' = Copies(post)
  BY DEF Copies, Ids, Looked

(* A worker that forgets its events forgets its copies.                    *)
LEMMA ForgottenCopies ==
    ASSUME UNCHANGED <<rawOut, unchecked>>, NEW post,
           \A w \in Workers : Looked(w)' = Looked(w) \/ Looked(w)' = << >>
    PROVE  Copies(post)' \subseteq Copies(post)
<1>1. DOMAIN << >> = {}
  OBVIOUS
<1>2. QED
  BY <1>1 DEF Copies, Ids

(* Concatenation, position by position.                                    *)
LEMMA Concatenated ==
    ASSUME NEW Entry, NEW log \in Seq(Entry), NEW new \in Seq(Entry)
    PROVE  /\ Len(log) \in Nat /\ Len(new) \in Nat
           /\ Len(log \o new) = Len(log) + Len(new)
           /\ \A i \in 1 .. Len(log) : (log \o new)[i] = log[i]
           /\ \A i \in 1 .. Len(new) : (log \o new)[Len(log) + i] = new[i]
           /\ \A i \in 1 .. Len(log \o new) : i > Len(log) => i - Len(log) \in 1 .. Len(new)
  OBVIOUS

(* A step of worker w that gives it no event it looked at, or no r.        *)
LEMMA LookedLess ==
    ASSUME CollectorTypeOK, NEW w \in Workers,
           guarded' \in {guarded, guarded \cup {w}, guarded \ {w}},
           NEW new, events' = [events EXCEPT ![w] = new],
           \/ new = << >>
           \/ new = events[w] /\ guarded' \in {guarded, guarded \ {w}}
           \/ w \notin guarded'
    PROVE  \A v \in Workers : Looked(v)' = Looked(v) \/ Looked(v)' = << >>
<1>1. events'[w] = new /\ \A v \in Workers : v # w => events'[v] = events[v]
  BY DEF CollectorTypeOK
<1>2. \A v \in Workers : v # w => (v \in guarded' <=> v \in guarded)
  OBVIOUS
<1>3. Looked(w)' = Looked(w) \/ Looked(w)' = << >>
  BY <1>1 DEF Looked
<1>4. QED
  BY <1>1, <1>2, <1>3 DEF Looked

(* What is published without a look at the keys is none of these copies.   *)
LEMMA UncheckedCopies ==
    ASSUME CollectorTypeOK, NEW post, NEW w \in Workers,
           w \notin guarded, guarded' \in {guarded, guarded \ {w}},
           NEW old \in Nat, NEW n \in Nat,
           Ids(rawOut) = 1 .. old, Ids(rawOut)' = 1 .. (old + n),
           unchecked' = unchecked \cup (old + 1 .. old + n),
           \A i \in 1 .. old : rawOut'.log[i] = rawOut.log[i],
           events' = [events EXCEPT ![w] = << >>]
    PROVE  Copies(post)' \subseteq Copies(post)
<1>1. \A v \in Workers : Looked(v)' = Looked(v) \/ Looked(v)' = << >>
  BY LookedLess
<1>2. DOMAIN << >> = {}
  OBVIOUS
<1>3. \A i \in Ids(rawOut)' \ unchecked' : i \in 1 .. old /\ i \notin unchecked
  OBVIOUS
<1>4. ASSUME NEW copy \in Copies(post)' PROVE copy \in Copies(post)
  <2>1. copy \in (SUBSET Workers) \X Nat
    BY DEF Copies
  <2>2. CASE /\ copy[1] = {} /\ copy[2] \in Ids(rawOut)' \ unchecked'
             /\ rawOut'.log[copy[2]].post = post
    BY <1>3, <2>1, <2>2 DEF Copies
  <2>3. CASE \E v \in Workers : /\ copy[1] = {v} /\ copy[2] \in DOMAIN Looked(v)'
                                /\ Looked(v)'[copy[2]] = post
    BY <1>1, <1>2, <2>1, <2>3 DEF Copies
  <2>4. QED
    BY <2>2, <2>3 DEF Copies
<1>5. QED
  BY <1>4

(* publish_batch turns the worker's copies into published ones.            *)
LEMMA PublishedCopies ==
    ASSUME CollectorTypeOK, NEW post, IsFiniteSet(Copies(post)), NEW w \in Workers,
           w \in guarded, guarded' \in {guarded, guarded \ {w}},
           NEW old \in Nat, NEW n \in Nat,
           unchecked \subseteq 1 .. old, unchecked' = unchecked,
           Ids(rawOut) = 1 .. old, Ids(rawOut)' = 1 .. (old + n), DOMAIN events[w] = 1 .. n,
           \A i \in 1 .. old : rawOut'.log[i] = rawOut.log[i],
           \A i \in 1 .. n : rawOut'.log[old + i].post = events[w][i],
           events' = [events EXCEPT ![w] = << >>]
    PROVE  /\ IsFiniteSet(Copies(post)')
           /\ Cardinality(Copies(post)') <= Cardinality(Copies(post))
<1> DEFINE moved == [copy \in Copies(post) |->
                        IF copy[1] = {w} THEN <<{}, old + copy[2]>> ELSE copy]
<1>1. /\ Looked(w)' = << >> /\ Looked(w) = events[w]
      /\ \A v \in Workers : v # w => Looked(v)' = Looked(v)
      /\ DOMAIN << >> = {}
  <2>1. /\ events'[w] = << >>
        /\ \A v \in Workers : v # w => events'[v] = events[v]
    BY DEF CollectorTypeOK
  <2>2. QED
    BY <2>1 DEF Looked
<1>2. moved \in Surjection(Copies(post), Copies(post)')
  <2>1. ASSUME NEW copy \in Copies(post) PROVE moved[copy] \in Copies(post)'
    <3>1. copy \in (SUBSET Workers) \X Nat
      BY DEF Copies
    <3>2. CASE copy[1] = {w}
      <4>1. copy[2] \in 1 .. n /\ events[w][copy[2]] = post
        BY <3>2, <1>1 DEF Copies
      <4>2. /\ old + copy[2] \in (1 .. (old + n)) \ unchecked
            /\ rawOut'.log[old + copy[2]].post = post
        BY <4>1
      <4>3. <<{}, old + copy[2]>> \in (SUBSET Workers) \X Nat
        BY <4>1
      <4>4. QED
        BY <3>2, <4>2, <4>3 DEF Copies
    <3>3. CASE copy[1] # {w} /\ copy[1] = {}
      <4>1. copy[2] \in (1 .. old) \ unchecked /\ rawOut.log[copy[2]].post = post
        BY <3>3 DEF Copies
      <4>2. copy[2] \in (1 .. (old + n)) \ unchecked /\ rawOut'.log[copy[2]].post = post
        BY <4>1
      <4>3. QED
        BY <3>1, <3>3, <4>2 DEF Copies
    <3>4. CASE copy[1] # {w} /\ copy[1] # {}
      BY <3>1, <3>4, <1>1 DEF Copies
    <3>5. QED
      BY <3>2, <3>3, <3>4
  <2>2. ASSUME NEW copy \in Copies(post)'
        PROVE  \E before \in Copies(post) : moved[before] = copy
    <3>1. copy \in (SUBSET Workers) \X Nat
      BY DEF Copies
    <3>2. CASE copy[1] = {} /\ copy[2] > old
      <4> DEFINE i == copy[2] - old
      <4>1. copy[2] \in 1 .. (old + n) /\ rawOut'.log[copy[2]].post = post
        BY <3>2 DEF Copies
      <4>2. i \in 1 .. n /\ copy[2] = old + i
        BY <3>2, <4>1
      <4>3. events[w][i] = post
        BY <4>1, <4>2
      <4>4. <<{w}, i>> \in Copies(post)
        BY <1>1, <4>2, <4>3 DEF Copies
      <4>5. moved[<<{w}, i>>] = copy
        BY <3>1, <3>2, <4>2, <4>4
      <4>6. QED
        BY <4>4, <4>5
    <3>3. CASE copy[1] = {} /\ ~(copy[2] > old)
      <4>1. copy[2] \in (1 .. (old + n)) \ unchecked /\ rawOut'.log[copy[2]].post = post
        BY <3>3 DEF Copies
      <4>2. copy[2] \in (1 .. old) \ unchecked /\ rawOut.log[copy[2]].post = post
        BY <3>3, <4>1
      <4>3. copy \in Copies(post)
        BY <3>1, <3>3, <4>2 DEF Copies
      <4>4. QED
        BY <3>3, <4>3
    <3>4. CASE copy[1] # {}
      <4>1. PICK v \in Workers : /\ copy[1] = {v}
                                 /\ copy[2] \in DOMAIN Looked(v)'
                                 /\ Looked(v)'[copy[2]] = post
        BY <3>4 DEF Copies
      <4>2. v # w
        BY <4>1, <1>1
      <4>3. copy \in Copies(post)
        BY <3>1, <4>1, <4>2, <1>1 DEF Copies
      <4>4. QED
        BY <4>1, <4>2, <4>3
    <3>5. QED
      BY <3>2, <3>3, <3>4
  <2>3. moved \in [Copies(post) -> Copies(post)']
    BY <2>1
  <2>4. QED
    BY <2>2, <2>3 DEF Surjection
<1>3. QED
  BY <1>2, FS_Surjection

-----------------------------------------------------------------------------
(* The loops of a worker.                                                  *)

(* What the proofs below use of the types.                                 *)
LEMMA CollectorTypes ==
    ASSUME CollectorTypeOK
    PROVE  /\ cpc \in [Workers -> CollectorPc] /\ tasks \in [Workers -> SUBSET Task]
           /\ platforms \in [Workers -> SUBSET Platforms]
           /\ found \in [Workers -> Seq(Posts)] /\ events \in [Workers -> Seq(Posts)]
           /\ requestGroup.last \in Nat /\ << >> \in Seq(Posts)
  BY DEF CollectorTypeOK, Group

(* What going on with the next task changes.                               *)
LEMMA NextTaskEffect ==
    ASSUME CollectorTypeOK, NEW w \in Workers, NEW task, NextTask(w, task)
    PROVE  /\ \E pc \in {"idle", "load"} : cpc' = [cpc EXCEPT ![w] = pc]
           /\ tasks' \in [Workers -> SUBSET Task]
<1>1. tasks' = [tasks EXCEPT ![w] = @ \ {task}]
      /\ \E pc \in {"idle", "load"} : cpc' = [cpc EXCEPT ![w] = pc]
  BY DEF NextTask, Go
<1>2. QED
  BY <1>1, CollectorTypes

(* What the end of collect_project changes.                                *)
LEMMA ReturnedEffect ==
    ASSUME CollectorTypeOK, NEW w \in Workers, NEW task, Returned(w, task)
    PROVE  /\ \E pc \in {"idle", "load", "ack"} : cpc' = [cpc EXCEPT ![w] = pc]
           /\ tasks' \in [Workers -> SUBSET Task] /\ guarded' = guarded \ {w}
  BY CollectorTypes, NextTaskEffect DEF Returned, Go

(* What the end of a platform changes.                                     *)
LEMMA PlatformOverEffect ==
    ASSUME CollectorTypeOK, NEW w \in Workers, NEW task, PlatformOver(w, task)
    PROVE  /\ \E pc \in {"idle", "load", "ack", "collect"} : cpc' = [cpc EXCEPT ![w] = pc]
           /\ tasks' \in [Workers -> SUBSET Task] /\ guarded' \in {guarded, guarded \ {w}}
           /\ found' = [found EXCEPT ![w] = << >>] /\ events' = [events EXCEPT ![w] = << >>]
  BY CollectorTypes, ReturnedEffect DEF PlatformOver, Go

(* What a step of worker w has to show: its place suits what it holds, and *)
(* every post stays within its bound.                                      *)
LEMMA WorkerStepInv ==
    ASSUME CollectorIInv, NEW w \in Workers,
           NEW pc \in CollectorPc, cpc' = [cpc EXCEPT ![w] = pc],
           NEW posts \in Seq(Posts), found' = [found EXCEPT ![w] = posts],
           NEW new \in Seq(Posts), events' = [events EXCEPT ![w] = new],
           new # << >> => pc \in {"exists", "claim", "publish"},
           pc \in {"exists", "claim"} => posts # << >>,
           tasks' \in [Workers -> SUBSET Task],
           platforms' \in [Workers -> SUBSET Platforms],
           requests' = requests,
           requestGroup' \in Group, requestGroup'.last <= Len(requests.log),
           rawOut' \in StreamOf(RawMention), claimed' \in SUBSET Posts,
           expiries' \in 0 .. MaxExpiries, rounds' \in 0 .. MaxRounds,
           connected' \subseteq Replicas, guarded' \subseteq Workers,
           unchecked' \subseteq 1 .. Len(rawOut'.log),
           CollectorTypeOK' => \A post \in Posts : Within(post)'
    PROVE  CollectorIInv'
<1>1. /\ cpc' \in [Workers -> CollectorPc] /\ cpc'[w] = pc
      /\ found' \in [Workers -> Seq(Posts)] /\ found'[w] = posts
      /\ events' \in [Workers -> Seq(Posts)] /\ events'[w] = new
      /\ \A v \in Workers : v # w =>
            cpc'[v] = cpc[v] /\ found'[v] = found[v] /\ events'[v] = events[v]
  BY CollectorTypes DEF CollectorIInv
<1>2. \A v \in Workers : events'[v] # << >> => cpc'[v] \in {"exists", "claim", "publish"}
  BY <1>1 DEF CollectorIInv, CollectorTypeOK
<1>3. \A v \in Workers : cpc'[v] \in {"exists", "claim"} => found'[v] # << >>
  BY <1>1 DEF CollectorIInv
<1>4. CollectorTypeOK'
  BY <1>1, <1>2 DEF CollectorIInv, CollectorTypeOK
<1>5. QED
  BY <1>3, <1>4 DEF CollectorIInv

(* A step that publishes nothing, sets no key, and brings no worker to the *)
(* claim of a post that has its key.                                       *)
LEMMA QuietStep ==
    ASSUME CollectorIInv, CollectorTypeOK', UNCHANGED <<rawOut, claimed, expiries, unchecked>>,
           \A v \in Workers : Looked(v)' = Looked(v) \/ Looked(v)' = << >>,
           \A v \in Workers : cpc'[v] = "claim" =>
               \/ cpc[v] = "claim" /\ found'[v] = found[v]
               \/ Head(found'[v]) \notin claimed
    PROVE  \A post \in Posts : Within(post)'
<1> SUFFICES ASSUME NEW post \in Posts PROVE Within(post)'
  OBVIOUS
<1>1. Within(post) /\ CollectorTypeOK
  BY DEF CollectorIInv
<1>2. Copies(post)' \in SUBSET Copies(post)
  BY <1>1, ForgottenCopies
<1>3. IsFiniteSet(Copies(post)') /\ Cardinality(Copies(post)') <= Cardinality(Copies(post))
  BY <1>1, <1>2, FS_Subset DEF Within
<1>4. post \in claimed => Claiming(post)' \subseteq Claiming(post)
  BY DEF Claiming
<1>5. QED
  BY <1>1, <1>3, <1>4, NoMoreCopies

(* The same for a step that changes the place of one worker only.          *)
LEMMA QuietWorkerInv ==
    ASSUME CollectorIInv, NEW w \in Workers,
           NEW pc \in CollectorPc, cpc' = [cpc EXCEPT ![w] = pc],
           NEW posts \in Seq(Posts), found' = [found EXCEPT ![w] = posts],
           NEW new \in Seq(Posts), events' = [events EXCEPT ![w] = new],
           connected' \subseteq Replicas, unchecked' = unchecked,
           guarded' \in {guarded, guarded \cup {w}, guarded \ {w}},
           \/ new = << >>
           \/ new = events[w] /\ guarded' \in {guarded, guarded \ {w}}
           \/ w \notin guarded',
           new # << >> => pc \in {"exists", "claim", "publish"},
           pc \in {"exists", "claim"} => posts # << >>,
           pc = "claim" => Head(posts) \notin claimed,
           tasks' \in [Workers -> SUBSET Task],
           platforms' \in [Workers -> SUBSET Platforms],
           UNCHANGED <<requests, rawOut, claimed, expiries>>,
           requestGroup' \in Group, requestGroup'.last <= Len(requests.log),
           rounds' \in 0 .. MaxRounds
    PROVE  CollectorIInv'
<1>1. /\ rawOut' \in StreamOf(RawMention) /\ claimed' \in SUBSET Posts
      /\ expiries' \in 0 .. MaxExpiries /\ guarded' \subseteq Workers
      /\ unchecked' \subseteq 1 .. Len(rawOut'.log)
  BY DEF CollectorIInv, CollectorTypeOK
<1>2. \A v \in Workers : Looked(v)' = Looked(v) \/ Looked(v)' = << >>
  BY LookedLess DEF CollectorIInv
<1>3. \A v \in Workers : cpc'[v] = "claim" =>
         \/ cpc[v] = "claim" /\ found'[v] = found[v]
         \/ Head(found'[v]) \notin claimed
  BY CollectorTypes DEF CollectorIInv
<1>4. CollectorTypeOK' => \A post \in Posts : Within(post)'
  BY <1>2, <1>3, QuietStep
<1>5. QED
  BY <1>1, <1>4, WorkerStepInv

(* Between the steps that handle posts a worker has none to publish.       *)
LEMMA NoEvents ==
    ASSUME CollectorIInv, NEW w \in Workers, cpc[w] \notin {"exists", "claim", "publish"}
    PROVE  /\ events[w] = << >> /\ events = [events EXCEPT ![w] = << >>]
           /\ found = [found EXCEPT ![w] = found[w]] /\ found[w] \in Seq(Posts)
           /\ << >> \in Seq(Posts)
  BY CollectorTypes DEF CollectorIInv, CollectorTypeOK

(* The consumer group after an acknowledgement.                            *)
LEMMA CollectorGroup ==
    ASSUME CollectorIInv
    PROVE  /\ requestGroup \in Group /\ requestGroup.last \in Nat
           /\ requestGroup.last <= Len(requests.log)
           /\ requests \in StreamOf(Projects) /\ rounds \in 0 .. MaxRounds
           /\ connected \subseteq Replicas /\ guarded \subseteq Workers
           /\ unchecked \subseteq 1 .. Len(rawOut.log)
  BY DEF CollectorIInv, CollectorTypeOK, Group

(* ConsumeRequests keeps the invariant.                                    *)
LEMMA ConsumeRequestsInv ==
    ASSUME CollectorIInv, NEW w \in Workers, NEW reply \in Replies, ConsumeRequests(w, reply)
    PROVE  CollectorIInv'
<1> DEFINE ids == Fresh(requests, requestGroup, RequestBatch)
<1> DEFINE last == LastFresh(requests, requestGroup, RequestBatch)
<1> DEFINE taken == {[id |-> id, project |-> requests.log[id]] : id \in ids}
<1>1. /\ cpc[w] = "idle" /\ ids # {}
      /\ requestGroup' = XReadGroup(requests, requestGroup, RequestBatch)
      /\ \/ UNCHANGED <<cpc, tasks>>
         \/ tasks' = [tasks EXCEPT ![w] = taken] /\ cpc' = [cpc EXCEPT ![w] = "load"]
      /\ UNCHANGED <<requests, rawOut, claimed, expiries, rounds, connected, guarded, unchecked>>
      /\ UNCHANGED <<platforms, found, events>>
  BY DEF ConsumeRequests, Go, linkVars
<1>2. /\ last \in Nat /\ requestGroup.last < last /\ last <= Len(requests.log)
      /\ \A id \in ids : id \in Nat /\ requestGroup.last < id /\ id <= last
  BY <1>1, CollectorGroup, FreshIds, CollectorAssumption
<1>3. requestGroup' \in Group /\ requestGroup'.last = last
  <2>1. ids \in SUBSET Nat
    BY <1>2
  <2>2. requestGroup' = [last |-> last, pending |-> requestGroup.pending \cup ids,
                         acked |-> requestGroup.acked]
    BY <1>1 DEF XReadGroup
  <2>3. QED
    BY <2>1, <2>2, <1>2, CollectorGroup DEF Group
<1>4. taken \in SUBSET Task
  <2>1. requests.log \in Seq(Projects)
    BY CollectorGroup DEF StreamOf
  <2>2. \A id \in ids : id \in 1 .. Len(requests.log)
    BY <1>2, <2>1, CollectorGroup
  <2>3. \A id \in ids : requests.log[id] \in Projects /\ id \in Nat
    BY <2>1, <2>2, <1>2
  <2>4. QED
    BY <2>3 DEF Task
<1>5. /\ tasks' \in [Workers -> SUBSET Task] /\ platforms' \in [Workers -> SUBSET Platforms]
      /\ \E pc \in {"idle", "load"} : cpc' = [cpc EXCEPT ![w] = pc]
  BY <1>1, <1>4, CollectorTypes DEF CollectorIInv
<1>6. {"idle", "load"} \subseteq CollectorPc
  BY DEF CollectorPc
<1>7. QED
  BY <1>1, <1>2, <1>3, <1>5, <1>6, NoEvents, CollectorGroup, QuietWorkerInv

(* StartRound keeps the invariant.                                         *)
LEMMA StartRoundInv ==
    ASSUME CollectorIInv, NEW w \in Workers, NEW active \in SUBSET Projects,
           StartRound(w, active)
    PROVE  CollectorIInv'
<1>1. /\ cpc[w] = "idle" /\ rounds < MaxRounds /\ rounds' = rounds + 1
      /\ tasks' = [tasks EXCEPT ![w] = {[id |-> 0, project |-> p] : p \in active}]
      /\ cpc' = [cpc EXCEPT ![w] = "load"]
      /\ UNCHANGED <<requests, requestGroup, rawOut, claimed, expiries, platforms, found, events>>
      /\ UNCHANGED <<connected, guarded, unchecked>>
  BY DEF StartRound, Go, linkVars
<1>2. {[id |-> 0, project |-> p] : p \in active} \in SUBSET Task
  BY DEF Task
<1>3. tasks' \in [Workers -> SUBSET Task] /\ platforms' \in [Workers -> SUBSET Platforms]
  BY <1>1, <1>2, CollectorTypes DEF CollectorIInv
<1>4. rounds' \in 0 .. MaxRounds
  BY <1>1, CollectorGroup, CollectorAssumption
<1>5. "load" \in CollectorPc
  BY DEF CollectorPc
<1>6. QED
  BY <1>1, <1>3, <1>4, <1>5, NoEvents, CollectorGroup, QuietWorkerInv

(* LoadProject keeps the invariant.                                        *)
LEMMA LoadProjectInv ==
    ASSUME CollectorIInv, NEW w \in Workers, NEW task \in tasks[w], NEW usable \in BOOLEAN,
           NEW reply \in Replies, LoadProject(w, task, usable, reply)
    PROVE  CollectorIInv'
<1>1. /\ cpc[w] = "load"
      /\ UNCHANGED <<requests, requestGroup, rawOut, claimed, expiries, rounds, found, events>>
      /\ UNCHANGED <<connected, unchecked>>
  BY DEF LoadProject
<1>2. /\ \E pc \in {"idle", "load", "collect", "ack"} : cpc' = [cpc EXCEPT ![w] = pc]
      /\ tasks' \in [Workers -> SUBSET Task] /\ platforms' \in [Workers -> SUBSET Platforms]
      /\ guarded' \in {guarded, guarded \cup {w}, guarded \ {w}}
  <2>1. CollectorTypeOK
    BY DEF CollectorIInv
  <2>2. \/ /\ cpc' = [cpc EXCEPT ![w] = "idle"] /\ tasks' = [tasks EXCEPT ![w] = {}]
           /\ UNCHANGED <<guarded, platforms>>
        \/ NextTask(w, task) /\ UNCHANGED <<guarded, platforms>>
        \/ Returned(w, task) /\ UNCHANGED platforms
        \/ /\ cpc' = [cpc EXCEPT ![w] = "collect"]
           /\ platforms' = [platforms EXCEPT ![w] = Platforms] /\ UNCHANGED tasks
           /\ guarded' \in {guarded, guarded \cup {w}}
    BY DEF LoadProject, Go
  <2>3. CASE /\ cpc' = [cpc EXCEPT ![w] = "idle"] /\ tasks' = [tasks EXCEPT ![w] = {}]
             /\ UNCHANGED <<guarded, platforms>>
    BY <2>1, <2>3, CollectorTypes
  <2>4. CASE \/ NextTask(w, task) /\ UNCHANGED <<guarded, platforms>>
             \/ Returned(w, task) /\ UNCHANGED platforms
    BY <2>1, <2>4, CollectorTypes, NextTaskEffect, ReturnedEffect
  <2>5. CASE /\ cpc' = [cpc EXCEPT ![w] = "collect"]
             /\ platforms' = [platforms EXCEPT ![w] = Platforms] /\ UNCHANGED tasks
             /\ guarded' \in {guarded, guarded \cup {w}}
    BY <2>1, <2>5, CollectorTypes
  <2>6. QED
    BY <2>2, <2>3, <2>4, <2>5
<1>3. {"idle", "load", "collect", "ack"} \subseteq CollectorPc
  BY DEF CollectorPc
<1>4. QED
  BY <1>1, <1>2, <1>3, NoEvents, CollectorGroup, QuietWorkerInv

(* Search keeps the invariant.                                             *)
LEMMA SearchInv ==
    ASSUME CollectorIInv, NEW w \in Workers, NEW platform \in platforms[w],
           NEW results \in Results(platform), Search(w, platform, results)
    PROVE  CollectorIInv'
<1>1. /\ cpc[w] = "collect" /\ results # << >>
      /\ platforms' = [platforms EXCEPT ![w] = @ \ {platform}]
      /\ \/ /\ cpc' = [cpc EXCEPT ![w] = "exists"] /\ found' = [found EXCEPT ![w] = results]
            /\ UNCHANGED events
         \/ /\ cpc' = [cpc EXCEPT ![w] = "publish"] /\ events' = [events EXCEPT ![w] = results]
            /\ UNCHANGED found /\ w \notin guarded
      /\ UNCHANGED <<requests, requestGroup, rawOut, claimed, expiries, rounds, tasks>>
      /\ UNCHANGED <<connected, guarded, unchecked>>
  BY DEF Search, Go, linkVars
<1>2. results \in Seq(Posts)
  <2>1. PICK m \in 0 .. MaxResults :
           results \in [1 .. m -> {post \in Posts : PlatformOf[post] = platform}]
    BY DEF Results, SeqOf
  <2>2. m \in Nat /\ results \in [1 .. m -> Posts]
    BY <2>1
  <2>3. QED
    BY <2>2
<1>3. tasks' \in [Workers -> SUBSET Task] /\ platforms' \in [Workers -> SUBSET Platforms]
  BY <1>1, CollectorTypes DEF CollectorIInv
<1>4. {"exists", "publish"} \subseteq CollectorPc
  BY DEF CollectorPc
<1>5. /\ events = [events EXCEPT ![w] = << >>] /\ << >> \in Seq(Posts)
      /\ found = [found EXCEPT ![w] = found[w]] /\ found[w] \in Seq(Posts)
  BY <1>1, NoEvents
<1>6. /\ requestGroup' \in Group /\ requestGroup'.last <= Len(requests.log)
      /\ rounds' \in 0 .. MaxRounds /\ connected' \subseteq Replicas
  BY <1>1, CollectorGroup
<1>7. PICK pc \in {"exists", "publish"}, posts \in Seq(Posts), new \in Seq(Posts) :
         /\ cpc' = [cpc EXCEPT ![w] = pc] /\ found' = [found EXCEPT ![w] = posts]
         /\ events' = [events EXCEPT ![w] = new]
         /\ new # << >> => pc = "publish" /\ w \notin guarded
         /\ pc = "exists" => posts # << >>
  BY <1>1, <1>2, <1>5
<1>8. /\ guarded' = guarded /\ unchecked' = unchecked
      /\ UNCHANGED <<requests, rawOut, claimed, expiries>>
  BY <1>1
<1>9. QED
  BY <1>3, <1>4, <1>6, <1>7, <1>8, QuietWorkerInv

(* SearchNothing keeps the invariant.                                      *)
LEMMA SearchNothingInv ==
    ASSUME CollectorIInv, NEW w \in Workers, NEW task \in tasks[w],
           NEW platform \in platforms[w], SearchNothing(w, task, platform)
    PROVE  CollectorIInv'
<1>1. /\ cpc[w] = "collect"
      /\ platforms' = [platforms EXCEPT ![w] = @ \ {platform}]
      /\ Returned(w, task) \/ UNCHANGED <<guarded, cpc, tasks>>
      /\ UNCHANGED <<requests, requestGroup, rawOut, claimed, expiries, rounds, found, events>>
      /\ UNCHANGED <<connected, unchecked>>
  BY DEF SearchNothing
<1>2. CollectorTypeOK
  BY DEF CollectorIInv
<1>3. /\ \E pc \in {"idle", "load", "collect", "ack"} : cpc' = [cpc EXCEPT ![w] = pc]
      /\ tasks' \in [Workers -> SUBSET Task] /\ platforms' \in [Workers -> SUBSET Platforms]
      /\ guarded' \in {guarded, guarded \ {w}}
  BY <1>1, <1>2, CollectorTypes, ReturnedEffect
<1>4. {"idle", "load", "collect", "ack"} \subseteq CollectorPc
  BY DEF CollectorPc
<1>5. QED
  BY <1>1, <1>3, <1>4, NoEvents, CollectorGroup, QuietWorkerInv

(* What the loop over raw_mentions goes on to after one post.              *)
MovesOn(w, new) ==
    \E pc \in CollectorPc \ {"claim"}, posts \in Seq(Posts), toPublish \in {new, << >>} :
       /\ cpc' = [cpc EXCEPT ![w] = pc] /\ tasks' \in [Workers -> SUBSET Task]
       /\ guarded' \in {guarded, guarded \ {w}}
       /\ found' = [found EXCEPT ![w] = posts]
       /\ events' = [events EXCEPT ![w] = toPublish]
       /\ toPublish # << >> => pc \in {"exists", "claim", "publish"}
       /\ pc \in {"exists", "claim"} => posts # << >>

(* What the end of a turn of the loop over raw_mentions changes.           *)
LEMMA AfterPostEffect ==
    ASSUME CollectorTypeOK, NEW w \in Workers, NEW task, NEW left \in Seq(Posts),
           NEW new \in Seq(Posts), AfterPost(w, task, left, new)
    PROVE  MovesOn(w, new)
<1>1. << >> \in Seq(Posts)
      /\ {"idle", "load", "ack", "collect", "exists", "publish"} \subseteq CollectorPc \ {"claim"}
  BY DEF CollectorPc
<1>2. CASE left = << >> /\ new = << >>
  <2>1. PlatformOver(w, task)
    BY <1>2 DEF AfterPost
  <2>2. /\ \E pc \in {"idle", "load", "ack", "collect"} : cpc' = [cpc EXCEPT ![w] = pc]
        /\ tasks' \in [Workers -> SUBSET Task]
        /\ guarded' \in {guarded, guarded \ {w}}
        /\ found' = [found EXCEPT ![w] = << >>] /\ events' = [events EXCEPT ![w] = << >>]
    BY <2>1, PlatformOverEffect
  <2>3. QED
    BY <2>2, <1>1 DEF MovesOn
<1>3. CASE ~(left = << >> /\ new = << >>)
  <2>1. /\ cpc' = [cpc EXCEPT ![w] = IF left = << >> THEN "publish" ELSE "exists"]
        /\ tasks' \in [Workers -> SUBSET Task]
        /\ guarded' \in {guarded, guarded \ {w}}
        /\ found' = [found EXCEPT ![w] = left] /\ events' = [events EXCEPT ![w] = new]
    BY <1>3, CollectorTypes DEF AfterPost, Go
  <2>2. CASE left = << >>
    BY <2>1, <2>2, <1>1 DEF MovesOn
  <2>3. CASE left # << >>
    BY <2>1, <2>3, <1>1 DEF MovesOn
  <2>4. QED
    BY <2>2, <2>3
<1>4. QED
  BY <1>2, <1>3

(* CheckDuplicate keeps the invariant.                                     *)
LEMMA CheckDuplicateInv ==
    ASSUME CollectorIInv, NEW w \in Workers, NEW task \in tasks[w], NEW reply \in Replies,
           CheckDuplicate(w, task, reply)
    PROVE  CollectorIInv'
<1>1. /\ cpc[w] = "exists" /\ found[w] \in Seq(Posts) /\ found[w] # << >>
      /\ events[w] \in Seq(Posts) /\ CollectorTypeOK
      /\ platforms' \in [Workers -> SUBSET Platforms]
  BY CollectorTypes DEF CollectorIInv, CheckDuplicate
<1>2. UNCHANGED <<requests, requestGroup, rawOut, claimed, expiries, rounds, connected, unchecked>>
  BY DEF CheckDuplicate
<1>3. /\ requestGroup' \in Group /\ requestGroup'.last <= Len(requests.log)
      /\ rounds' \in 0 .. MaxRounds /\ connected' \subseteq Replicas
  BY <1>2, CollectorGroup
<1>4. CASE PlatformOver(w, task)
  <2>1. /\ \E pc \in {"idle", "load", "ack", "collect"} : cpc' = [cpc EXCEPT ![w] = pc]
        /\ tasks' \in [Workers -> SUBSET Task] /\ guarded' \in {guarded, guarded \ {w}}
        /\ found' = [found EXCEPT ![w] = << >>] /\ events' = [events EXCEPT ![w] = << >>]
    BY <1>1, <1>4, PlatformOverEffect
  <2>2. << >> \in Seq(Posts) /\ {"idle", "load", "ack", "collect"} \subseteq CollectorPc
    BY DEF CollectorPc
  <2>3. platforms' \in [Workers -> SUBSET Platforms]
    BY <1>1
  <2>4. QED
    BY <1>2, <1>3, <2>1, <2>2, <2>3, QuietWorkerInv
<1>5. CASE AfterPost(w, task, Tail(found[w]), events[w])
  <2>1. Tail(found[w]) \in Seq(Posts) /\ events[w] \in Seq(Posts) /\ CollectorTypeOK
    BY <1>1
  <2>2. PICK pc \in CollectorPc \ {"claim"}, posts \in Seq(Posts),
             toPublish \in {events[w], << >>} :
           /\ cpc' = [cpc EXCEPT ![w] = pc] /\ tasks' \in [Workers -> SUBSET Task]
           /\ guarded' \in {guarded, guarded \ {w}}
           /\ found' = [found EXCEPT ![w] = posts]
           /\ events' = [events EXCEPT ![w] = toPublish]
           /\ toPublish # << >> => pc \in {"exists", "claim", "publish"}
           /\ pc \in {"exists", "claim"} => posts # << >>
    <3>1. PICK left \in Seq(Posts), new \in Seq(Posts) :
             new = events[w] /\ AfterPost(w, task, left, new)
      BY <1>5, <2>1 DEF AfterPost
    <3>2. CollectorTypeOK
      BY <2>1
    <3>3. MovesOn(w, new)
      BY <3>1, <3>2, AfterPostEffect
    <3>4. QED
      BY <3>1, <3>3 DEF MovesOn
  <2>3. pc # "claim" /\ << >> \in Seq(Posts) /\ platforms' \in [Workers -> SUBSET Platforms]
    BY <1>1
  <2>4. QED
    BY <1>2, <1>3, <2>1, <2>2, <2>3, QuietWorkerInv
<1>6. CASE /\ Head(found[w]) \notin claimed /\ Go(w, "claim")
           /\ UNCHANGED <<guarded, tasks, found, events>>
  <2>1. /\ cpc' = [cpc EXCEPT ![w] = "claim"] /\ "claim" \in CollectorPc
        /\ tasks' \in [Workers -> SUBSET Task]
        /\ found' = [found EXCEPT ![w] = found[w]] /\ events' = [events EXCEPT ![w] = events[w]]
    BY <1>1, <1>6, CollectorTypes DEF Go, CollectorPc
  <2>2. /\ platforms' \in [Workers -> SUBSET Platforms] /\ Head(found[w]) \notin claimed
        /\ found[w] \in Seq(Posts) /\ found[w] # << >>
        /\ events[w] \in Seq(Posts) /\ guarded' = guarded
    BY <1>1, <1>6
  <2>3. QED
    BY <1>2, <1>3, <2>1, <2>2, QuietWorkerInv
<1>7. QED
  BY <1>4, <1>5, <1>6 DEF CheckDuplicate

(* AckRequest keeps the invariant.                                         *)
LEMMA AckRequestInv ==
    ASSUME CollectorIInv, NEW w \in Workers, NEW task \in tasks[w], NEW reply \in Replies,
           AckRequest(w, task, reply)
    PROVE  CollectorIInv'
<1>1. /\ cpc[w] = "ack" /\ CollectorTypeOK
      /\ requestGroup' \in {requestGroup, XAck(requestGroup, task.id)}
      /\ \/ cpc' = [cpc EXCEPT ![w] = "idle"] /\ tasks' = [tasks EXCEPT ![w] = {}]
         \/ NextTask(w, task)
      /\ UNCHANGED <<requests, rawOut, claimed, expiries, rounds, platforms, found, events>>
      /\ UNCHANGED <<connected, guarded, unchecked>>
  BY DEF AckRequest, Go, CollectorIInv, linkVars
<1>2. /\ requestGroup' \in Group /\ requestGroup'.last <= Len(requests.log)
      /\ rounds' \in 0 .. MaxRounds /\ connected' \subseteq Replicas
  BY <1>1, CollectorGroup DEF XAck, Group
<1>3. /\ \E pc \in {"idle", "load"} : cpc' = [cpc EXCEPT ![w] = pc]
      /\ tasks' \in [Workers -> SUBSET Task] /\ platforms' \in [Workers -> SUBSET Platforms]
  <2>1. CASE cpc' = [cpc EXCEPT ![w] = "idle"] /\ tasks' = [tasks EXCEPT ![w] = {}]
    BY <1>1, <2>1, CollectorTypes
  <2>2. CASE NextTask(w, task)
    BY <1>1, <2>2, CollectorTypes, NextTaskEffect
  <2>3. QED
    BY <1>1, <2>1, <2>2
<1>4. {"idle", "load"} \subseteq CollectorPc
  BY DEF CollectorPc
<1>5. /\ found' = [found EXCEPT ![w] = found[w]] /\ events' = [events EXCEPT ![w] = << >>]
      /\ found[w] \in Seq(Posts) /\ << >> \in Seq(Posts)
      /\ UNCHANGED <<requests, rawOut, claimed, expiries, guarded, unchecked>>
  BY <1>1, NoEvents
<1>6. QED
  BY <1>2, <1>3, <1>4, <1>5, QuietWorkerInv

(* Setting the key of a post, or failing to.                               *)
LEMMA ClaimWithin ==
    ASSUME CollectorIInv, CollectorTypeOK', UNCHANGED <<rawOut, expiries, unchecked>>,
           NEW w \in Workers, cpc[w] = "claim", NEW mine \in Posts, mine = Head(found[w]),
           NEW pc, pc # "claim", cpc' = [cpc EXCEPT ![w] = pc],
           NEW posts, found' = [found EXCEPT ![w] = posts],
           NEW new, events' = [events EXCEPT ![w] = new],
           guarded' \in {guarded, guarded \ {w}},
           \/ new = << >> /\ claimed' \in {claimed, claimed \cup {mine}}
           \/ new = Append(events[w], mine) /\ claimed' = claimed \cup {mine}
    PROVE  \A post \in Posts : Within(post)'
<1> SUFFICES ASSUME NEW post \in Posts PROVE Within(post)'
  OBVIOUS
<1> DEFINE copy == <<{w}, Len(events[w]) + 1>>
<1>1. Within(post) /\ CollectorTypeOK
  BY DEF CollectorIInv
<1>2. /\ cpc'[w] = pc /\ events'[w] = new /\ events[w] \in Seq(Posts)
      /\ \A v \in Workers : v # w =>
            cpc'[v] = cpc[v] /\ found'[v] = found[v] /\ events'[v] = events[v]
  BY <1>1, CollectorTypes
<1>3. \A v \in Workers : v # w => Looked(v)' = Looked(v)
  BY <1>2 DEF Looked
<1>4. /\ w \notin guarded' => Looked(w)' = << >>
      /\ w \in guarded' => Looked(w)' = new /\ Looked(w) = events[w]
  BY <1>2 DEF Looked
<1>5. Claiming(post)' \subseteq Claiming(post) \ {w}
  BY <1>2 DEF Claiming
<1>6. /\ Copies(post)' \subseteq Copies(post) \cup {copy}
      /\ post # mine => Copies(post)' \subseteq Copies(post)
  <2>1. CASE new = << >> \/ w \notin guarded'
    <3>1. \A v \in Workers : Looked(v)' = Looked(v) \/ Looked(v)' = << >>
      BY <2>1, <1>3, <1>4
    <3>2. QED
      BY <3>1, <1>1, ForgottenCopies
  <2>2. CASE new = Append(events[w], mine) /\ w \in guarded'
    <3>1. /\ DOMAIN new = 1 .. (Len(events[w]) + 1)
          /\ Len(events[w]) \in Nat /\ DOMAIN events[w] = 1 .. Len(events[w])
          /\ new[Len(events[w]) + 1] = mine
          /\ \A i \in DOMAIN events[w] : new[i] = events[w][i]
      BY <2>2, <1>2
    <3>2. ASSUME NEW c \in Copies(post)' PROVE c \in Copies(post) \/ (c = copy /\ post = mine)
      <4>1. c \in (SUBSET Workers) \X Nat
        BY DEF Copies
      <4>2. CASE c[1] = {w}
        <5>1. c[2] \in DOMAIN new /\ new[c[2]] = post
          BY <2>2, <4>2, <1>4 DEF Copies
        <5>2. CASE c[2] \in DOMAIN events[w]
          <6>1. events[w][c[2]] = post
            BY <5>1, <5>2, <3>1
          <6>2. QED
            BY <2>2, <1>4, <4>1, <4>2, <5>2, <6>1 DEF Copies
        <5>3. CASE c[2] \notin DOMAIN events[w]
          <6>1. c[2] = Len(events[w]) + 1
            BY <5>1, <5>3, <3>1
          <6>2. QED
            BY <4>1, <4>2, <5>1, <6>1, <3>1
        <5>4. QED
          BY <5>2, <5>3
      <4>3. CASE c[1] # {w}
        BY <4>1, <4>3, <1>3 DEF Copies, Ids
      <4>4. QED
        BY <4>2, <4>3
    <3>3. QED
      BY <3>2
  <2>3. QED
    BY <2>1, <2>2
<1>7. CASE post = mine /\ mine \in claimed'
  <2>1. w \in Claiming(post)
    BY <1>7 DEF Claiming
  <2>2. QED
    BY <1>1, <1>5, <1>6, <1>7, <2>1, ClaimedOnce
<1>8. CASE ~(post = mine /\ mine \in claimed')
  <2>1. post \in claimed' <=> post \in claimed
    BY <1>8
  <2>2. Copies(post)' \in SUBSET Copies(post)
    <3>1. CASE post # mine
      BY <3>1, <1>6
    <3>2. CASE post = mine
      <4>1. \A v \in Workers : Looked(v)' = Looked(v) \/ Looked(v)' = << >>
        BY <3>2, <1>8, <1>3, <1>4
      <4>2. QED
        BY <4>1, <1>1, ForgottenCopies
    <3>3. QED
      BY <3>1, <3>2
  <2>3. IsFiniteSet(Copies(post)') /\ Cardinality(Copies(post)') <= Cardinality(Copies(post))
    BY <1>1, <2>2, FS_Subset DEF Within
  <2>4. Claiming(post)' \subseteq Claiming(post)
    BY <1>5
  <2>5. QED
    BY <1>1, <2>1, <2>3, <2>4, NoMoreCopies
<1>9. QED
  BY <1>7, <1>8

(* Claim keeps the invariant.                                              *)
LEMMA ClaimInv ==
    ASSUME CollectorIInv, NEW w \in Workers, NEW task \in tasks[w], NEW reply \in Replies,
           Claim(w, task, reply)
    PROVE  CollectorIInv'
<1>1. /\ cpc[w] = "claim" /\ found[w] \in Seq(Posts) /\ found[w] # << >>
      /\ events[w] \in Seq(Posts) /\ CollectorTypeOK
      /\ platforms' \in [Workers -> SUBSET Platforms]
  BY CollectorTypes DEF CollectorIInv, Claim
<1>2. UNCHANGED <<requests, requestGroup, rawOut, expiries, rounds, connected, unchecked>>
  BY DEF Claim
<1>3. PICK mine \in Posts, left \in Seq(Posts) : mine = Head(found[w]) /\ left = Tail(found[w])
  <2>1. Head(found[w]) \in Posts /\ Tail(found[w]) \in Seq(Posts)
    BY <1>1
  <2>2. QED
    BY <2>1
<1>4. PICK more \in Seq(Posts) : more = Append(events[w], mine)
  <2>1. Append(events[w], mine) \in Seq(Posts)
    BY <1>1
  <2>2. QED
    BY <2>1
<1>5. /\ claimed' \in {claimed, claimed \cup {mine}}
      /\ \/ PlatformOver(w, task)
         \/ AfterPost(w, task, left, more) /\ claimed' = claimed \cup {mine}
  BY <1>3, <1>4 DEF Claim, Applied, Raised, AfterPost
<1>6. PICK pc \in CollectorPc \ {"claim"}, posts \in Seq(Posts), new \in Seq(Posts) :
         /\ cpc' = [cpc EXCEPT ![w] = pc] /\ tasks' \in [Workers -> SUBSET Task]
         /\ guarded' \in {guarded, guarded \ {w}}
         /\ found' = [found EXCEPT ![w] = posts]
         /\ events' = [events EXCEPT ![w] = new]
         /\ new # << >> => pc \in {"exists", "claim", "publish"}
         /\ pc \in {"exists", "claim"} => posts # << >>
         /\ new = << >> \/ (new = more /\ claimed' = claimed \cup {mine})
  <2>1. CASE PlatformOver(w, task)
    <3>1. /\ \E pc \in {"idle", "load", "ack", "collect"} : cpc' = [cpc EXCEPT ![w] = pc]
          /\ tasks' \in [Workers -> SUBSET Task] /\ guarded' \in {guarded, guarded \ {w}}
          /\ found' = [found EXCEPT ![w] = << >>] /\ events' = [events EXCEPT ![w] = << >>]
      BY <1>1, <2>1, PlatformOverEffect
    <3>2. << >> \in Seq(Posts) /\ {"idle", "load", "ack", "collect"} \subseteq CollectorPc
      BY DEF CollectorPc
    <3>3. QED
      BY <3>1, <3>2
  <2>2. CASE AfterPost(w, task, left, more) /\ claimed' = claimed \cup {mine}
    <3>1. MovesOn(w, more)
      BY <1>1, <2>2, AfterPostEffect
    <3>2. << >> \in Seq(Posts)
      OBVIOUS
    <3>3. QED
      BY <2>2, <3>1, <3>2 DEF MovesOn
  <2>3. QED
    BY <1>5, <2>1, <2>2
<1>7. CollectorTypeOK' => \A post \in Posts : Within(post)'
  BY <1>1, <1>2, <1>3, <1>4, <1>5, <1>6, ClaimWithin
<1>8. /\ requestGroup' \in Group /\ requestGroup'.last <= Len(requests.log)
      /\ rounds' \in 0 .. MaxRounds /\ connected' \subseteq Replicas
      /\ guarded' \subseteq Workers /\ unchecked' \subseteq 1 .. Len(rawOut'.log)
  BY <1>2, <1>6, CollectorGroup
<1>9. /\ claimed' \in SUBSET Posts /\ rawOut' \in StreamOf(RawMention)
      /\ expiries' \in 0 .. MaxExpiries
  BY <1>1, <1>2, <1>5 DEF CollectorTypeOK
<1>10. requests' = requests /\ platforms' \in [Workers -> SUBSET Platforms]
  BY <1>1, <1>2
<1>11. QED
  BY <1>6, <1>7, <1>8, <1>9, <1>10, WorkerStepInv

(* The batch that publish_batch sends.                                     *)
LEMMA FoundEvents ==
    ASSUME CollectorTypeOK, NEW w \in Workers, NEW task \in tasks[w], NEW batched,
           batched = [i \in DOMAIN events[w] |->
                         [project |-> task.project, post |-> events[w][i]]]
    PROVE  /\ batched \in Seq(RawMention) /\ Len(batched) = Len(events[w])
           /\ \A i \in 1 .. Len(events[w]) : batched[i].post = events[w][i]
<1>1. task \in Task /\ events[w] \in Seq(Posts)
  BY CollectorTypes
<1>2. task.project \in Projects
  BY <1>1 DEF Task
<1>3. Len(events[w]) \in Nat /\ DOMAIN events[w] = 1 .. Len(events[w])
      /\ \A i \in 1 .. Len(events[w]) : events[w][i] \in Posts
  BY <1>1
<1>4. \A i \in 1 .. Len(events[w]) :
         [project |-> task.project, post |-> events[w][i]] \in RawMention
  BY <1>2, <1>3 DEF RawMention
<1>5. batched = [i \in 1 .. Len(events[w]) |->
                    [project |-> task.project, post |-> events[w][i]]]
  BY <1>3
<1>6. batched \in [1 .. Len(events[w]) -> RawMention]
  BY <1>4, <1>5
<1>7. batched \in Seq(RawMention) /\ Len(batched) = Len(events[w])
  BY <1>3, <1>6
<1>8. QED
  BY <1>5, <1>7

(* PublishFound keeps the invariant.                                       *)
LEMMA PublishFoundInv ==
    ASSUME CollectorIInv, NEW w \in Workers, NEW task \in tasks[w], NEW reply \in Replies,
           PublishFound(w, task, reply)
    PROVE  CollectorIInv'
<1> DEFINE sent == [i \in DOMAIN events[w] |->
                       [project |-> task.project, post |-> events[w][i]]]
<1>1. /\ cpc[w] = "publish" /\ CollectorTypeOK /\ PlatformOver(w, task)
      /\ platforms' \in [Workers -> SUBSET Platforms]
  BY CollectorTypes DEF CollectorIInv, PublishFound
<1>2. UNCHANGED <<requests, requestGroup, claimed, expiries, rounds, connected>>
  BY DEF PublishFound
<1>3. PICK batched : batched = sent
  OBVIOUS
<1>4. /\ batched \in Seq(RawMention) /\ Len(batched) = Len(events[w])
      /\ \A i \in 1 .. Len(events[w]) : batched[i].post = events[w][i]
  BY <1>1, <1>3, FoundEvents
<1>5. UNCHANGED rawOut \/ rawOut' \in XAdd(rawOut, batched)
  BY <1>3 DEF PublishFound
<1>6. rawOut \in StreamOf(RawMention) /\ rawOut.log \in Seq(RawMention)
  BY <1>1 DEF CollectorTypeOK, StreamOf
<1>7. rawOut' \in StreamOf(RawMention)
  <2>1. CASE rawOut' \in XAdd(rawOut, batched)
    <3>1. batched \in Seq(RawMention)
      BY <1>4
    <3>2. QED
      BY <1>6, <2>1, <3>1, XAddStream
  <2>2. QED
    BY <1>5, <1>6, <2>1
<1>8. /\ \E pc \in {"idle", "load", "ack", "collect"} : cpc' = [cpc EXCEPT ![w] = pc]
      /\ tasks' \in [Workers -> SUBSET Task] /\ guarded' \in {guarded, guarded \ {w}}
      /\ found' = [found EXCEPT ![w] = << >>] /\ events' = [events EXCEPT ![w] = << >>]
  BY <1>1, PlatformOverEffect
<1>9. << >> \in Seq(Posts) /\ {"idle", "load", "ack", "collect"} \subseteq CollectorPc
  BY DEF CollectorPc
<1>10. /\ \A v \in Workers : cpc'[v] = "claim" => cpc[v] = "claim" /\ found'[v] = found[v]
       /\ \A v \in Workers : Looked(v)' = Looked(v) \/ Looked(v)' = << >>
  <2>1. \A v \in Workers : cpc'[v] = "claim" => cpc[v] = "claim" /\ found'[v] = found[v]
    BY <1>1, <1>8, CollectorTypes
  <2>2. \A v \in Workers : Looked(v)' = Looked(v) \/ Looked(v)' = << >>
    BY <1>1, <1>8, LookedLess
  <2>3. QED
    BY <2>1, <2>2
<1>11. /\ w \in guarded => unchecked' = unchecked
       /\ w \notin guarded =>
            unchecked' = unchecked \cup (Len(rawOut.log) + 1 .. Len(rawOut'.log))
       /\ unchecked \subseteq 1 .. Len(rawOut.log)
  BY <1>1 DEF PublishFound, CollectorTypeOK
<1>12. ASSUME CollectorTypeOK' PROVE \A post \in Posts : Within(post)'
  <2>1. CASE UNCHANGED rawOut
    <3>1. Len(rawOut.log) \in Nat
      BY <1>6
    <3>2. unchecked' = unchecked
      <4>1. Len(rawOut.log) + 1 .. Len(rawOut'.log) = {}
        BY <2>1, <3>1
      <4>2. QED
        BY <1>11, <4>1
    <3>3. QED
      BY <1>2, <1>10, <1>12, <2>1, <3>2, QuietStep
  <2>2. CASE rawOut' \in XAdd(rawOut, batched)
    <3> SUFFICES ASSUME NEW post \in Posts PROVE Within(post)'
      OBVIOUS
    <3>1. Within(post)
      BY DEF CollectorIInv
    <3>2. batched \in Seq(RawMention) /\ rawOut \in StreamOf(RawMention)
      BY <1>4, <1>6
    <3>3. rawOut'.log = rawOut.log \o batched
      BY <2>2, <3>2, XAddStream
    <3>4. PICK old \in Nat, n \in Nat : old = Len(rawOut.log) /\ n = Len(batched)
      BY <1>4, <1>6
    <3>5. /\ Len(rawOut.log \o batched) = old + n
          /\ \A i \in 1 .. old : (rawOut.log \o batched)[i] = rawOut.log[i]
          /\ \A i \in 1 .. n : (rawOut.log \o batched)[old + i] = batched[i]
      BY <1>6, <3>2, <3>4, Concatenated
    <3>6. /\ Ids(rawOut) = 1 .. old /\ Ids(rawOut)' = 1 .. (old + n)
          /\ \A i \in 1 .. old : rawOut'.log[i] = rawOut.log[i]
          /\ \A i \in 1 .. n : rawOut'.log[old + i].post = batched[i].post
      BY <3>3, <3>4, <3>5 DEF Ids
    <3>7. /\ DOMAIN events[w] = 1 .. n
          /\ \A i \in 1 .. n : rawOut'.log[old + i].post = events[w][i]
      BY <1>1, <1>4, <3>4, <3>6, CollectorTypes
    <3>8. IsFiniteSet(Copies(post)') /\ Cardinality(Copies(post)') <= Cardinality(Copies(post))
      <4>1. CASE w \in guarded
        <5>1. unchecked' = unchecked /\ unchecked \subseteq 1 .. old
          BY <1>11, <3>4, <4>1
        <5>2. QED
          BY <1>1, <1>8, <3>1, <3>6, <3>7, <4>1, <5>1, PublishedCopies DEF Within
      <4>2. CASE w \notin guarded
        <5>1. unchecked' = unchecked \cup (old + 1 .. old + n)
          BY <1>11, <3>3, <3>4, <3>5, <4>2
        <5>2. Copies(post)' \in SUBSET Copies(post)
          BY <1>1, <1>8, <3>6, <4>2, <5>1, UncheckedCopies
        <5>3. QED
          BY <3>1, <5>2, FS_Subset DEF Within
      <4>3. QED
        BY <4>1, <4>2
    <3>9. Claiming(post)' \subseteq Claiming(post)
      BY <1>10 DEF Claiming
    <3>10. QED
      BY <1>1, <1>2, <1>12, <3>1, <3>8, <3>9, NoMoreCopies
  <2>3. QED
    BY <1>5, <2>1, <2>2
<1>13. /\ requestGroup' \in Group /\ requestGroup'.last <= Len(requests.log)
       /\ rounds' \in 0 .. MaxRounds /\ connected' \subseteq Replicas
       /\ guarded' \subseteq Workers
  BY <1>2, <1>8, CollectorGroup
<1>14. claimed' \in SUBSET Posts /\ expiries' \in 0 .. MaxExpiries
  BY <1>1, <1>2 DEF CollectorTypeOK
<1>15. requests' = requests /\ platforms' \in [Workers -> SUBSET Platforms]
  BY <1>1, <1>2
<1>16. unchecked' \subseteq 1 .. Len(rawOut'.log)
  <2>1. Len(rawOut.log) \in Nat /\ Len(rawOut'.log) \in Nat
        /\ Len(rawOut.log) <= Len(rawOut'.log)
    <3>1. CASE UNCHANGED rawOut
      BY <1>6, <3>1
    <3>2. CASE rawOut' \in XAdd(rawOut, batched)
      <4>1. rawOut'.log = rawOut.log \o batched
        BY <1>4, <1>6, <3>2, XAddStream
      <4>2. QED
        BY <1>4, <1>6, <4>1, Concatenated
    <3>3. QED
      BY <1>5, <3>1, <3>2
  <2>2. /\ 1 .. Len(rawOut.log) \subseteq 1 .. Len(rawOut'.log)
        /\ Len(rawOut.log) + 1 .. Len(rawOut'.log) \subseteq 1 .. Len(rawOut'.log)
    BY <2>1
  <2>3. QED
    BY <1>11, <2>2
<1>17. QED
  BY <1>7, <1>8, <1>9, <1>12, <1>13, <1>14, <1>15, <1>16, WorkerStepInv

(* CrashCollector keeps the invariant.                                     *)
LEMMA CrashCollectorInv ==
    ASSUME CollectorIInv, NEW r \in Replicas, CrashCollector(r)
    PROVE  CollectorIInv'
<1>1. /\ cpc' = [w \in Workers |-> IF w[1] = r THEN "idle" ELSE cpc[w]]
      /\ tasks' = [w \in Workers |-> IF w[1] = r THEN {} ELSE tasks[w]]
      /\ platforms' = [w \in Workers |-> IF w[1] = r THEN {} ELSE platforms[w]]
      /\ found' = [w \in Workers |-> IF w[1] = r THEN << >> ELSE found[w]]
      /\ events' = [w \in Workers |-> IF w[1] = r THEN << >> ELSE events[w]]
      /\ connected' = connected \cup {r} /\ guarded' = {w \in guarded : w[1] # r}
      /\ UNCHANGED <<requests, requestGroup, rawOut, claimed, expiries, rounds, unchecked>>
  BY DEF CrashCollector
<1>2. CollectorTypeOK /\ "idle" \in CollectorPc
  BY DEF CollectorIInv, CollectorPc
<1>3. /\ cpc' \in [Workers -> CollectorPc] /\ tasks' \in [Workers -> SUBSET Task]
      /\ platforms' \in [Workers -> SUBSET Platforms]
      /\ found' \in [Workers -> Seq(Posts)] /\ events' \in [Workers -> Seq(Posts)]
  BY <1>1, <1>2, CollectorTypes
<1>4. /\ \A v \in Workers : events'[v] # << >> => cpc'[v] \in {"exists", "claim", "publish"}
      /\ \A v \in Workers : cpc'[v] \in {"exists", "claim"} => found'[v] # << >>
      /\ \A v \in Workers : Looked(v)' = Looked(v) \/ Looked(v)' = << >>
      /\ \A v \in Workers : cpc'[v] = "claim" => cpc[v] = "claim" /\ found'[v] = found[v]
  BY <1>1 DEF CollectorIInv, CollectorTypeOK, Looked
<1>5. CollectorTypeOK'
  BY <1>1, <1>2, <1>3, <1>4 DEF CollectorTypeOK
<1>6. \A post \in Posts : Within(post)'
  BY <1>1, <1>4, <1>5, QuietStep
<1>7. QED
  BY <1>1, <1>4, <1>5, <1>6 DEF CollectorIInv

(* ExpireClaim keeps the invariant.                                        *)
LEMMA ExpireClaimInv ==
    ASSUME CollectorIInv, NEW gone \in Posts, ExpireClaim(gone)
    PROVE  CollectorIInv'
<1>1. /\ expiries < MaxExpiries /\ expiries' = expiries + 1
      /\ gone \in claimed /\ claimed' = claimed \ {gone}
      /\ UNCHANGED <<requests, requestGroup, rawOut, rounds, cpc, tasks, platforms, found, events>>
      /\ UNCHANGED <<connected, guarded, unchecked>>
  BY DEF ExpireClaim, linkVars
<1>2. CollectorTypeOK'
  <2>1. expiries' \in 0 .. MaxExpiries
    BY <1>1, CollectorAssumption DEF CollectorIInv, CollectorTypeOK
  <2>2. QED
    BY <1>1, <2>1 DEF CollectorIInv, CollectorTypeOK
<1>3. ASSUME NEW post \in Posts PROVE Within(post)'
  <2>1. Within(post) /\ CollectorTypeOK
    BY DEF CollectorIInv
  <2>2. Copies(post)' = Copies(post) /\ Claiming(post)' = Claiming(post)
    BY <1>1, SameCopies DEF Claiming
  <2>3. CASE post = gone
    BY <1>1, <2>1, <2>2, <2>3, ExpiredOnce
  <2>4. CASE post # gone
    <3>1. IsFiniteSet(Copies(post)') /\ Cardinality(Copies(post)') <= Cardinality(Copies(post))
      BY <2>1, <2>2, FS_CardinalityType DEF Within
    <3>2. post \in claimed' <=> post \in claimed
      BY <1>1, <2>4
    <3>3. QED
      BY <1>1, <1>2, <2>1, <2>2, <3>1, <3>2, NoMoreCopies
  <2>5. QED
    BY <2>3, <2>4
<1>4. QED
  BY <1>1, <1>2, <1>3 DEF CollectorIInv

(* Request keeps the invariant.                                            *)
LEMMA RequestInv ==
    ASSUME CollectorIInv, NEW p \in Projects, Request(p)
    PROVE  CollectorIInv'
<1>1. /\ requests' \in XAdd(requests, <<p>>)
      /\ UNCHANGED <<requestGroup, rawOut, claimed, expiries, rounds, cpc, tasks, platforms,
                     found, events>>
      /\ UNCHANGED <<connected, guarded, unchecked>>
  BY DEF Request, linkVars
<1>2. requests' \in StreamOf(Projects) /\ Len(requests'.log) = Len(requests.log) + 1
  <2>1. requests \in StreamOf(Projects) /\ <<p>> \in Seq(Projects) /\ Len(<<p>>) = 1
    BY CollectorGroup
  <2>2. QED
    BY <1>1, <2>1, XAddStream
<1>3. Len(requests.log) \in Nat
  BY CollectorGroup DEF StreamOf
<1>4. requestGroup'.last <= Len(requests'.log)
  BY <1>1, <1>2, <1>3, CollectorGroup
<1>5. CollectorTypeOK'
  BY <1>1, <1>2 DEF CollectorIInv, CollectorTypeOK
<1>6. \A post \in Posts : Within(post)'
  BY <1>1, <1>5, QuietStep DEF Looked
<1>7. QED
  BY <1>1, <1>4, <1>5, <1>6 DEF CollectorIInv

(* Losing or making the connection keeps the invariant.                    *)
LEMMA ConnectionInv ==
    ASSUME CollectorIInv, NEW w \in Workers, LoseConnection(w) \/ Reconnect(w)
    PROVE  CollectorIInv'
<1>1. /\ connected' \in {connected \ {w[1]}, connected \cup {w[1]}} /\ w[1] \in Replicas
      /\ UNCHANGED <<requests, requestGroup, rawOut, claimed, expiries, rounds, guarded,
                     unchecked, cpc, tasks, platforms, found, events>>
  BY DEF LoseConnection, Reconnect, Workers
<1>2. CollectorTypeOK'
  BY <1>1 DEF CollectorIInv, CollectorTypeOK
<1>3. \A post \in Posts : Within(post)'
  BY <1>1, <1>2, QuietStep DEF Looked
<1>4. QED
  BY <1>1, <1>2, <1>3 DEF CollectorIInv

(* A stuttering step keeps the invariant.                                  *)
LEMMA CollectorUnchangedInv ==
    ASSUME CollectorIInv, UNCHANGED collectorVars
    PROVE  CollectorIInv'
<1> USE DEF collectorVars, linkVars
<1>1. CollectorTypeOK'
  BY DEF CollectorIInv, CollectorTypeOK
<1>2. \A post \in Posts : Within(post)'
  BY <1>1, QuietStep DEF Looked
<1>3. QED
  BY <1>1, <1>2 DEF CollectorIInv

(* The invariant holds at first.                                           *)
LEMMA CollectorInitInv == CollectorInit => CollectorIInv
<1> SUFFICES ASSUME CollectorInit PROVE CollectorIInv
  OBVIOUS
<1>1. /\ requests = [log |-> << >>, first |-> 1] /\ rawOut = [log |-> << >>, first |-> 1]
      /\ requestGroup = [last |-> 0, pending |-> {}, acked |-> {}]
      /\ Len(requests.log) = 0 /\ Len(rawOut.log) = 0
  BY DEF CollectorInit, EmptyStream, NewGroup
<1>2. /\ requests \in StreamOf(Projects) /\ rawOut \in StreamOf(RawMention)
      /\ requestGroup \in Group
  BY <1>1 DEF StreamOf, Group
<1>3. CollectorTypeOK
  BY <1>2, CollectorAssumption DEF CollectorInit, CollectorTypeOK, CollectorPc
<1>4. ASSUME NEW post \in Posts PROVE Within(post)
  <2>1. Copies(post) = {}
    BY <1>1 DEF CollectorInit, Copies, Ids, Looked
  <2>2. IsFiniteSet(Copies(post)) /\ Cardinality(Copies(post)) = 0
    BY <2>1, FS_EmptySet
  <2>3. expiries = 0 /\ post \notin claimed /\ Bound(expiries) \in Nat
    BY BoundGrows DEF CollectorInit
  <2>4. QED
    BY <2>2, <2>3 DEF Within
<1>5. QED
  BY <1>1, <1>3, <1>4 DEF CollectorIInv, CollectorInit

(* Every step keeps the invariant.                                         *)
LEMMA CollectorStepInv ==
    ASSUME CollectorIInv, [CollectorNext]_collectorVars
    PROVE  CollectorIInv'
<1>1. ASSUME NEW w \in Workers, CollectorStep(w) PROVE CollectorIInv'
  <2>1. CASE \E reply \in Replies : ConsumeRequests(w, reply)
    BY <2>1, ConsumeRequestsInv
  <2>2. CASE \E platform \in platforms[w] :
                \/ \E results \in Results(platform) : Search(w, platform, results)
                \/ \E task \in tasks[w] : SearchNothing(w, task, platform)
    BY <2>2, SearchInv, SearchNothingInv
  <2>3. CASE \E task \in tasks[w], reply \in Replies :
                \/ \E usable \in BOOLEAN : LoadProject(w, task, usable, reply)
                \/ CheckDuplicate(w, task, reply)
                \/ Claim(w, task, reply)
                \/ PublishFound(w, task, reply)
                \/ AckRequest(w, task, reply)
    BY <2>3, LoadProjectInv, CheckDuplicateInv, ClaimInv, PublishFoundInv, AckRequestInv
  <2>4. QED
    BY <1>1, <2>1, <2>2, <2>3, ConnectionInv DEF CollectorStep
<1>2. ASSUME CollectorEvents PROVE CollectorIInv'
  <2>1. ASSUME NEW w \in Workers, NEW active \in SUBSET Projects \ {{}}, StartRound(w, active)
        PROVE  CollectorIInv'
    BY <2>1, StartRoundInv
  <2>2. QED
    BY <1>2, <2>1, RequestInv, ExpireClaimInv, CrashCollectorInv DEF CollectorEvents
<1>3. QED
  BY <1>1, <1>2, CollectorUnchangedInv DEF CollectorNext

(* As many copies of a post as the bound allows are in the stream.         *)
LEMMA WithinIsBounded == CollectorIInv => OnePublishPerWorker
<1> SUFFICES ASSUME CollectorIInv, NEW post \in Posts
             PROVE  Cardinality({i \in Ids(rawOut) \ unchecked : rawOut.log[i].post = post})
                       <= Cardinality(Workers) * (1 + expiries)
  BY DEF OnePublishPerWorker
<1> DEFINE published == {i \in Ids(rawOut) \ unchecked : rawOut.log[i].post = post}
<1> DEFINE mark == [i \in published |-> <<{}, i>>]
<1>1. Within(post) /\ expiries \in Nat /\ Len(rawOut.log) \in Nat
  BY CollectorAssumption DEF CollectorIInv, CollectorTypeOK, StreamOf
<1>2. mark \in Injection(published, Copies(post))
  <2>1. \A i \in published : <<{}, i>> \in Copies(post)
    BY <1>1 DEF Copies, Ids
  <2>2. mark \in [published -> Copies(post)]
    BY <2>1
  <2>3. \A i, j \in published : mark[i] = mark[j] => i = j
    OBVIOUS
  <2>4. QED
    BY <2>2, <2>3 DEF Injection, IsInjective
<1>3. /\ IsFiniteSet(published) /\ Cardinality(published) <= Cardinality(Copies(post))
      /\ IsFiniteSet(Copies(post))
  BY <1>1, <1>2, FS_Injection DEF Within
<1>4. /\ Cardinality(published) \in Nat /\ Cardinality(Copies(post)) \in Nat
      /\ Cardinality(Claiming(post)) \in Nat /\ Cardinality(Workers) \in Nat
      /\ Bound(expiries) \in Nat /\ Bound(1 + expiries) = Bound(expiries) + Cardinality(Workers)
  BY <1>1, <1>3, FS_CardinalityType, FiniteWorkers, BoundGrows
<1>5. Cardinality(Copies(post)) <= Bound(1 + expiries)
  <2>1. CASE post \in claimed
    BY <1>1, <1>4, <2>1 DEF Within
  <2>2. CASE post \notin claimed
    BY <1>1, <1>4, <2>2 DEF Within
  <2>3. QED
    BY <2>1, <2>2
<1>6. Cardinality(published) <= Bound(1 + expiries)
  BY <1>3, <1>4, <1>5
<1>7. QED
  BY <1>6 DEF Bound

(* The inductive invariant of the collector service holds.                 *)
THEOREM CollectorInvariant == CollectorSpec => []CollectorIInv
<1>1. CollectorIInv /\ [CollectorNext]_collectorVars => CollectorIInv'
  BY CollectorStepInv
<1>2. QED
  BY <1>1, CollectorInitInv, PTL DEF CollectorSpec

(* The variables of the collector keep their types, and only a worker that *)
(* is handling posts holds events.                                         *)
THEOREM CollectorTyping == CollectorSpec => []CollectorTypeOK
<1>1. CollectorIInv => CollectorTypeOK
  BY DEF CollectorIInv
<1>2. QED
  BY <1>1, CollectorInvariant, PTL

(* The window between EXISTS and SETEX costs at most one more copy for     *)
(* each coroutine, in each life of the key, for any number of replicas and *)
(* whatever becomes of their connections; what a coroutine without r       *)
(* publishes unchecked comes on top.                                       *)
THEOREM CollectorOnePublishPerWorker == CollectorSpec => []OnePublishPerWorker
<1>1. QED
  BY WithinIsBounded, CollectorInvariant, PTL

-----------------------------------------------------------------------------
(* The collector: what a step may take from a periodic round.              *)

(* Between projects a coroutine has no platforms left, when it waits it    *)
(* has no projects either, and only the listener acknowledges.             *)
Rested ==
    \A w \in Workers :
        /\ cpc[w] \in {"idle", "load", "ack"} => platforms[w] = {}
        /\ cpc[w] = "idle" => tasks[w] = {}
        /\ cpc[w] = "ack" => w[2] = "listener"

RestedIInv == CollectorTypeOK /\ Rested

(* What a step of worker w may take from it: a task, once no platform is   *)
(* left, and a platform.                                                   *)
TakesOne(w) ==
    /\ \/ tasks'[w] = tasks[w]
       \/ (\E task : tasks'[w] = tasks[w] \ {task}) /\ platforms'[w] = {}
       \/ tasks[w] = {}
    /\ \/ platforms[w] \subseteq platforms'[w]
       \/ \E platform : platforms'[w] = platforms[w] \ {platform}

Others(w) ==
    \A v \in Workers : v # w => /\ cpc'[v] = cpc[v] /\ tasks'[v] = tasks[v]
                                /\ platforms'[v] = platforms[v]

(* What the end of collect_project means for the worker.                   *)
LEMMA ReturnedRests ==
    ASSUME CollectorTypeOK, NEW w \in Workers, NEW task,
           Returned(w, task) \/ (w[2] # "listener" /\ NextTask(w, task))
    PROVE  /\ cpc'[w] \in {"ack", "idle", "load"}
           /\ cpc'[w] = "idle" => tasks'[w] = {}
           /\ cpc'[w] = "ack" => w[2] = "listener"
           /\ tasks'[w] = tasks[w] \/ \E t : tasks'[w] = tasks[w] \ {t}
           /\ \A v \in Workers : v # w => cpc'[v] = cpc[v] /\ tasks'[v] = tasks[v]
<1>1. cpc \in [Workers -> CollectorPc] /\ tasks \in [Workers -> SUBSET Task]
  BY DEF CollectorTypeOK
<1>2. CASE w[2] = "listener"
  BY <1>1, <1>2 DEF Returned, Go
<1>3. CASE w[2] # "listener"
  <2>1. /\ tasks' = [tasks EXCEPT ![w] = @ \ {task}]
        /\ cpc' = [cpc EXCEPT ![w] = IF tasks'[w] = {} THEN "idle" ELSE "load"]
    BY <1>3 DEF Returned, NextTask, Go
  <2>2. QED
    BY <1>1, <2>1
<1>4. QED
  BY <1>2, <1>3

(* The same for the end of a platform.                                     *)
LEMMA PlatformOverRests ==
    ASSUME CollectorTypeOK, NEW w \in Workers, NEW task, PlatformOver(w, task),
           platforms' = platforms
    PROVE  Others(w) /\ (w[2] = "periodic" => TakesOne(w))
           /\ (cpc'[w] \in {"idle", "load", "ack"} => platforms'[w] = {})
           /\ (cpc'[w] = "idle" => tasks'[w] = {})
           /\ (cpc'[w] = "ack" => w[2] = "listener")
<1>1. cpc \in [Workers -> CollectorPc]
  BY DEF CollectorTypeOK
<1>2. CASE platforms[w] = {}
  <2>1. Returned(w, task)
    BY <1>2 DEF PlatformOver
  <2>2. QED
    BY <1>2, <2>1, ReturnedRests DEF Others, TakesOne
<1>3. CASE platforms[w] # {}
  <2>1. cpc' = [cpc EXCEPT ![w] = "collect"] /\ tasks' = tasks
    BY <1>3 DEF PlatformOver, Go
  <2>2. QED
    BY <1>1, <2>1 DEF Others, TakesOne
<1>4. QED
  BY <1>2, <1>3

(* What a step of worker w shows.                                          *)
Rests(w) ==
    /\ Others(w)
    /\ w[2] = "periodic" => TakesOne(w)
    /\ cpc'[w] \in {"idle", "load", "ack"} => platforms'[w] = {}
    /\ cpc'[w] = "idle" => tasks'[w] = {}
    /\ cpc'[w] = "ack" => w[2] = "listener"

(* No step of a worker takes more.                                         *)
LEMMA WorkerRests ==
    ASSUME RestedIInv, NEW w \in Workers, CollectorStep(w)
    PROVE  Rests(w)
<1>1. /\ cpc \in [Workers -> CollectorPc] /\ tasks \in [Workers -> SUBSET Task]
      /\ platforms \in [Workers -> SUBSET Platforms]
      /\ cpc[w] \in {"idle", "load", "ack"} => platforms[w] = {}
      /\ cpc[w] = "idle" => tasks[w] = {}
      /\ cpc[w] = "ack" => w[2] = "listener"
      /\ CollectorTypeOK
  BY DEF RestedIInv, Rested, CollectorTypeOK
<1>2. ASSUME NEW reply \in Replies, ConsumeRequests(w, reply) PROVE Rests(w)
  <2>1. /\ cpc[w] = "idle" /\ w[2] = "listener" /\ platforms' = platforms
        /\ \/ UNCHANGED <<cpc, tasks>>
           \/ /\ cpc' = [cpc EXCEPT ![w] = "load"]
              /\ \E ts : tasks' = [tasks EXCEPT ![w] = ts]
    BY <1>2 DEF ConsumeRequests, Go
  <2>2. QED
    BY <1>1, <2>1 DEF Rests, Others
<1>3. ASSUME NEW platform \in platforms[w], NEW results \in Results(platform),
             Search(w, platform, results)
      PROVE  Rests(w)
  <2>1. /\ \E pc \in {"exists", "publish"} : cpc' = [cpc EXCEPT ![w] = pc]
        /\ tasks' = tasks
        /\ platforms' = [platforms EXCEPT ![w] = @ \ {platform}]
    BY <1>3 DEF Search, Go
  <2>2. QED
    BY <1>1, <2>1 DEF Rests, Others, TakesOne
<1>4. ASSUME NEW platform \in platforms[w], NEW task \in tasks[w],
             SearchNothing(w, task, platform)
      PROVE  Rests(w)
  <2>1. /\ cpc[w] = "collect"
        /\ platforms' = [platforms EXCEPT ![w] = @ \ {platform}]
        /\ IF platforms'[w] = {} THEN Returned(w, task) ELSE UNCHANGED <<guarded, cpc, tasks>>
    BY <1>4 DEF SearchNothing
  <2>2. platforms'[w] = platforms[w] \ {platform}
        /\ \A v \in Workers : v # w => platforms'[v] = platforms[v]
    BY <1>1, <2>1
  <2>3. CASE platforms'[w] = {}
    BY <1>1, <2>1, <2>2, <2>3, ReturnedRests DEF Rests, Others, TakesOne
  <2>4. CASE platforms'[w] # {}
    BY <1>1, <2>1, <2>2, <2>4 DEF Rests, Others, TakesOne
  <2>5. QED
    BY <2>3, <2>4
<1>5. ASSUME NEW task \in tasks[w], NEW reply \in Replies, NEW usable \in BOOLEAN,
             LoadProject(w, task, usable, reply)
      PROVE  Rests(w)
  <2>1. cpc[w] = "load" /\ platforms[w] = {}
    BY <1>1, <1>5 DEF LoadProject
  <2>2. CASE Raised(reply) /\ w[2] = "listener"
    <3>1. /\ cpc' = [cpc EXCEPT ![w] = "idle"] /\ tasks' = [tasks EXCEPT ![w] = {}]
          /\ platforms' = platforms
      BY <1>5, <2>2 DEF LoadProject, Go
    <3>2. QED
      BY <1>1, <2>1, <2>2, <3>1 DEF Rests, Others
  <2>3. CASE Raised(reply) /\ w[2] # "listener"
    <3>1. NextTask(w, task) /\ platforms' = platforms
      BY <1>5, <2>3 DEF LoadProject
    <3>2. QED
      BY <1>1, <2>1, <2>3, <3>1, ReturnedRests DEF Rests, Others, TakesOne
  <2>4. CASE ~Raised(reply) /\ usable
    <3>1. /\ cpc' = [cpc EXCEPT ![w] = "collect"] /\ tasks' = tasks
          /\ platforms' = [platforms EXCEPT ![w] = Platforms]
      BY <1>5, <2>4 DEF LoadProject, Go
    <3>2. QED
      BY <1>1, <2>1, <3>1 DEF Rests, Others, TakesOne
  <2>5. CASE ~Raised(reply) /\ ~usable
    <3>1. Returned(w, task) /\ platforms' = platforms
      BY <1>5, <2>5 DEF LoadProject
    <3>2. QED
      BY <1>1, <2>1, <3>1, ReturnedRests DEF Rests, Others, TakesOne
  <2>6. QED
    BY <2>2, <2>3, <2>4, <2>5
<1>6. ASSUME NEW task, NEW left, NEW toPublish, AfterPost(w, task, left, toPublish),
             platforms' = platforms
      PROVE  Rests(w)
  <2>1. CASE left = << >> /\ toPublish = << >>
    <3>1. PlatformOver(w, task)
      BY <1>6, <2>1 DEF AfterPost
    <3>2. QED
      BY <1>1, <1>6, <3>1, PlatformOverRests DEF Rests
  <2>2. CASE ~(left = << >> /\ toPublish = << >>)
    <3>1. PICK pc \in {"publish", "exists"} : cpc' = [cpc EXCEPT ![w] = pc]
      BY <1>6, <2>2 DEF AfterPost, Go
    <3>2. tasks' = tasks
      BY <1>6, <2>2 DEF AfterPost
    <3>3. QED
      BY <1>1, <1>6, <3>1, <3>2 DEF Rests, Others, TakesOne
  <2>3. QED
    BY <2>1, <2>2
<1>7. ASSUME NEW task \in tasks[w], NEW reply \in Replies, CheckDuplicate(w, task, reply)
      PROVE  Rests(w)
  <2>1. /\ platforms' = platforms
        /\ \/ PlatformOver(w, task)
           \/ AfterPost(w, task, Tail(found[w]), events[w])
           \/ cpc' = [cpc EXCEPT ![w] = "claim"] /\ tasks' = tasks
    BY <1>7 DEF CheckDuplicate, Go
  <2>2. CASE PlatformOver(w, task)
    BY <1>1, <2>1, <2>2, PlatformOverRests DEF Rests
  <2>3. CASE cpc' = [cpc EXCEPT ![w] = "claim"] /\ tasks' = tasks
    BY <1>1, <2>1, <2>3 DEF Rests, Others, TakesOne
  <2>4. QED
    BY <1>6, <2>1, <2>2, <2>3
<1>8. ASSUME NEW task \in tasks[w], NEW reply \in Replies, Claim(w, task, reply)
      PROVE  Rests(w)
  <2>1. /\ platforms' = platforms
        /\ \/ PlatformOver(w, task)
           \/ AfterPost(w, task, Tail(found[w]), Append(events[w], Head(found[w])))
    BY <1>8 DEF Claim
  <2>2. CASE PlatformOver(w, task)
    BY <1>1, <2>1, <2>2, PlatformOverRests DEF Rests
  <2>3. QED
    BY <1>6, <2>1, <2>2
<1>9. ASSUME NEW task \in tasks[w], NEW reply \in Replies, PublishFound(w, task, reply)
      PROVE  Rests(w)
  <2>1. platforms' = platforms /\ PlatformOver(w, task)
    BY <1>9 DEF PublishFound
  <2>2. QED
    BY <1>1, <2>1, PlatformOverRests DEF Rests
<1>10. ASSUME NEW task \in tasks[w], NEW reply \in Replies, AckRequest(w, task, reply)
       PROVE  Rests(w)
  <2>1. /\ cpc[w] = "ack" /\ platforms' = platforms /\ platforms[w] = {}
        /\ \/ cpc' = [cpc EXCEPT ![w] = "idle"] /\ tasks' = [tasks EXCEPT ![w] = {}]
           \/ NextTask(w, task)
    BY <1>1, <1>10 DEF AckRequest, Go
  <2>2. w[2] = "listener" /\ w[2] # "periodic"
    BY <1>1, <2>1
  <2>3. QED
    BY <1>1, <2>1, <2>2 DEF NextTask, Go, Rests, Others
<1>11. ASSUME LoseConnection(w) \/ Reconnect(w) PROVE Rests(w)
  <2>1. UNCHANGED <<cpc, tasks, platforms>>
    BY <1>11 DEF LoseConnection, Reconnect
  <2>2. QED
    BY <1>1, <2>1 DEF Rests, Others, TakesOne
<1>12. QED
  BY <1>2, <1>3, <1>4, <1>5, <1>7, <1>8, <1>9, <1>10, <1>11 DEF CollectorStep

(* The invariant of the rounds holds at first and is kept.                 *)
LEMMA RestedStepInv ==
    ASSUME RestedIInv, CollectorTypeOK', [CollectorNext]_collectorVars
    PROVE  Rested'
<1>1. /\ cpc \in [Workers -> CollectorPc] /\ tasks \in [Workers -> SUBSET Task]
      /\ Rested
  BY DEF RestedIInv, CollectorTypeOK
<1>2. ASSUME UNCHANGED <<cpc, tasks, platforms>> PROVE Rested'
  BY <1>1, <1>2 DEF Rested
<1>3. ASSUME NEW w \in Workers, CollectorStep(w) PROVE Rested'
  BY <1>1, <1>3, WorkerRests DEF Rests, Others, Rested
<1>4. ASSUME NEW r \in Replicas, CrashCollector(r) PROVE Rested'
  BY <1>1, <1>4 DEF CrashCollector, Rested
<1>5. ASSUME NEW w \in Workers, NEW active \in SUBSET Projects \ {{}}, StartRound(w, active)
      PROVE  Rested'
  <2>1. /\ cpc[w] = "idle" /\ platforms' = platforms
        /\ cpc' = [cpc EXCEPT ![w] = "load"]
        /\ \E ts : tasks' = [tasks EXCEPT ![w] = ts]
    BY <1>5 DEF StartRound, Go
  <2>2. QED
    BY <1>1, <2>1 DEF Rested
<1>6. ASSUME CollectorEvents PROVE Rested'
  BY <1>2, <1>4, <1>5, <1>6 DEF CollectorEvents, Request, ExpireClaim
<1>7. QED
  BY <1>2, <1>3, <1>6 DEF CollectorNext, collectorVars

(* A step contains its failure: for one periodic worker.                   *)
ContainedFor(w) ==
    /\ Cardinality(tasks[w] \ tasks'[w]) <= 1
    /\ Cardinality(platforms[w] \ platforms'[w]) <= 1
    /\ ~(tasks[w] \subseteq tasks'[w]) => platforms'[w] = {}

(* Taking one of each is containing the failure.                           *)
LEMMA TakesOneContained ==
    ASSUME NEW w, TakesOne(w)
    PROVE  ContainedFor(w)
<1>1. \A S, x : S \ (S \ {x}) \in {{}, {x}}
  OBVIOUS
<1>3. (tasks[w] \ tasks'[w] = {}) \/ \E x : tasks[w] \ tasks'[w] = {x}
  BY <1>1 DEF TakesOne
<1>4. (platforms[w] \ platforms'[w] = {}) \/ \E x : platforms[w] \ platforms'[w] = {x}
  BY <1>1 DEF TakesOne
<1>5. ~(tasks[w] \subseteq tasks'[w]) => platforms'[w] = {}
  BY DEF TakesOne
<1>6. ASSUME NEW S, S = {} \/ \E x : S = {x} PROVE Cardinality(S) <= 1
  <2>1. CASE S = {}
    <3>1. Cardinality(S) = 0
      BY <2>1, FS_EmptySet
    <3>2. QED
      BY <3>1
  <2>2. ASSUME NEW x, S = {x} PROVE Cardinality(S) <= 1
    <3>1. Cardinality(S) = 1
      BY <2>2, FS_Singleton
    <3>2. QED
      BY <3>1
  <2>3. QED
    BY <1>6, <2>1, <2>2
<1>7. Cardinality(tasks[w] \ tasks'[w]) <= 1 /\ Cardinality(platforms[w] \ platforms'[w]) <= 1
  BY <1>3, <1>4, <1>6
<1>8. QED
  BY <1>5, <1>7 DEF ContainedFor

(* Every step but a crash of its own replica.                              *)
LEMMA StepContained ==
    ASSUME RestedIInv, CollectorNext, NEW w \in Workers, w[2] = "periodic",
           ~CrashCollector(w[1])
    PROVE  TakesOne(w)
<1>1. /\ tasks \in [Workers -> SUBSET Task] /\ platforms \in [Workers -> SUBSET Platforms]
      /\ cpc[w] = "idle" => tasks[w] = {}
  BY DEF RestedIInv, Rested, CollectorTypeOK
<1>2. ASSUME NEW v \in Workers, CollectorStep(v) PROVE TakesOne(w)
  BY <1>2, WorkerRests DEF Rests, Others, TakesOne
<1>3. ASSUME NEW r \in Replicas, CrashCollector(r) PROVE TakesOne(w)
  BY <1>3 DEF CrashCollector, TakesOne
<1>4. ASSUME NEW v \in Workers, NEW active \in SUBSET Projects \ {{}}, StartRound(v, active)
      PROVE  TakesOne(w)
  <2>1. /\ cpc[v] = "idle" /\ platforms' = platforms
        /\ \E ts : tasks' = [tasks EXCEPT ![v] = ts]
    BY <1>4 DEF StartRound
  <2>2. QED
    BY <1>1, <2>1 DEF TakesOne
<1>5. ASSUME CollectorEvents PROVE TakesOne(w)
  BY <1>3, <1>4, <1>5 DEF CollectorEvents, Request, ExpireClaim, TakesOne
<1>6. QED
  BY <1>2, <1>5 DEF CollectorNext

(* A failing platform, project or Redis call costs the periodic round at   *)
(* most the platform or the project it happened in, and a project only     *)
(* once none of its platforms is left.                                     *)
THEOREM CollectorFailureIsContained == CollectorSpec => FailureIsContained
<1>1. CollectorInit => Rested
  BY DEF CollectorInit, Rested
<1>2. CollectorTypeOK /\ Rested /\ CollectorTypeOK' /\ [CollectorNext]_collectorVars => Rested'
  BY RestedStepInv DEF RestedIInv
<1>3. CollectorTypeOK /\ Rested /\ [CollectorNext]_collectorVars =>
         [\A w \in Workers : w[2] = "periodic" /\ ~CrashCollector(w[1])
             => ContainedFor(w)]_collectorVars
  BY StepContained, TakesOneContained DEF RestedIInv
<1>4. QED
  BY <1>1, <1>2, <1>3, CollectorTyping, PTL DEF CollectorSpec, FailureIsContained, ContainedFor
=============================================================================
