--------------------------- MODULE AnalyzerProofs ---------------------------
(***************************************************************************)
(* Proofs about the analyzer service for any number of replicas, any batch *)
(* size and stream length, and any pattern of crashes and Redis failures.  *)
(*                                                                         *)
(* ForwardedAtMostOnce is not inductive: that a replica does not forward   *)
(* an entry again rests on nobody else holding it (Holding, from the group *)
(* never delivering an id twice) and on the replica itself not having      *)
(* forwarded it yet (Outcome).                                             *)
(***************************************************************************)
EXTENDS Analyzer, FiniteSetTheorems, SequenceTheorems, TLAPS

Delivered == 1 .. rawGroup.last

(* What a replica holds was delivered to it alone, and is of one kind; the *)
(* loop is past the analysis once it publishes, and so on.                 *)
Holding ==
    /\ \A a \in Analyzers : Held(a) \subseteq Delivered
    /\ \A a, b \in Analyzers : a # b => Held(a) \cap Held(b) = {}
    /\ \A a \in Analyzers :
          /\ todo[a] \cap good[a] = {}
          /\ todo[a] \cap bad[a] = {}
          /\ good[a] \cap bad[a] = {}
          /\ apc[a] # "analyze" => todo[a] = {}
          /\ apc[a] \notin {"analyze", "publish", "ack"} => good[a] = {}
          /\ apc[a] = "idle" => bad[a] = {}

(* What happened to the entries: those held have not been forwarded or     *)
(* dead-lettered, but for the step the replica is at.                      *)
Outcome ==
    /\ Origins \cup DeadLetters \subseteq Delivered
    /\ \A a \in Analyzers :
          /\ (todo[a] \cup bad[a]) \cap Origins = {}
          /\ (todo[a] \cup good[a]) \cap DeadLetters = {}
          /\ apc[a] # "ack" => good[a] \cap Origins = {}

(* What a replica is about to acknowledge is accounted for.                *)
Accounted ==
    \A a \in Analyzers :
        /\ apc[a] = "ack" => good[a] \subseteq Origins
        /\ apc[a] = "dlq_ack" => \A id \in bad[a] : IsFirst(id, bad[a]) => id \in DeadLetters
        /\ apc[a] = "last_resort" => \A id \in bad[a] : IsFirst(id, bad[a]) => id \in dlqRaised

AnalyzerIInv ==
    /\ TypeOK
    /\ Holding
    /\ Outcome
    /\ Accounted
    /\ ForwardedAtMostOnce
    /\ NeverForwardedAndDead
    /\ AckedIsAccountedFor

-----------------------------------------------------------------------------
(* Streams and groups.                                                     *)

(* What XADD does to a stream.                                             *)
LEMMA XAddStream ==
    ASSUME NEW Entry, NEW stream \in StreamOf(Entry), NEW entries \in Seq(Entry),
           NEW added \in XAdd(stream, entries)
    PROVE  /\ added \in StreamOf(Entry)
           /\ added.log = stream.log \o entries
           /\ Len(added.log) = Len(stream.log) + Len(entries)
<1>1. PICK f \in stream.first .. Len(stream.log \o entries) :
         added = [log |-> stream.log \o entries, first |-> f]
  BY DEF XAdd
<1>2. stream.log \in Seq(Entry) /\ stream.first \in Nat \ {0}
  BY DEF StreamOf
<1>3. stream.log \o entries \in Seq(Entry)
      /\ Len(stream.log \o entries) = Len(stream.log) + Len(entries)
  BY <1>2
<1>4. QED
  BY <1>1, <1>2, <1>3 DEF StreamOf

(* XREADGROUP delivers ids past the last one, up to the new last one, all  *)
(* of them ids of the stream.                                              *)
LEMMA FreshIds ==
    ASSUME NEW Entry, NEW stream \in StreamOf(Entry), NEW group \in Group,
           NEW count \in Nat \ {0}, Fresh(stream, group, count) # {},
           group.last <= Len(stream.log)
    PROVE  /\ LastFresh(stream, group, count) \in Nat
           /\ group.last < LastFresh(stream, group, count)
           /\ LastFresh(stream, group, count) <= Len(stream.log)
           /\ \A id \in Fresh(stream, group, count) :
                 /\ id \in Nat /\ group.last < id
                 /\ id <= LastFresh(stream, group, count)
<1>1. /\ stream.first \in Nat \ {0} /\ group.last \in Nat /\ Len(stream.log) \in Nat
  BY DEF StreamOf, Group
<1>2. FirstFresh(stream, group) \in Nat /\ group.last < FirstFresh(stream, group)
  BY <1>1 DEF FirstFresh
<1>3. LastFresh(stream, group, count) \in Int
      /\ LastFresh(stream, group, count) <= Len(stream.log)
  BY <1>1, <1>2 DEF LastFresh
<1>4. FirstFresh(stream, group) <= LastFresh(stream, group, count)
  BY <1>2, <1>3 DEF Fresh
<1>5. \A id \in Fresh(stream, group, count) :
         /\ id \in Nat /\ group.last < id
         /\ id <= LastFresh(stream, group, count)
  BY <1>1, <1>2, <1>3 DEF Fresh
<1>6. QED
  BY <1>1, <1>2, <1>3, <1>4, <1>5

(* Appending events to mentions:analyzed adds their origins to Origins.    *)
OriginsOf(log) == {log[i].origin : i \in 1 .. Len(log)}

Distinct(log) ==
    \A i, j \in 1 .. Len(log) : log[i].origin = log[j].origin => i = j

(* The origins of a log and a batch together, and when they are all distinct.*)
LEMMA AppendedOrigins ==
    ASSUME NEW Entry, NEW log \in Seq(Entry), NEW new \in Seq(Entry)
    PROVE  /\ OriginsOf(log \o new) = OriginsOf(log) \cup OriginsOf(new)
           /\ Distinct(log) /\ Distinct(new) /\ OriginsOf(log) \cap OriginsOf(new) = {}
                 => Distinct(log \o new)
<1>1. /\ Len(log \o new) = Len(log) + Len(new)
      /\ Len(log) \in Nat /\ Len(new) \in Nat
      /\ \A i \in 1 .. Len(log) : (log \o new)[i] = log[i]
      /\ \A i \in 1 .. Len(new) : (log \o new)[Len(log) + i] = new[i]
  OBVIOUS
<1>2. \A i \in 1 .. Len(log \o new) :
         \/ i \in 1 .. Len(log) /\ (log \o new)[i] = log[i]
         \/ i - Len(log) \in 1 .. Len(new) /\ (log \o new)[i] = new[i - Len(log)]
  BY <1>1
<1>3. OriginsOf(log \o new) = OriginsOf(log) \cup OriginsOf(new)
  <2>1. OriginsOf(log \o new) \subseteq OriginsOf(log) \cup OriginsOf(new)
    BY <1>2 DEF OriginsOf
  <2>2. OriginsOf(log) \subseteq OriginsOf(log \o new)
    BY <1>1 DEF OriginsOf
  <2>3. OriginsOf(new) \subseteq OriginsOf(log \o new)
    <3> SUFFICES ASSUME NEW i \in 1 .. Len(new)
                 PROVE  new[i].origin \in OriginsOf(log \o new)
      BY DEF OriginsOf
    <3>1. Len(log) + i \in 1 .. Len(log \o new) /\ (log \o new)[Len(log) + i] = new[i]
      BY <1>1
    <3>2. QED
      BY <3>1 DEF OriginsOf
  <2>4. QED
    BY <2>1, <2>2, <2>3
<1>4. ASSUME Distinct(log), Distinct(new), OriginsOf(log) \cap OriginsOf(new) = {}
      PROVE  Distinct(log \o new)
  <2> SUFFICES ASSUME NEW i \in 1 .. Len(log \o new), NEW j \in 1 .. Len(log \o new),
                      (log \o new)[i].origin = (log \o new)[j].origin
               PROVE  i = j
    BY DEF Distinct
  <2>1. CASE i \in 1 .. Len(log) /\ j \in 1 .. Len(log)
    BY <2>1, <1>1, <1>4 DEF Distinct
  <2>2. CASE i \notin 1 .. Len(log) /\ j \notin 1 .. Len(log)
    <3>1. i - Len(log) = j - Len(log)
      BY <2>2, <1>2, <1>4 DEF Distinct
    <3>2. QED
      BY <3>1, <1>1
  <2>3. CASE i \in 1 .. Len(log) /\ j \notin 1 .. Len(log)
    <3>1. (log \o new)[i].origin \in OriginsOf(log) /\ (log \o new)[j].origin \in OriginsOf(new)
      BY <2>3, <1>2 DEF OriginsOf
    <3>2. QED
      BY <3>1, <1>4
  <2>4. CASE i \notin 1 .. Len(log) /\ j \in 1 .. Len(log)
    <3>1. (log \o new)[j].origin \in OriginsOf(log) /\ (log \o new)[i].origin \in OriginsOf(new)
      BY <2>4, <1>2 DEF OriginsOf
    <3>2. QED
      BY <3>1, <1>4
  <2>5. QED
    BY <2>1, <2>2, <2>3, <2>4
<1>5. QED
  BY <1>3, <1>4

(* The batch that publish_batch sends: one event per analysed id, each of  *)
(* them once.                                                              *)
LEMMA BatchEvents ==
    ASSUME TypeOK, NEW ids \in SUBSET Delivered, NEW order \in InOrder(ids)
    PROVE  /\ EventsOf(order) \in Seq(AnalyzedEvent)
           /\ Distinct(EventsOf(order))
           /\ OriginsOf(EventsOf(order)) = ids
<1> DEFINE n == Cardinality(ids)
<1>1. rawGroup.last \in Nat /\ rawGroup.last <= Len(raw.log)
  BY DEF TypeOK, Group
<1>2. IsFiniteSet(ids) /\ n \in Nat
  <2>1. IsFiniteSet(Delivered)
    BY <1>1, FS_Interval DEF Delivered
  <2>2. QED
    BY <2>1, FS_Subset, FS_CardinalityType
<1>3. /\ order \in [1 .. n -> ids]
      /\ \A i, j \in 1 .. n : i < j => order[i] < order[j]
  BY DEF InOrder
<1>4. \A i \in 1 .. n : order[i] \in ids /\ order[i] \in 1 .. Len(raw.log)
  <2>1. ids \subseteq 1 .. Len(raw.log)
    BY <1>1 DEF Delivered
  <2>2. QED
    BY <1>3, <2>1
<1>5. \A i, j \in 1 .. n : order[i] = order[j] => i = j
  BY <1>2, <1>3, <1>4
<1>6. order \in Surjection(1 .. n, ids)
  <2>1. order \in Injection(1 .. n, ids)
    BY <1>3, <1>5 DEF Injection, IsInjective
  <2>2. Cardinality(1 .. n) = Cardinality(ids)
    BY <1>2, FS_Interval
  <2>3. QED
    BY <1>2, <2>1, <2>2, FS_Injection
<1>7. EventsOf(order) =
        [i \in 1 .. n |-> [mention |-> raw.log[order[i]], origin |-> order[i]]]
  BY <1>3 DEF EventsOf
<1>8. raw.log \in Seq(Mentions)
  BY DEF TypeOK, StreamOf
<1>9. \A i \in 1 .. n :
         [mention |-> raw.log[order[i]], origin |-> order[i]] \in AnalyzedEvent
  BY <1>4, <1>8 DEF AnalyzedEvent
<1>10. EventsOf(order) \in Seq(AnalyzedEvent) /\ Len(EventsOf(order)) = n
  BY <1>2, <1>7, <1>9
<1>11. \A i \in 1 .. n : EventsOf(order)[i].origin = order[i]
  BY <1>7
<1>12. Distinct(EventsOf(order))
  BY <1>5, <1>10, <1>11 DEF Distinct
<1>13. OriginsOf(EventsOf(order)) = {order[i] : i \in 1 .. n}
  BY <1>10, <1>11 DEF OriginsOf
<1>14. {order[i] : i \in 1 .. n} = ids
  BY <1>6 DEF Surjection
<1>15. QED
  BY <1>10, <1>12, <1>13, <1>14

(* XACK of an id takes it out of the pending list.                         *)
LEMMA AckedGroup ==
    ASSUME NEW group \in Group, NEW id,
           group.pending \cup group.acked \subseteq 1 .. group.last
    PROVE  /\ XAck(group, id) \in Group
           /\ XAck(group, id).last = group.last
           /\ XAck(group, id).acked \subseteq group.acked \cup {id}
           /\ XAck(group, id).pending \cup XAck(group, id).acked \subseteq 1 .. group.last
  BY DEF XAck, Group

(* A new dead letter joins DeadLetters.                                    *)
LEMMA AppendedDead ==
    ASSUME TypeOK, NEW id \in Nat, rawDlq' = Append(rawDlq, id)
    PROVE  rawDlq' \in Seq(Nat) /\ DeadLetters' = DeadLetters \cup {id}
<1>1. rawDlq \in Seq(Nat)
  BY DEF TypeOK
<1>2. /\ rawDlq' \in Seq(Nat)
      /\ DOMAIN rawDlq' = 1 .. Len(rawDlq) + 1 /\ DOMAIN rawDlq = 1 .. Len(rawDlq)
      /\ Len(rawDlq) \in Nat
      /\ \A i \in 1 .. Len(rawDlq) : rawDlq'[i] = rawDlq[i]
      /\ rawDlq'[Len(rawDlq) + 1] = id
  BY <1>1
<1>3. \A i \in DOMAIN rawDlq' : i \in DOMAIN rawDlq \/ i = Len(rawDlq) + 1
  BY <1>2
<1>4. DeadLetters' \subseteq DeadLetters \cup {id}
  BY <1>2, <1>3 DEF DeadLetters
<1>5. DeadLetters \cup {id} \subseteq DeadLetters'
  <2>1. Len(rawDlq) + 1 \in DOMAIN rawDlq'
    BY <1>2
  <2>2. QED
    BY <1>2, <2>1 DEF DeadLetters
<1>6. QED
  BY <1>2, <1>4, <1>5

-----------------------------------------------------------------------------
(* The inductive invariant, one action at a time.                          *)

(* The invariant holds at first.                                           *)
LEMMA AnalyzerInitInv == AnalyzerInit => AnalyzerIInv
<1> SUFFICES ASSUME AnalyzerInit PROVE AnalyzerIInv
  OBVIOUS
<1>1. Len(raw.log) = 0 /\ Len(analyzed.log) = 0 /\ raw.log = << >> /\ analyzed.log = << >>
      /\ raw.first = 1 /\ analyzed.first = 1 /\ rawDlq = << >>
      /\ rawGroup.last = 0 /\ rawGroup.pending = {} /\ rawGroup.acked = {}
  BY DEF AnalyzerInit, EmptyStream, NewGroup
<1>2. TypeOK
  <2>1. raw \in StreamOf(Mentions) /\ analyzed \in StreamOf(AnalyzedEvent)
    BY DEF AnalyzerInit, EmptyStream, StreamOf
  <2>2. rawGroup \in Group
    BY DEF AnalyzerInit, NewGroup, Group
  <2>3. QED
    BY <1>1, <2>1, <2>2 DEF AnalyzerInit, TypeOK, AnalyzerPc
<1>3. Origins = {} /\ DeadLetters = {}
  BY <1>1 DEF Origins, DeadLetters, Ids
<1>4. Holding
  BY DEF AnalyzerInit, Holding, Held
<1>5. Outcome /\ Accounted
  BY <1>3 DEF AnalyzerInit, Outcome, Accounted
<1>6. ForwardedAtMostOnce
  BY <1>1 DEF ForwardedAtMostOnce, Ids
<1>7. QED
  BY <1>1, <1>2, <1>3, <1>4, <1>5, <1>6
     DEF AnalyzerIInv, NeverForwardedAndDead, AckedIsAccountedFor

(* What giving the batch up, or a crash, does to the replicas.             *)
LEMMA AbandonEffect ==
    ASSUME TypeOK, NEW a \in Analyzers, Abandon(a)
    PROVE  /\ apc' \in [Analyzers -> AnalyzerPc]
           /\ todo' \in [Analyzers -> SUBSET Nat]
           /\ good' \in [Analyzers -> SUBSET Nat]
           /\ bad' \in [Analyzers -> SUBSET Nat]
           /\ apc'[a] = "idle" /\ todo'[a] = {} /\ good'[a] = {} /\ bad'[a] = {}
           /\ \A b \in Analyzers : b # a =>
                 /\ apc'[b] = apc[b] /\ todo'[b] = todo[b]
                 /\ good'[b] = good[b] /\ bad'[b] = bad[b]
  BY DEF Abandon, TypeOK, AnalyzerPc

(* A step of one replica that takes nothing new keeps the batches apart.   *)
LEMMA HoldingLess ==
    ASSUME Holding, NEW a \in Analyzers,
           Delivered' = Delivered,
           \A b \in Analyzers : b # a =>
              /\ apc'[b] = apc[b] /\ todo'[b] = todo[b]
              /\ good'[b] = good[b] /\ bad'[b] = bad[b],
           todo'[a] \subseteq todo[a],
           good'[a] \cap todo'[a] = {} /\ bad'[a] \cap todo'[a] = {},
           good'[a] \cap bad'[a] = {},
           good'[a] \cup bad'[a] \subseteq Held(a),
           apc'[a] # "analyze" => todo'[a] = {},
           apc'[a] \notin {"analyze", "publish", "ack"} => good'[a] = {},
           apc'[a] = "idle" => bad'[a] = {}
    PROVE  Holding'
<1>1. \A b \in Analyzers : Held(b)' \subseteq Held(b)
  BY DEF Held
<1>2. \A b \in Analyzers : Held(b)' \subseteq Delivered'
  BY <1>1 DEF Holding
<1>3. \A b, c \in Analyzers : b # c => Held(b)' \cap Held(c)' = {}
  BY <1>1 DEF Holding
<1>4. QED
  BY <1>2, <1>3 DEF Holding

(* A stuttering step keeps the invariant.                                  *)
LEMMA UnchangedInv ==
    ASSUME AnalyzerIInv, UNCHANGED analyzerVars
    PROVE  AnalyzerIInv'
<1> USE DEF analyzerVars
<1>1. TypeOK'
  BY DEF AnalyzerIInv, TypeOK
<1>2. Holding' /\ Outcome' /\ Accounted'
  BY DEF AnalyzerIInv, Holding, Held, Delivered, Outcome, Accounted, Origins, Ids,
         DeadLetters, IsFirst
<1>3. QED
  BY <1>1, <1>2 DEF AnalyzerIInv, ForwardedAtMostOnce, NeverForwardedAndDead,
                    AckedIsAccountedFor, Origins, Ids, DeadLetters

(* However many mentions join the stream, nothing already delivered moves. *)
LEMMA RawGrowsInv ==
    ASSUME AnalyzerIInv, NEW new \in Seq(Mentions), raw' \in XAdd(raw, new),
           UNCHANGED <<rawGroup, rawDlq, analyzed, apc, todo, good, bad, dlqRaised>>
    PROVE  AnalyzerIInv'
<1>1. /\ raw' \in StreamOf(Mentions) /\ Len(raw'.log) = Len(raw.log) + Len(new)
      /\ Len(raw.log) \in Nat /\ Len(new) \in Nat
  <2>1. raw \in StreamOf(Mentions)
    BY DEF AnalyzerIInv, TypeOK
  <2>2. Len(raw.log) \in Nat /\ Len(new) \in Nat
    BY <2>1 DEF StreamOf
  <2>3. QED
    BY <2>1, <2>2, XAddStream
<1>2. TypeOK'
  BY <1>1 DEF AnalyzerIInv, TypeOK, Group
<1>3. Holding' /\ Outcome' /\ Accounted'
  BY DEF AnalyzerIInv, Holding, Held, Delivered, Outcome, Accounted, Origins, Ids,
         DeadLetters, IsFirst
<1>4. QED
  BY <1>2, <1>3 DEF AnalyzerIInv, ForwardedAtMostOnce, NeverForwardedAndDead,
                    AckedIsAccountedFor, Origins, Ids, DeadLetters

(* Arrive keeps the invariant.                                             *)
LEMMA ArriveInv ==
    ASSUME AnalyzerIInv, NEW m \in Mentions, Arrive(m)
    PROVE  AnalyzerIInv'
<1>1. <<m>> \in Seq(Mentions)
  OBVIOUS
<1>2. /\ raw' \in XAdd(raw, <<m>>)
      /\ UNCHANGED <<rawGroup, rawDlq, analyzed, apc, todo, good, bad, dlqRaised>>
  BY DEF Arrive
<1>3. QED
  BY <1>1, <1>2, RawGrowsInv

(* Consume keeps the invariant.                                            *)
LEMMA ConsumeInv ==
    ASSUME AnalyzerIInv, NEW a \in Analyzers, NEW reply \in Replies, Consume(a, reply)
    PROVE  AnalyzerIInv'
<1> DEFINE fresh == Fresh(raw, rawGroup, BatchSize)
           last == LastFresh(raw, rawGroup, BatchSize)
<1>1. /\ apc[a] = "idle" /\ fresh # {}
      /\ rawGroup' = XReadGroup(raw, rawGroup, BatchSize)
      /\ UNCHANGED <<raw, rawDlq, analyzed, good, bad, dlqRaised>>
  BY DEF Consume
<1>2. /\ last \in Nat /\ rawGroup.last < last /\ last <= Len(raw.log)
      /\ \A id \in fresh : id \in Nat /\ rawGroup.last < id /\ id <= last
  BY <1>1, FreshIds, AnalyzerAssumption DEF AnalyzerIInv, TypeOK
<1>3. /\ rawGroup' \in Group /\ rawGroup'.last = last
      /\ rawGroup'.pending = rawGroup.pending \cup fresh /\ rawGroup'.acked = rawGroup.acked
  BY <1>1, <1>2 DEF XReadGroup, AnalyzerIInv, TypeOK, Group
<1>4. \/ UNCHANGED <<apc, todo>>
      \/ /\ apc' = [apc EXCEPT ![a] = "analyze"]
         /\ todo' = [todo EXCEPT ![a] = fresh]
  BY DEF Consume
<1>5. /\ todo[a] = {} /\ good[a] = {} /\ bad[a] = {}
      /\ \A b \in Analyzers : Held(b) \subseteq Delivered
  BY <1>1 DEF AnalyzerIInv, Holding
<1>6. /\ apc' \in [Analyzers -> AnalyzerPc] /\ todo' \in [Analyzers -> SUBSET Nat]
      /\ \A b \in Analyzers : b # a => apc'[b] = apc[b] /\ todo'[b] = todo[b]
      /\ \/ apc'[a] = "idle" /\ todo'[a] = {}
         \/ apc'[a] = "analyze" /\ todo'[a] = fresh
  BY <1>1, <1>2, <1>4, <1>5 DEF AnalyzerIInv, TypeOK, AnalyzerPc
<1>7. rawGroup.last \in Nat /\ Delivered \subseteq Delivered' /\ fresh \subseteq Delivered'
      /\ Delivered \cap fresh = {}
  BY <1>2, <1>3 DEF Delivered, AnalyzerIInv, TypeOK, Group
<1>8. TypeOK'
  <2>1. rawGroup'.pending \cup rawGroup'.acked \subseteq 1 .. rawGroup'.last
    BY <1>3, <1>7 DEF AnalyzerIInv, TypeOK, Delivered
  <2>2. QED
    BY <1>1, <1>2, <1>3, <1>6, <2>1 DEF AnalyzerIInv, TypeOK
<1>9. Holding'
  <2>1. \A b \in Analyzers : Held(b)' = IF b = a THEN todo'[a] ELSE Held(b)
    BY <1>1, <1>5, <1>6 DEF Held
  <2>2. \A b \in Analyzers : Held(b)' \subseteq Delivered'
    BY <2>1, <1>5, <1>6, <1>7
  <2>3. \A b \in Analyzers : b # a => Held(b) \cap todo'[a] = {}
    BY <1>5, <1>6, <1>7
  <2>4. \A b, c \in Analyzers : b # c => Held(b)' \cap Held(c)' = {}
    BY <2>1, <2>3 DEF AnalyzerIInv, Holding
  <2>5. QED
    BY <2>2, <2>4, <1>1, <1>5, <1>6 DEF AnalyzerIInv, Holding
<1>10. Origins' = Origins /\ DeadLetters' = DeadLetters
  BY <1>1 DEF Origins, DeadLetters, Ids
<1>11. Outcome'
  <2>1. Origins \cap fresh = {} /\ DeadLetters \cap fresh = {}
    BY <1>7 DEF AnalyzerIInv, Outcome
  <2>2. QED
    BY <2>1, <1>1, <1>5, <1>6, <1>7, <1>10 DEF AnalyzerIInv, Outcome
<1>12. Accounted'
  BY <1>1, <1>6, <1>10 DEF AnalyzerIInv, Accounted, IsFirst
<1>13. QED
  BY <1>1, <1>3, <1>8, <1>9, <1>10, <1>11, <1>12
     DEF AnalyzerIInv, ForwardedAtMostOnce, NeverForwardedAndDead, AckedIsAccountedFor, Ids

(* Analyze keeps the invariant.                                            *)
LEMMA AnalyzeInv ==
    ASSUME AnalyzerIInv, NEW a \in Analyzers, NEW id \in todo[a], NEW fails \in BOOLEAN,
           Analyze(a, id, fails)
    PROVE  AnalyzerIInv'
<1>1. /\ apc[a] = "analyze"
      /\ UNCHANGED <<raw, rawGroup, rawDlq, analyzed, dlqRaised>>
      /\ todo' = [todo EXCEPT ![a] = @ \ {id}]
      /\ good' = [good EXCEPT ![a] = IF fails THEN @ ELSE @ \cup {id}]
      /\ bad' = [bad EXCEPT ![a] = IF fails THEN @ \cup {id} ELSE @]
      /\ apc' = [apc EXCEPT ![a] = IF todo'[a] # {} THEN "analyze"
                                   ELSE IF good'[a] # {} THEN "publish" ELSE "dlq"]
  BY DEF Analyze
<1>2. /\ apc \in [Analyzers -> AnalyzerPc] /\ id \in Nat
      /\ todo \in [Analyzers -> SUBSET Nat]
      /\ good \in [Analyzers -> SUBSET Nat]
      /\ bad \in [Analyzers -> SUBSET Nat]
  BY DEF AnalyzerIInv, TypeOK
<1>3. /\ todo'[a] = todo[a] \ {id}
      /\ good'[a] \cup bad'[a] = good[a] \cup bad[a] \cup {id}
      /\ \/ good'[a] = good[a] \cup {id} /\ bad'[a] = bad[a]
         \/ good'[a] = good[a] /\ bad'[a] = bad[a] \cup {id}
      /\ \A b \in Analyzers : b # a =>
            /\ apc'[b] = apc[b] /\ todo'[b] = todo[b]
            /\ good'[b] = good[b] /\ bad'[b] = bad[b]
  BY <1>1, <1>2
<1>4. apc'[a] = IF todo'[a] # {} THEN "analyze"
                ELSE IF good'[a] # {} THEN "publish" ELSE "dlq"
  BY <1>1, <1>2
<1>5. TypeOK'
  <2>1. /\ todo' \in [Analyzers -> SUBSET Nat]
        /\ good' \in [Analyzers -> SUBSET Nat]
        /\ bad' \in [Analyzers -> SUBSET Nat]
    BY <1>1, <1>2
  <2>2. apc' \in [Analyzers -> AnalyzerPc]
    BY <1>1, <1>2 DEF AnalyzerPc
  <2>3. QED
    BY <1>1, <2>1, <2>2 DEF AnalyzerIInv, TypeOK
<1>6. Holding'
  <2>1. /\ todo[a] \cap good[a] = {} /\ todo[a] \cap bad[a] = {} /\ good[a] \cap bad[a] = {}
    BY DEF AnalyzerIInv, Holding
  <2>2. Delivered' = Delivered
    BY <1>1 DEF Delivered
  <2>3. /\ good'[a] \cap todo'[a] = {} /\ bad'[a] \cap todo'[a] = {}
        /\ good'[a] \cap bad'[a] = {} /\ good'[a] \cup bad'[a] \subseteq Held(a)
    BY <2>1, <1>3 DEF Held
  <2>4. /\ apc'[a] # "analyze" => todo'[a] = {}
        /\ apc'[a] \notin {"analyze", "publish", "ack"} => good'[a] = {}
        /\ apc'[a] # "idle"
    BY <1>4
  <2>5. QED
    BY <2>2, <2>3, <2>4, <1>3, HoldingLess DEF AnalyzerIInv
<1>7. Origins' = Origins /\ DeadLetters' = DeadLetters /\ Delivered' = Delivered
  BY <1>1 DEF Origins, DeadLetters, Ids, Delivered
<1>8. Outcome'
  <2>1. id \notin Origins /\ id \notin DeadLetters
    BY DEF AnalyzerIInv, Outcome
  <2>2. good[a] \cap Origins = {}
    BY <1>1 DEF AnalyzerIInv, Outcome
  <2>3. QED
    BY <2>1, <2>2, <1>3, <1>7 DEF AnalyzerIInv, Outcome
<1>9. Accounted'
  <2>1. apc'[a] \notin {"ack", "dlq_ack", "last_resort"}
    BY <1>4
  <2>2. QED
    BY <2>1, <1>1, <1>3, <1>7 DEF AnalyzerIInv, Accounted, IsFirst
<1>10. QED
  BY <1>1, <1>5, <1>6, <1>7, <1>8, <1>9
     DEF AnalyzerIInv, ForwardedAtMostOnce, NeverForwardedAndDead, AckedIsAccountedFor, Ids

(* Giving the batch up keeps the batches apart and owes nothing.           *)
LEMMA AbandonHolding ==
    ASSUME AnalyzerIInv, NEW a \in Analyzers, Abandon(a), rawGroup'.last = rawGroup.last
    PROVE  Holding'
<1>1. Delivered' = Delivered
  BY DEF Delivered
<1>2. QED
  BY <1>1, AbandonEffect, HoldingLess DEF AnalyzerIInv

(* PublishBatch keeps the invariant.                                       *)
LEMMA PublishBatchInv ==
    ASSUME AnalyzerIInv, NEW a \in Analyzers, NEW reply \in Replies, PublishBatch(a, reply)
    PROVE  AnalyzerIInv'
<1>1. /\ apc[a] = "publish"
      /\ UNCHANGED <<raw, rawGroup, rawDlq, dlqRaised>>
  BY DEF PublishBatch
<1>2. /\ todo[a] = {} /\ good[a] \cap Origins = {} /\ good[a] \cap bad[a] = {}
      /\ good[a] \cap DeadLetters = {} /\ good[a] \subseteq Delivered
      /\ \A b \in Analyzers : b # a => Held(b) \cap good[a] = {}
  BY <1>1 DEF AnalyzerIInv, Holding, Outcome, Held
<1>3. /\ analyzed' \in StreamOf(AnalyzedEvent) /\ ForwardedAtMostOnce'
      /\ \/ Origins' = Origins /\ Raised(reply)
         \/ Origins' = Origins \cup good[a]
  <2>1. /\ Origins = OriginsOf(analyzed.log) /\ Origins' = OriginsOf(analyzed'.log)
        /\ ForwardedAtMostOnce <=> Distinct(analyzed.log)
        /\ ForwardedAtMostOnce' <=> Distinct(analyzed'.log)
    BY DEF Origins, OriginsOf, Ids, ForwardedAtMostOnce, Distinct
  <2>2. CASE Applied(reply)
    <3>1. PICK order \in InOrder(good[a]) : analyzed' \in XAdd(analyzed, EventsOf(order))
      BY <2>2 DEF PublishBatch
    <3>2. /\ EventsOf(order) \in Seq(AnalyzedEvent) /\ Distinct(EventsOf(order))
          /\ OriginsOf(EventsOf(order)) = good[a]
      BY <1>2, BatchEvents DEF AnalyzerIInv
    <3>3. /\ analyzed' \in StreamOf(AnalyzedEvent)
          /\ analyzed'.log = analyzed.log \o EventsOf(order)
      BY <3>1, <3>2, XAddStream DEF AnalyzerIInv, TypeOK
    <3>4. analyzed.log \in Seq(AnalyzedEvent)
      BY DEF AnalyzerIInv, TypeOK, StreamOf
    <3>5. /\ OriginsOf(analyzed'.log) = Origins \cup good[a]
          /\ Distinct(analyzed'.log)
      BY <2>1, <3>2, <3>3, <3>4, <1>2, AppendedOrigins DEF AnalyzerIInv
    <3>6. QED
      BY <2>1, <3>3, <3>5
  <2>3. CASE ~Applied(reply)
    BY <2>1, <2>3 DEF PublishBatch, Applied, Raised, AnalyzerIInv, TypeOK
  <2>4. QED
    BY <2>2, <2>3
<1>4. \/ Abandon(a)
      \/ /\ apc' = [apc EXCEPT ![a] = "ack"] /\ ~Raised(reply)
         /\ UNCHANGED <<todo, good, bad>>
  BY DEF PublishBatch
<1>5. /\ apc' \in [Analyzers -> AnalyzerPc]
      /\ todo' \in [Analyzers -> SUBSET Nat]
      /\ good' \in [Analyzers -> SUBSET Nat]
      /\ bad' \in [Analyzers -> SUBSET Nat]
      /\ \A b \in Analyzers : b # a =>
            /\ apc'[b] = apc[b] /\ todo'[b] = todo[b]
            /\ good'[b] = good[b] /\ bad'[b] = bad[b]
      /\ \/ apc'[a] = "idle" /\ todo'[a] = {} /\ good'[a] = {} /\ bad'[a] = {}
         \/ /\ apc'[a] = "ack" /\ todo'[a] = todo[a] /\ good'[a] = good[a] /\ bad'[a] = bad[a]
            /\ Origins' = Origins \cup good[a]
  BY <1>3, <1>4, AbandonEffect DEF AnalyzerIInv, TypeOK, AnalyzerPc
<1>6. TypeOK'
  BY <1>1, <1>3, <1>5 DEF AnalyzerIInv, TypeOK
<1>7. Holding'
  <2>1. Delivered' = Delivered
    BY <1>1 DEF Delivered
  <2>2. QED
    BY <2>1, <1>2, <1>5, HoldingLess DEF AnalyzerIInv, Held
<1>8. DeadLetters' = DeadLetters /\ Delivered' = Delivered
  BY <1>1 DEF DeadLetters, Delivered
<1>9. Outcome'
  <2>1. Origins' \subseteq Origins \cup good[a]
    BY <1>3
  <2>2. \A b \in Analyzers : b # a => (todo[b] \cup good[b] \cup bad[b]) \cap good[a] = {}
    BY <1>2 DEF Held
  <2>3. ASSUME NEW b \in Analyzers, b # a
        PROVE  /\ (todo'[b] \cup bad'[b]) \cap Origins' = {}
               /\ (todo'[b] \cup good'[b]) \cap DeadLetters' = {}
               /\ apc'[b] # "ack" => good'[b] \cap Origins' = {}
    BY <2>1, <2>2, <2>3, <1>5, <1>8 DEF AnalyzerIInv, Outcome
  <2>4. /\ (todo'[a] \cup bad'[a]) \cap Origins' = {}
        /\ (todo'[a] \cup good'[a]) \cap DeadLetters' = {}
        /\ apc'[a] # "ack" => good'[a] \cap Origins' = {}
    BY <2>1, <1>2, <1>5, <1>8 DEF AnalyzerIInv, Outcome
  <2>5. Origins' \cup DeadLetters' \subseteq Delivered'
    BY <2>1, <1>2, <1>8 DEF AnalyzerIInv, Outcome
  <2>6. QED
    BY <2>3, <2>4, <2>5 DEF Outcome
<1>10. Accounted'
  <2>1. Origins \subseteq Origins'
    BY <1>3
  <2>2. QED
    BY <2>1, <1>1, <1>5, <1>8 DEF AnalyzerIInv, Accounted, IsFirst
<1>11. QED
  BY <1>1, <1>2, <1>3, <1>6, <1>7, <1>8, <1>9, <1>10
     DEF AnalyzerIInv, NeverForwardedAndDead, AckedIsAccountedFor

(* Steps that dispose of one entry, forwarded or dead-lettered before.     *)
LEMMA FirstIsUnique ==
    ASSUME NEW S \in SUBSET Nat, NEW x, NEW y, IsFirst(x, S), IsFirst(y, S)
    PROVE  x = y
  BY DEF IsFirst

(* The group after an acknowledgement.                                     *)
LEMMA GroupAfterAck ==
    ASSUME TypeOK, NEW id, rawGroup' \in {rawGroup, XAck(rawGroup, id)}
    PROVE  /\ rawGroup' \in Group /\ rawGroup'.last = rawGroup.last
           /\ rawGroup'.acked \subseteq rawGroup.acked \cup {id}
           /\ rawGroup'.pending \cup rawGroup'.acked \subseteq 1 .. rawGroup'.last
  BY AckedGroup DEF TypeOK

(* Acknowledging and dead-lettering: replica a lets entries go, dead-      *)
(* lettering none but the ones it holds as failed.                         *)
LEMMA LettingGoInv ==
    ASSUME AnalyzerIInv, NEW a \in Analyzers,
           UNCHANGED <<raw, analyzed>>,
           rawGroup' \in Group, rawGroup'.last = rawGroup.last,
           rawGroup'.pending \cup rawGroup'.acked \subseteq 1 .. rawGroup'.last,
           AckedIsAccountedFor',
           rawDlq' \in Seq(Nat), DeadLetters \subseteq DeadLetters',
           DeadLetters' \subseteq DeadLetters \cup bad[a],
           dlqRaised' \in SUBSET Nat, dlqRaised \subseteq dlqRaised',
           apc' \in [Analyzers -> AnalyzerPc],
           todo' \in [Analyzers -> SUBSET Nat],
           good' \in [Analyzers -> SUBSET Nat],
           bad' \in [Analyzers -> SUBSET Nat],
           \A b \in Analyzers : b # a =>
              /\ apc'[b] = apc[b] /\ todo'[b] = todo[b]
              /\ good'[b] = good[b] /\ bad'[b] = bad[b],
           todo'[a] = {}, good'[a] \subseteq good[a], bad'[a] \subseteq bad[a],
           apc'[a] = "ack" => apc[a] = "ack",
           apc'[a] # "ack" => good'[a] = {},
           apc'[a] = "idle" => bad'[a] = {},
           apc'[a] = "dlq_ack" =>
              \A id \in bad'[a] : IsFirst(id, bad'[a]) => id \in DeadLetters',
           apc'[a] = "last_resort" =>
              \A id \in bad'[a] : IsFirst(id, bad'[a]) => id \in dlqRaised'
    PROVE  AnalyzerIInv'
<1>1. TypeOK'
  BY DEF AnalyzerIInv, TypeOK
<1>2. Delivered' = Delivered /\ Origins' = Origins
  BY DEF Delivered, Origins, Ids
<1>3. Holding'
  <2>1. good'[a] \cap bad'[a] = {}
    BY DEF AnalyzerIInv, Holding
  <2>2. QED
    BY <2>1, <1>2, HoldingLess DEF AnalyzerIInv, Held
<1>4. /\ bad[a] \subseteq Delivered /\ bad[a] \cap Origins = {} /\ good[a] \cap bad[a] = {}
      /\ \A b \in Analyzers : b # a => (todo[b] \cup good[b]) \cap bad[a] = {}
  BY DEF AnalyzerIInv, Holding, Outcome, Held
<1>5. Outcome'
  <2>1. Origins' \cup DeadLetters' \subseteq Delivered'
    BY <1>2, <1>4 DEF AnalyzerIInv, Outcome
  <2>2. /\ (todo'[a] \cup bad'[a]) \cap Origins' = {}
        /\ (todo'[a] \cup good'[a]) \cap DeadLetters' = {}
        /\ apc'[a] # "ack" => good'[a] \cap Origins' = {}
    BY <1>2, <1>4 DEF AnalyzerIInv, Outcome
  <2>3. ASSUME NEW b \in Analyzers, b # a
        PROVE  /\ (todo'[b] \cup bad'[b]) \cap Origins' = {}
               /\ (todo'[b] \cup good'[b]) \cap DeadLetters' = {}
               /\ apc'[b] # "ack" => good'[b] \cap Origins' = {}
    BY <2>3, <1>2, <1>4 DEF AnalyzerIInv, Outcome
  <2>4. QED
    BY <2>1, <2>2, <2>3 DEF Outcome
<1>6. Accounted'
  <2>1. apc'[a] = "ack" => good'[a] \subseteq Origins'
    BY <1>2 DEF AnalyzerIInv, Accounted
  <2>2. ASSUME NEW b \in Analyzers, b # a
        PROVE  /\ apc'[b] = "ack" => good'[b] \subseteq Origins'
               /\ apc'[b] = "dlq_ack" =>
                     \A id \in bad'[b] : IsFirst(id, bad'[b]) => id \in DeadLetters'
               /\ apc'[b] = "last_resort" =>
                     \A id \in bad'[b] : IsFirst(id, bad'[b]) => id \in dlqRaised'
    BY <2>2, <1>2 DEF AnalyzerIInv, Accounted
  <2>3. QED
    BY <2>1, <2>2 DEF Accounted
<1>7. NeverForwardedAndDead'
  BY <1>2, <1>4 DEF AnalyzerIInv, NeverForwardedAndDead
<1>8. ForwardedAtMostOnce'
  BY DEF AnalyzerIInv, ForwardedAtMostOnce, Ids
<1>9. QED
  BY <1>1, <1>3, <1>5, <1>6, <1>7, <1>8 DEF AnalyzerIInv

(* The effect of disposing of a failed entry, and of move_to_dlq raising.  *)
LEMMA DisposedEffect ==
    ASSUME TypeOK, NEW a \in Analyzers, NEW id, Disposed(a, id)
    PROVE  /\ apc' \in [Analyzers -> AnalyzerPc]
           /\ todo' = todo /\ good' = good
           /\ bad' \in [Analyzers -> SUBSET Nat]
           /\ bad'[a] = bad[a] \ {id}
           /\ apc'[a] = IF bad'[a] # {} THEN "dlq" ELSE "idle"
           /\ \A b \in Analyzers : b # a => apc'[b] = apc[b] /\ bad'[b] = bad[b]
<1>1. /\ bad' = [bad EXCEPT ![a] = @ \ {id}]
      /\ apc' = [apc EXCEPT ![a] = IF bad'[a] # {} THEN "dlq" ELSE "idle"]
      /\ UNCHANGED <<todo, good>>
  BY DEF Disposed, Remaining
<1>2. apc \in [Analyzers -> AnalyzerPc] /\ bad \in [Analyzers -> SUBSET Nat]
  BY DEF TypeOK
<1>3. "dlq" \in AnalyzerPc /\ "idle" \in AnalyzerPc
  BY DEF AnalyzerPc
<1>4. apc' \in [Analyzers -> AnalyzerPc]
  BY <1>1, <1>2, <1>3
<1>5. bad' \in [Analyzers -> SUBSET Nat]
  BY <1>1, <1>2
<1>6. QED
  BY <1>1, <1>2, <1>4, <1>5

(* What a failed move_to_dlq changes.                                      *)
LEMMA DlqFailedEffect ==
    ASSUME TypeOK, NEW a \in Analyzers, NEW id \in Nat, DlqFailed(a, id)
    PROVE  /\ apc' \in [Analyzers -> AnalyzerPc]
           /\ todo' = todo /\ good' = good /\ bad' = bad
           /\ apc'[a] = "last_resort"
           /\ \A b \in Analyzers : b # a => apc'[b] = apc[b]
           /\ dlqRaised' = dlqRaised \cup {id} /\ dlqRaised' \in SUBSET Nat
  BY DEF DlqFailed, TypeOK, AnalyzerPc

(* Ack keeps the invariant.                                                *)
LEMMA AckInv ==
    ASSUME AnalyzerIInv, NEW a \in Analyzers, NEW id \in good[a], NEW reply \in Replies,
           Ack(a, id, reply)
    PROVE  AnalyzerIInv'
<1>1. /\ apc[a] = "ack" /\ UNCHANGED <<raw, rawDlq, analyzed, dlqRaised>>
      /\ rawGroup' \in {rawGroup, XAck(rawGroup, id)}
  BY DEF Ack
<1>2. /\ rawGroup' \in Group /\ rawGroup'.last = rawGroup.last
      /\ rawGroup'.acked \subseteq rawGroup.acked \cup {id}
      /\ rawGroup'.pending \cup rawGroup'.acked \subseteq 1 .. rawGroup'.last
  BY <1>1, GroupAfterAck DEF AnalyzerIInv
<1>3. DeadLetters' = DeadLetters /\ Origins' = Origins
  BY <1>1 DEF DeadLetters, Origins, Ids
<1>4. AckedIsAccountedFor'
  <2>1. id \in Origins
    BY <1>1 DEF AnalyzerIInv, Accounted
  <2>2. QED
    BY <2>1, <1>1, <1>2, <1>3 DEF AnalyzerIInv, AckedIsAccountedFor
<1>5. todo[a] = {}
  BY <1>1 DEF AnalyzerIInv, Holding
<1>6. CASE Abandon(a)
  BY <1>1, <1>2, <1>3, <1>4, <1>6, AbandonEffect, LettingGoInv DEF AnalyzerIInv, TypeOK
<1>7. CASE /\ good' = [good EXCEPT ![a] = @ \ {id}]
           /\ apc' = [apc EXCEPT ![a] = Remaining(good'[a], bad[a])]
           /\ UNCHANGED <<todo, bad>>
  <2>1. /\ good' \in [Analyzers -> SUBSET Nat] /\ good'[a] = good[a] \ {id}
        /\ \A b \in Analyzers : b # a => good'[b] = good[b]
    BY <1>7 DEF AnalyzerIInv, TypeOK
  <2>2. Remaining(good'[a], bad[a]) \in AnalyzerPc
    BY DEF Remaining, AnalyzerPc
  <2>3. /\ apc' \in [Analyzers -> AnalyzerPc] /\ apc'[a] = Remaining(good'[a], bad[a])
        /\ \A b \in Analyzers : b # a => apc'[b] = apc[b]
    BY <1>7, <2>2 DEF AnalyzerIInv, TypeOK
  <2>4. /\ apc'[a] \in {"ack", "dlq", "idle"}
        /\ apc'[a] # "ack" => good'[a] = {}
        /\ apc'[a] = "idle" => bad'[a] = {}
    BY <1>7, <2>3 DEF Remaining
  <2>5. todo' \in [Analyzers -> SUBSET Nat] /\ bad' \in [Analyzers -> SUBSET Nat]
    BY <1>7 DEF AnalyzerIInv, TypeOK
  <2>6. rawDlq' \in Seq(Nat) /\ dlqRaised' \in SUBSET Nat
    BY <1>1 DEF AnalyzerIInv, TypeOK
  <2>7. QED
    BY <1>1, <1>2, <1>3, <1>4, <1>5, <1>7, <2>1, <2>3, <2>4, <2>5, <2>6, LettingGoInv
<1>8. QED
  BY <1>6, <1>7 DEF Ack

(* DlqPublish keeps the invariant.                                         *)
LEMMA DlqPublishInv ==
    ASSUME AnalyzerIInv, NEW a \in Analyzers, NEW id \in bad[a], NEW reply \in Replies,
           DlqPublish(a, id, reply)
    PROVE  AnalyzerIInv'
<1>1. /\ apc[a] = "dlq" /\ IsFirst(id, bad[a]) /\ UNCHANGED <<raw, rawGroup, analyzed>>
      /\ rawDlq' \in {rawDlq, Append(rawDlq, id)}
      /\ ~Raised(reply) /\ Exists(raw, id) => rawDlq' = Append(rawDlq, id)
      /\ \/ DlqFailed(a, id)
         \/ /\ UNCHANGED dlqRaised /\ rawDlq' = Append(rawDlq, id)
            /\ apc' = [apc EXCEPT ![a] = "dlq_ack"] /\ UNCHANGED <<todo, good, bad>>
         \/ UNCHANGED dlqRaised /\ Disposed(a, id)
  BY DEF DlqPublish, Raised, Applied
<1>2. /\ id \in Nat /\ bad[a] \in SUBSET Nat /\ rawDlq \in Seq(Nat)
      /\ dlqRaised \in SUBSET Nat /\ rawGroup \in Group
      /\ todo \in [Analyzers -> SUBSET Nat] /\ good \in [Analyzers -> SUBSET Nat]
      /\ bad \in [Analyzers -> SUBSET Nat]
      /\ rawGroup.pending \cup rawGroup.acked \subseteq 1 .. rawGroup.last
  BY DEF AnalyzerIInv, TypeOK
<1>3. /\ rawDlq' \in Seq(Nat) /\ DeadLetters \subseteq DeadLetters'
      /\ DeadLetters' \subseteq DeadLetters \cup bad[a]
      /\ rawDlq' = Append(rawDlq, id) => id \in DeadLetters'
  <2>1. CASE rawDlq' = rawDlq
    <3>1. DeadLetters' = DeadLetters
      BY <2>1 DEF DeadLetters
    <3>2. rawDlq' # Append(rawDlq, id)
      BY <2>1, <1>2
    <3>3. QED
      BY <2>1, <3>1, <3>2, <1>2
  <2>2. CASE rawDlq' = Append(rawDlq, id)
    BY <2>2, <1>2, AppendedDead DEF AnalyzerIInv
  <2>3. QED
    BY <1>1, <2>1, <2>2
<1>4. dlqRaised \subseteq dlqRaised' /\ dlqRaised' \in SUBSET Nat
  BY <1>1, <1>2 DEF DlqFailed
<1>5. Origins' = Origins
  BY <1>1 DEF Origins, Ids
<1>6. AckedIsAccountedFor'
  BY <1>1, <1>3, <1>4, <1>5 DEF AnalyzerIInv, AckedIsAccountedFor
<1>7. todo[a] = {} /\ good[a] = {}
  BY <1>1 DEF AnalyzerIInv, Holding
<1>8. CASE DlqFailed(a, id)
  <2>1. /\ apc' \in [Analyzers -> AnalyzerPc]
        /\ todo' = todo /\ good' = good /\ bad' = bad
        /\ apc'[a] = "last_resort"
        /\ \A b \in Analyzers : b # a => apc'[b] = apc[b]
        /\ dlqRaised' = dlqRaised \cup {id}
    BY <1>2, <1>8, DlqFailedEffect DEF AnalyzerIInv
  <2>2. \A x \in bad'[a] : IsFirst(x, bad'[a]) => x \in dlqRaised'
    BY <2>1, <1>1, <1>2, FirstIsUnique
  <2>3. QED
    BY <1>1, <1>2, <1>3, <1>4, <1>6, <1>7, <2>1, <2>2, LettingGoInv
<1>9. CASE /\ UNCHANGED dlqRaised /\ rawDlq' = Append(rawDlq, id)
           /\ apc' = [apc EXCEPT ![a] = "dlq_ack"] /\ UNCHANGED <<todo, good, bad>>
  <2>1. /\ apc' \in [Analyzers -> AnalyzerPc] /\ apc'[a] = "dlq_ack"
        /\ \A b \in Analyzers : b # a => apc'[b] = apc[b]
    BY <1>9 DEF AnalyzerIInv, TypeOK, AnalyzerPc
  <2>2. \A x \in bad'[a] : IsFirst(x, bad'[a]) => x \in DeadLetters'
    BY <1>9, <1>1, <1>2, <1>3, FirstIsUnique
  <2>3. QED
    BY <1>1, <1>2, <1>3, <1>4, <1>6, <1>7, <1>9, <2>1, <2>2, LettingGoInv
<1>10. CASE UNCHANGED dlqRaised /\ Disposed(a, id)
  <2>1. /\ apc' \in [Analyzers -> AnalyzerPc]
        /\ todo' = todo /\ good' = good
        /\ bad' \in [Analyzers -> SUBSET Nat]
        /\ bad'[a] = bad[a] \ {id}
        /\ apc'[a] = IF bad'[a] # {} THEN "dlq" ELSE "idle"
        /\ \A b \in Analyzers : b # a => apc'[b] = apc[b] /\ bad'[b] = bad[b]
    BY <1>10, DisposedEffect DEF AnalyzerIInv
  <2>2. QED
    BY <1>1, <1>2, <1>3, <1>4, <1>6, <1>7, <2>1, LettingGoInv
<1>11. QED
  BY <1>1, <1>8, <1>9, <1>10

(* An acknowledgement of a failed entry, whether the second half of        *)
(* move_to_dlq or the last resort.                                         *)
LEMMA FailedAckInv ==
    ASSUME AnalyzerIInv, NEW a \in Analyzers, NEW id \in bad[a],
           apc[a] \in {"dlq_ack", "last_resort"}, IsFirst(id, bad[a]),
           UNCHANGED <<raw, rawDlq, analyzed>>,
           rawGroup' \in {rawGroup, XAck(rawGroup, id)},
           \/ DlqFailed(a, id)
           \/ UNCHANGED dlqRaised /\ Disposed(a, id)
           \/ UNCHANGED dlqRaised /\ Abandon(a)
    PROVE  AnalyzerIInv'
<1>1. /\ rawGroup' \in Group /\ rawGroup'.last = rawGroup.last
      /\ rawGroup'.acked \subseteq rawGroup.acked \cup {id}
      /\ rawGroup'.pending \cup rawGroup'.acked \subseteq 1 .. rawGroup'.last
  BY GroupAfterAck DEF AnalyzerIInv
<1>2. /\ id \in Nat /\ bad[a] \in SUBSET Nat /\ rawDlq' \in Seq(Nat)
      /\ dlqRaised \in SUBSET Nat
      /\ todo \in [Analyzers -> SUBSET Nat] /\ good \in [Analyzers -> SUBSET Nat]
      /\ bad \in [Analyzers -> SUBSET Nat]
  BY DEF AnalyzerIInv, TypeOK
<1>3. DeadLetters' = DeadLetters /\ Origins' = Origins
  BY DEF DeadLetters, Origins, Ids
<1>4. dlqRaised \subseteq dlqRaised' /\ dlqRaised' \in SUBSET Nat
  BY <1>2 DEF DlqFailed
<1>5. AckedIsAccountedFor'
  <2>1. id \in DeadLetters \cup dlqRaised
    BY DEF AnalyzerIInv, Accounted
  <2>2. QED
    BY <2>1, <1>1, <1>3, <1>4 DEF AnalyzerIInv, AckedIsAccountedFor
<1>6. todo[a] = {} /\ good[a] = {}
  BY DEF AnalyzerIInv, Holding
<1>7. CASE DlqFailed(a, id)
  <2>1. /\ apc' \in [Analyzers -> AnalyzerPc]
        /\ todo' = todo /\ good' = good /\ bad' = bad
        /\ apc'[a] = "last_resort"
        /\ \A b \in Analyzers : b # a => apc'[b] = apc[b]
        /\ dlqRaised' = dlqRaised \cup {id}
    BY <1>2, <1>7, DlqFailedEffect DEF AnalyzerIInv
  <2>2. \A x \in bad'[a] : IsFirst(x, bad'[a]) => x \in dlqRaised'
    BY <2>1, <1>2, FirstIsUnique
  <2>3. QED
    BY <1>1, <1>2, <1>3, <1>4, <1>5, <1>6, <2>1, <2>2, LettingGoInv
<1>8. CASE UNCHANGED dlqRaised /\ Disposed(a, id)
  <2>1. /\ apc' \in [Analyzers -> AnalyzerPc]
        /\ todo' = todo /\ good' = good
        /\ bad' \in [Analyzers -> SUBSET Nat]
        /\ bad'[a] = bad[a] \ {id}
        /\ apc'[a] = IF bad'[a] # {} THEN "dlq" ELSE "idle"
        /\ \A b \in Analyzers : b # a => apc'[b] = apc[b] /\ bad'[b] = bad[b]
    BY <1>8, DisposedEffect DEF AnalyzerIInv
  <2>2. QED
    BY <1>1, <1>2, <1>3, <1>4, <1>5, <1>6, <2>1, LettingGoInv
<1>9. CASE UNCHANGED dlqRaised /\ Abandon(a)
  BY <1>1, <1>2, <1>3, <1>4, <1>5, <1>9, AbandonEffect, LettingGoInv DEF AnalyzerIInv
<1>10. QED
  BY <1>7, <1>8, <1>9

(* Crash keeps the invariant.                                              *)
LEMMA CrashInv ==
    ASSUME AnalyzerIInv, NEW a \in Analyzers, Crash(a)
    PROVE  AnalyzerIInv'
<1>1. Abandon(a) /\ UNCHANGED <<raw, rawGroup, rawDlq, analyzed, dlqRaised>>
  BY DEF Crash
<1>2. DeadLetters' = DeadLetters /\ Origins' = Origins
  BY <1>1 DEF DeadLetters, Origins, Ids
<1>3. AckedIsAccountedFor'
  BY <1>1, <1>2 DEF AnalyzerIInv, AckedIsAccountedFor
<1>4. /\ rawGroup' \in Group /\ rawDlq' \in Seq(Nat) /\ dlqRaised' \in SUBSET Nat
      /\ rawGroup'.pending \cup rawGroup'.acked \subseteq 1 .. rawGroup'.last
  BY <1>1 DEF AnalyzerIInv, TypeOK
<1>5. QED
  BY <1>1, <1>2, <1>3, <1>4, AbandonEffect, LettingGoInv DEF AnalyzerIInv

(* Every step of a replica, of the collectors, or of anyone else.          *)
LEMMA AnalyzerStepInv ==
    ASSUME AnalyzerIInv, [AnalyzerNext]_analyzerVars
    PROVE  AnalyzerIInv'
<1>1. ASSUME NEW m \in Mentions, Arrive(m) PROVE AnalyzerIInv'
  BY <1>1, ArriveInv
<1>2. ASSUME NEW a \in Analyzers, NEW reply \in Replies, Consume(a, reply)
      PROVE  AnalyzerIInv'
  BY <1>2, ConsumeInv
<1>3. ASSUME NEW a \in Analyzers, NEW reply \in Replies, PublishBatch(a, reply)
      PROVE  AnalyzerIInv'
  BY <1>3, PublishBatchInv
<1>4. ASSUME NEW a \in Analyzers, NEW id \in todo[a], NEW fails \in BOOLEAN,
             Analyze(a, id, fails)
      PROVE  AnalyzerIInv'
  BY <1>4, AnalyzeInv
<1>5. ASSUME NEW a \in Analyzers, NEW id \in good[a], NEW reply \in Replies, Ack(a, id, reply)
      PROVE  AnalyzerIInv'
  BY <1>5, AckInv
<1>6. ASSUME NEW a \in Analyzers, NEW id \in bad[a], NEW reply \in Replies,
             DlqPublish(a, id, reply)
      PROVE  AnalyzerIInv'
  BY <1>6, DlqPublishInv
<1>7. ASSUME NEW a \in Analyzers, NEW id \in bad[a], NEW reply \in Replies,
             DlqAck(a, id, reply) \/ LastResortAck(a, id, reply)
      PROVE  AnalyzerIInv'
  BY <1>7, FailedAckInv DEF DlqAck, LastResortAck
<1>8. ASSUME NEW a \in Analyzers, Crash(a) PROVE AnalyzerIInv'
  BY <1>8, CrashInv
<1>9. CASE UNCHANGED analyzerVars
  BY <1>9, UnchangedInv
<1>10. QED
  BY <1>1, <1>2, <1>3, <1>4, <1>5, <1>6, <1>7, <1>8, <1>9 DEF AnalyzerNext, AnalyzerStep

-----------------------------------------------------------------------------

(* The inductive invariant of the analyzer service holds.                  *)
THEOREM AnalyzerInvariant == AnalyzerSpec => []AnalyzerIInv
<1>1. AnalyzerIInv /\ [AnalyzerNext]_analyzerVars => AnalyzerIInv'
  BY AnalyzerStepInv
<1>2. QED
  BY <1>1, AnalyzerInitInv, PTL DEF AnalyzerSpec

(* The variables keep their types; the group never delivers or             *)
(* acknowledges an id the stream does not have.                            *)
THEOREM AnalyzerTyping == AnalyzerSpec => []TypeOK
<1>1. AnalyzerIInv => TypeOK
  BY DEF AnalyzerIInv
<1>2. QED
  BY <1>1, AnalyzerInvariant, PTL

(* No raw entry becomes two analysed events, however many replicas share   *)
(* the group, crash, or lose replies (process_loop's publish_batch).       *)
THEOREM AnalyzerForwardedAtMostOnce == AnalyzerSpec => []ForwardedAtMostOnce
<1>1. AnalyzerIInv => ForwardedAtMostOnce
  BY DEF AnalyzerIInv
<1>2. QED
  BY <1>1, AnalyzerInvariant, PTL

(* No raw entry is both forwarded and dead-lettered.                       *)
THEOREM AnalyzerNeverForwardedAndDead == AnalyzerSpec => []NeverForwardedAndDead
<1>1. AnalyzerIInv => NeverForwardedAndDead
  BY DEF AnalyzerIInv
<1>2. QED
  BY <1>1, AnalyzerInvariant, PTL

(* An entry is acknowledged only when it was forwarded, dead-lettered, or  *)
(* its move_to_dlq raised (the last-resort acknowledgement).               *)
THEOREM AnalyzerAckedIsAccountedFor == AnalyzerSpec => []AckedIsAccountedFor
<1>1. AnalyzerIInv => AckedIsAccountedFor
  BY DEF AnalyzerIInv
<1>2. QED
  BY <1>1, AnalyzerInvariant, PTL
=============================================================================
