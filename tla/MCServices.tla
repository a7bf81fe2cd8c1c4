----------------------------- MODULE MCServices -----------------------------
(***************************************************************************)
(* The three services of the collection pipeline, each by itself against   *)
(* any input its streams may bring; MCMentionPipeline composes them.  One  *)
(* is explored after the other, as the initial state chooses: each is more *)
(* than its steps in the pipeline, and none needs the others' state.       *)
(***************************************************************************)
EXTENDS Collector, Analyzer, QueryStore, TLC

VARIABLE service

collectorOwn ==
    <<rawOut, requests, requestGroup, claimed, expiries, rounds, linkVars, cpc, tasks, platforms,
      found, events>>
analyzerOwn == <<raw, analyzed, rawGroup, rawDlq, apc, todo, good, bad, dlqRaised>>
queryOwn == <<analyzedIn, storeGroup, analyzedDlq, rows, indexed, qpc, batch, error, storeRaised>>

servicesVars == <<service, collectorOwn, analyzerOwn, queryOwn>>

ServicesInit ==
    /\ service \in {"collector", "analyzer", "query"}
    /\ CollectorInit
    /\ AnalyzerInit
    /\ QueryInit

CollectorAlone ==
    service = "collector" /\ CollectorNext /\ UNCHANGED <<analyzerOwn, queryOwn>>

AnalyzerAlone ==
    /\ service = "analyzer"
    /\ AnalyzerNext
    /\ UNCHANGED <<collectorOwn, queryOwn>>

QueryAlone ==
    /\ service = "query"
    /\ QueryNext
    /\ UNCHANGED <<collectorOwn, analyzerOwn>>

ServicesNext == UNCHANGED service /\ (CollectorAlone \/ AnalyzerAlone \/ QueryAlone)

ServicesSpec == ServicesInit /\ [][ServicesNext]_servicesVars

-----------------------------------------------------------------------------
(* The instance.                                                           *)

CONSTANTS p1, p2, x, y, feed, video, r1, a1, a2, q1, q2, m1, m2

OneReplica == {r1}
TwoProjects == {p1, p2}
TwoPosts == {x, y}
TwoPlatforms == [post \in {x, y} |-> IF post = x THEN feed ELSE video]
TwoAnalyzers == {a1, a2}
TwoStores == {q1, q2}
OneMention == {m1}
TwoMentions == {m1, m2}
BadMention == {m2}

(* The two posts with their platforms are interchangeable.                 *)
SwapPosts ==
    [v \in {x, y, feed, video} |->
        IF v \in {x, y} THEN (IF v = x THEN y ELSE x) ELSE (IF v = feed THEN video ELSE feed)]

Symmetry ==
    UNION {Permutations(TwoProjects), {SwapPosts}, Permutations(TwoAnalyzers),
           Permutations(TwoStores)}
=============================================================================
