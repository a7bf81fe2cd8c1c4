----------------------------- MODULE Enrichment -----------------------------
(***************************************************************************)
(* The enrichment service (services/enrichment_service/app/main.py): score *)
(* the author of a mention, commit the scores to its row, publish them to  *)
(* enrichment:results and remember in enrichment:done:<id> that this was   *)
(* done.  Look-up, commit, publish and SETEX are four awaits; the request  *)
(* is acknowledged in a finally, after a duplicate twice.                  *)
(***************************************************************************)
EXTENDS ConsumerLoop

CONSTANTS
    EnrichableMentions, \* mention ids that requests name; 0 is refused
    MissingRows,        \* those whose row does not exist
    AuthorOf,           \* what the row and the request tell of the author
    MaxLapses,          \* bound: dedup keys that expire during the run
    MaxRequests         \* bound: requests for an enrichment, more than replicas

VARIABLES
    enriched,       \* mentions whose row holds the scores, with the verdict on bots
    enrichResults,  \* number of events on enrichment:results per mention
    done,           \* mentions whose dedup key exists
    lapses          \* history: times a mention's key expired or was not set

enrichmentVars == <<loopVars, enriched, enrichResults, done, lapses>>

EnrichmentPlaces == {"ack_duplicate", "enrich", "publish_scores", "remember"}

-----------------------------------------------------------------------------
(* detect_bot: risk in halves of a point, and a threshold of five points.  *)
(* Ages are in days; an age of 0 is unknown.                               *)

ActivityRisk(age, posts) ==
    IF age = 0 THEN 1
    ELSE IF age < 30 /\ posts > 500 THEN 4
    ELSE IF age < 7 /\ posts > 50 THEN 5
    ELSE 0

FollowRisk(followers, following) ==
    IF followers > 0 /\ following > 0
    THEN (IF followers * 100 < following /\ following > 1000 THEN 4 ELSE 0)
         + (IF followers > 100 /\ followers % 100 = 0 THEN 1 ELSE 0)
    ELSE IF followers = 0 /\ following = 0 THEN 2 ELSE 0

FrequencyRisk(age, posts) ==
    IF age = 0 THEN 0
    ELSE IF posts > 100 * age THEN 5
    ELSE IF posts > 50 * age THEN 3
    ELSE 0

BioRisk(bio) == CASE bio = "empty" -> 1 [] bio = "spam" -> 4 [] OTHER -> 0

DetectBot(author) ==
    (IF author.botHandle THEN 5 ELSE 0)
        + ActivityRisk(author.age, author.posts)
        + FollowRisk(author.followers, author.following)
        + FrequencyRisk(author.age, author.posts)
        + BioRisk(author.bio) >= 10

-----------------------------------------------------------------------------
EnrichmentInit ==
    /\ LoopInit
    /\ enriched = {}
    /\ enrichResults = [m \in EnrichableMentions |-> 0]
    /\ done = {}
    /\ lapses = [m \in EnrichableMentions |-> 0]

RequestEnrichment(m) ==
    /\ Len(stream.log) < MaxRequests
    /\ Enter(m)
    /\ UNCHANGED <<enriched, enrichResults, done, lapses>>

RefuseMention(w, id) ==
    /\ At(w, "handle", id)
    /\ EntryAt(id) = 0
    /\ Step(w, "finally")
    /\ UNCHANGED <<enriched, enrichResults, done, lapses>>

\* Mutant of LookUpDone: the key is set after the work, but nothing looks at it.
LookUpNothing(w, id, reply) ==
    /\ At(w, "handle", id)
    /\ EntryAt(id) # 0
    /\ Step(w, IF Raised(reply) THEN "finally" ELSE "enrich")
    /\ UNCHANGED <<enriched, enrichResults, done, lapses>>

(* EXISTS enrichment:done:<mention_id>                                     *)
LookUpDone(w, id, reply) ==
    /\ At(w, "handle", id)
    /\ EntryAt(id) # 0
    /\ Step(w, IF Raised(reply) THEN "finally"
               ELSE IF EntryAt(id) \in done THEN "ack_duplicate" ELSE "enrich")
    /\ UNCHANGED <<enriched, enrichResults, done, lapses>>

(* The acknowledgement inside the try; the finally clause repeats it.      *)
AckDuplicate(w, id, reply) ==
    /\ At(w, "ack_duplicate", id)
    /\ group' = IF Applied(reply) THEN XAck(group, id) ELSE group
    /\ Goto(w, "finally")
    /\ UNCHANGED <<stream, todo, enriched, enrichResults, done, lapses>>

(* enrich_mention within its timeout, up to its COMMIT.  A timeout, like a *)
(* lost reply, may come after the commit was carried out.                  *)
EnrichMention(w, id, reply) ==
    LET m == EntryAt(id)
    IN  /\ At(w, "enrich", id)
        /\ IF m \in MissingRows
           THEN Step(w, "finally") /\ UNCHANGED enriched
           ELSE /\ enriched' = IF Applied(reply)
                               THEN {e \in enriched : e[1] # m}
                                        \cup {<<m, DetectBot(AuthorOf[m])>>}
                               ELSE enriched
                /\ Step(w, IF Raised(reply) THEN "finally" ELSE "publish_scores")
        /\ UNCHANGED <<enrichResults, done, lapses>>

(* A lapse: the mention was announced and its key does not say so.         *)
Lapse(m) == lapses' = [lapses EXCEPT ![m] = @ + 1]

PublishScores(w, id, reply) ==
    LET m == EntryAt(id)
    IN  /\ At(w, "publish_scores", id)
        /\ enrichResults' = IF Applied(reply)
                            THEN [enrichResults EXCEPT ![m] = @ + 1]
                            ELSE enrichResults
        /\ IF Raised(reply) THEN Lapse(m) ELSE UNCHANGED lapses
        /\ Step(w, IF Raised(reply) THEN "finally" ELSE "remember")
        /\ UNCHANGED <<enriched, done>>

(* SETEX enrichment:done:<mention_id>                                      *)
Remember(w, id, reply) ==
    LET m == EntryAt(id)
    IN  /\ At(w, "remember", id)
        /\ done' = IF Applied(reply) THEN done \cup {m} ELSE done
        /\ IF Applied(reply) THEN UNCHANGED lapses ELSE Lapse(m)
        /\ Step(w, "finally")
        /\ UNCHANGED <<enriched, enrichResults>>

ExpireDone(m) ==
    /\ m \in done
    /\ lapses[m] < MaxLapses
    /\ done' = done \ {m}
    /\ Lapse(m)
    /\ UNCHANGED <<loopVars, enriched, enrichResults>>

CrashEnrichment(w) ==
    /\ CrashLoop(w)
    /\ IF place[w] = "remember"
       THEN \E id \in todo[w] : At(w, "remember", id) /\ Lapse(EntryAt(id))
       ELSE UNCHANGED lapses
    /\ UNCHANGED <<enriched, enrichResults, done>>

EnrichmentStep(w) ==
    \E reply \in Replies :
        \/ /\ Consume(w, reply)
           /\ UNCHANGED <<enriched, enrichResults, done, lapses>>
        \/ \E id \in todo[w] :
              \/ LookUpDone(w, id, reply)
              \/ AckDuplicate(w, id, reply)
              \/ EnrichMention(w, id, reply)
              \/ PublishScores(w, id, reply)
              \/ Remember(w, id, reply)
              \/ /\ AckFinally(w, id, reply)
                 /\ UNCHANGED <<enriched, enrichResults, done, lapses>>

EnrichmentNext ==
    \/ \E m \in EnrichableMentions \cup {0} : RequestEnrichment(m)
    \/ \E m \in EnrichableMentions : ExpireDone(m)
    \/ \E w \in Workers :
          \/ EnrichmentStep(w)
          \/ \E id \in todo[w] : RefuseMention(w, id)
          \/ CrashEnrichment(w)

EnrichmentSpec == EnrichmentInit /\ [][EnrichmentNext]_enrichmentVars

-----------------------------------------------------------------------------
EnrichmentTypeOK ==
    /\ LoopTypeOK(EnrichableMentions \cup {0}, EnrichmentPlaces)
    /\ enriched \in SUBSET (EnrichableMentions \X BOOLEAN)
    /\ enrichResults \in [EnrichableMentions -> Nat]
    /\ done \in SUBSET EnrichableMentions
    /\ lapses \in [EnrichableMentions -> Nat]

(* "Skip already-enriched mentions": every result of a mention beyond the  *)
(* first per replica has a reason, a dedup key that expired or was never   *)
(* set because publishing, SETEX or the replica failed.  And a key is only *)
(* there for a mention whose scores are in its row and were announced.     *)
RepeatIsExplained ==
    \A m \in EnrichableMentions :
        /\ enrichResults[m] <= Cardinality(Workers) * (1 + lapses[m])
        /\ m \in done => enrichResults[m] > 0 /\ \E e \in enriched : e[1] = m
=============================================================================
