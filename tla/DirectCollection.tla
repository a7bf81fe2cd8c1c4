-------------------------- MODULE DirectCollection --------------------------
(***************************************************************************)
(* POST /projects/{id}/collect of the gateway (services/gateway/app/       *)
(* routes/projects.py) and the collection it falls back to when the bus    *)
(* refuses the request (collect_pipeline.py, run_direct_collection): the   *)
(* free collectors run one after the other in a background task, and what  *)
(* they found is stored in one transaction.                                *)
(*                                                                         *)
(* The table of mentions is the query service's too: it stores what the    *)
(* distributed pipeline collected, a request whose reply was lost starts   *)
(* both, and two direct runs of a project may overlap.  Mentions are       *)
(* unique by project, source_id and platform.  There is one project here.  *)
(*                                                                         *)
(* A post has a name, its source_id, or 0 if it has none; its platform;    *)
(* and whether its values fit the columns of the table: the driver refuses *)
(* an aware date in one without a time zone, and the database a source_id  *)
(* of over 255 characters.                                                 *)
(***************************************************************************)
EXTENDS Handlers, SequencesExt

CONSTANTS
    TrackedPlatforms,   \* what project.platforms may be; {} stands for none
    FreeAnswers,        \* collector -> sequences of posts it may return
    MaxDirectRuns       \* bound: once so many have ended, no run begins

FreeCollectors == {"reddit", "news", "mastodon", "gdelt"}

DirectPosts == UNION {UNION {ToSet(posts) : posts \in FreeAnswers[c]} : c \in DOMAIN FreeAnswers}

ASSUME DirectAssumption ==
    /\ MaxDirectRuns \in Nat
    /\ FreeCollectors \subseteq DOMAIN FreeAnswers
    /\ \A c \in DOMAIN FreeAnswers : FreeAnswers[c] \subseteq Seq(DirectPosts)

VARIABLES
    mentionRows,    \* the table: posts
    directEnded     \* history: what each run that gathered posts came to

directVars == <<mentionRows, directEnded>>

DirectInit ==
    /\ mentionRows = {}
    /\ directEnded = {}
    /\ NoRequests

PostKey(post) == <<post.name, post.platform>>

(* FREE_COLLECTORS, and GDELT for those who track the news.                *)
CollectorsToRun(tracked) ==
    LET RunIf(c, names) == IF tracked = {} \/ names \cap tracked # {} THEN <<c>> ELSE << >>
    IN  RunIf("reddit", {"all", "reddit"}) \o RunIf("news", {"all", "news"})
            \o RunIf("mastodon", {"all", "mastodon"}) \o RunIf("gdelt", {"all", "news"})

-----------------------------------------------------------------------------
(* The requests, with those that are about to commit told of other posts.  *)
Rivalled(posts) ==
    [p \in Requests |-> IF Reached(p, "commit") THEN [request[p] EXCEPT !.rivals = @ \cup posts]
                        ELSE request[p]]

(* The query service stores a mention of the distributed pipeline.         *)
QueryStores(post) ==
    /\ post.fits
    /\ \A row \in mentionRows : PostKey(row) # PostKey(post)
    /\ mentionRows' = mentionRows \cup {post}
    /\ request' = Rivalled({post})
    /\ UNCHANGED directEnded

(* The endpoint: only a bus that raises starts a direct run; one that did  *)
(* publish and lost the reply starts both.                                 *)
TriggerCollection(p, reply) ==
    /\ Raised(reply)
    /\ Cardinality(directEnded) < MaxDirectRuns
    /\ Begin(p, [at |-> "load"])
    /\ UNCHANGED directVars

(* The project, whose platforms a PATCH may change at any time, and its    *)
(* keywords: without either the run ends.                                  *)
LoadDirectProject(p, reply, usable) ==
    /\ Reached(p, "load")
    /\ IF Raised(reply) \/ ~usable THEN Answered(p)
       ELSE \E tracked \in TrackedPlatforms :
               request' = [request EXCEPT ![p] =
                              [at |-> "collect", left |-> CollectorsToRun(tracked), raw |-> << >>]]
    /\ UNCHANGED directVars

(* One collector of the loop returns its posts or raises, which is logged. *)
RunCollector(p, posts) ==
    /\ Reached(p, "collect")
    /\ request[p].left # << >>
    /\ request' = [request EXCEPT ![p].left = Tail(@), ![p].raw = @ \o posts]
    /\ UNCHANGED directVars

\* Mutant of FirstOfItsName: nothing is taken for a repetition.
FirstOfItsNameAlways(raw, i) == i \in DOMAIN raw

FirstOfItsName(raw, i) == raw[i].name = 0 \/ \A j \in 1 .. i - 1 : raw[j].name # raw[i].name

(* What is left to store, given the names that are in the table already.   *)
Adding(raw, known) ==
    [i \in {k \in DOMAIN raw : FirstOfItsName(raw, k) /\ raw[k].name \notin known} |-> raw[i]]

(* Names that are in the table, of whatever platform.                      *)
ReadExisting(p, reply) ==
    LET raw == request[p].raw
        known == {row.name : row \in mentionRows} \ {0}
    IN  /\ Reached(p, "collect")
        /\ request[p].left = << >>
        /\ IF raw = << >> THEN Answered(p) /\ UNCHANGED directEnded
           ELSE IF Raised(reply)
           THEN /\ Answered(p)
                /\ directEnded' = directEnded \cup
                      {[found |-> ToSet(raw), fault |-> TRUE, spoilt |-> FALSE, raced |-> FALSE]}
           ELSE /\ request' = [request EXCEPT ![p] =
                                  [at |-> "commit", raw |-> raw, rivals |-> {},
                                   adding |-> Adding(raw, known)]]
                /\ UNCHANGED directEnded
        /\ UNCHANGED mentionRows

(* The transaction: one INSERT that is refused refuses them all.           *)
Insertable(adding) ==
    /\ \A i \in DOMAIN adding :
          /\ adding[i].fits
          /\ \A row \in mentionRows : PostKey(row) # PostKey(adding[i])
    /\ \A i, j \in DOMAIN adding : i # j => PostKey(adding[i]) # PostKey(adding[j])

CommitDirect(p, reply) ==
    LET r == request[p]
        posts == {r.adding[i] : i \in DOMAIN r.adding}
    IN  /\ Reached(p, "commit")
        /\ IF Applied(reply) /\ Insertable(r.adding)
           THEN /\ mentionRows' = mentionRows \cup posts
                /\ request' = [Rivalled(posts) EXCEPT ![p] = Free]
           ELSE Answered(p) /\ UNCHANGED mentionRows
        /\ directEnded' = directEnded \cup
              {[found  |-> ToSet(r.raw),
                fault  |-> reply = "failed",
                spoilt |-> \E post \in posts : ~post.fits \/ post.name = 0,
                raced  |-> \E row \in r.rivals, post \in posts : PostKey(row) = PostKey(post)]}

DirectRun(p, reply) ==
    \/ TriggerCollection(p, reply)
    \/ \E usable \in BOOLEAN : LoadDirectProject(p, reply, usable)
    \/ ReadExisting(p, reply)
    \/ CommitDirect(p, reply)

DirectCollector(p) ==
    /\ Reached(p, "collect")
    /\ request[p].left # << >>
    /\ \E posts \in FreeAnswers[Head(request[p].left)] \cup {<< >>} : RunCollector(p, posts)

DirectNext ==
    \/ \E p \in Requests, reply \in Outcomes : DirectRun(p, reply)
    \/ \E p \in Requests : DirectCollector(p)
    \/ \E c \in DOMAIN FreeAnswers : \E posts \in FreeAnswers[c] : \E i \in DOMAIN posts :
          QueryStores(posts[i])

DirectSpec == DirectInit /\ [][DirectNext]_<<directVars, request>>

-----------------------------------------------------------------------------
DirectTypeOK ==
    /\ mentionRows \subseteq DirectPosts
    /\ \A run \in directEnded : run.found \subseteq DirectPosts

(* A run is all or nothing, and what may spoil it is one post that has no  *)
(* source_id or does not fit the table, another run that stored one of its *)
(* posts since it looked, or a fault.  In every other case each post that  *)
(* it found is in the table under its source_id, however often and by      *)
(* however many collectors it was found.                                   *)
DirectLossIsExplained ==
    \A run \in directEnded :
        run.fault \/ run.spoilt \/ run.raced
            \/ \A post \in run.found : \E row \in mentionRows : row.name = post.name
=============================================================================
