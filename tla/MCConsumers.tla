---------------------------- MODULE MCConsumers -----------------------------
(***************************************************************************)
(* A small instance of the consumers: two replicas, two entries.           *)
(***************************************************************************)
EXTENDS Consumers, TLC

AllServices ==
    {"media", "enrichment", "notification", "audit", "retention", "reports", "workflows",
     "schedule", "exports", "deadletters"}

ReplicasAlike == Permutations(Workers)

SomeRequestsForMedia == {[mention |-> 1, kind |-> k] : k \in {"none", "image", "audio"}}

(* One author is suspected by every score, the other by none.              *)
TwoAuthors ==
    <<[botHandle |-> FALSE, age |-> 400, posts |-> 40, followers |-> 20, following |-> 10,
       bio |-> "other"],
      [botHandle |-> TRUE, age |-> 6, posts |-> 700, followers |-> 200, following |-> 10,
       bio |-> "spam"]>>

SomeAnalyzed ==
    {[project |-> 1, negative |-> TRUE, influencer |-> FALSE, malformed |-> FALSE],
     [project |-> 1, negative |-> FALSE, influencer |-> TRUE, malformed |-> TRUE],
     [project |-> 1, negative |-> FALSE, influencer |-> TRUE, malformed |-> FALSE]}

TwoRules ==
    {[project |-> 1, type |-> "negative_surge", window |-> 2, percent |-> 40,
      channels |-> {"webhook", "email"}, url |-> "valid"],
     [project |-> 1, type |-> "volume_spike", window |-> 1, percent |-> 2,
      channels |-> {"slack"}, url |-> "refused"]}

TwoAuditEvents ==
    {[org |-> "o1", user |-> "u", wellFormed |-> TRUE],
     [org |-> "o2", user |-> "u", wellFormed |-> FALSE]}

OnePolicy == {[audit |-> 0, mention |-> 1, report |-> 0]}

RowsAtFirst ==
    {[kind |-> "mention", org |-> "o1", id |-> 0, born |-> 0],
     [kind |-> "audit", org |-> "o2", id |-> 0, born |-> 0, user |-> "u"],
     [kind |-> "report", org |-> "o2", id |-> 0, born |-> 0]}

SomeRequestsForReports ==
    {[project |-> 1, type |-> "daily", format |-> "pptx", malformed |-> FALSE],
     [project |-> 9, type |-> "daily", format |-> "pdf", malformed |-> FALSE],
     [project |-> 1, type |-> "daily", format |-> "pdf", malformed |-> TRUE]}

Matching ==
    [project |-> "p1", source |-> "s", negative |-> TRUE, followers |-> 20, score |-> -1,
     words |-> {"k"}, platform |-> "x", engagement |-> 5, malformed |-> FALSE]

SomeMentions ==
    {Matching, [Matching EXCEPT !.malformed = TRUE], [Matching EXCEPT !.project = "malformed"],
     [Matching EXCEPT !.project = "none"]}

OneDefinition ==
    {[project |-> "p1",
      trigger |-> <<[type |-> "negative_influencer", at |-> 10],
                    [type |-> "keyword_match", at |-> "k"]>>,
      actions |-> <<"flag_mention">>]}

TwoMentions ==
    {[platform |-> "twitter", likes |-> 0, flagged |-> "no"],
     [platform |-> "news", likes |-> 2, flagged |-> "yes"]}

SomeExports ==
    {[format |-> f, filters |-> [platform |-> "", minLikes |-> 1, flagged |-> ""]] :
        f \in {"csv", "pdf"}}
        \cup {[format |-> f, filters |-> [platform |-> "news", minLikes |-> 0, flagged |-> "yes"]] :
                  f \in {"excel", "json"}}
=============================================================================
