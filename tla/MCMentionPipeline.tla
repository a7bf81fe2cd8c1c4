-------------------------- MODULE MCMentionPipeline -------------------------
(* Small instances of the collection pipeline for TLC.                     *)
EXTENDS MentionPipeline, TLC

CONSTANTS r1, r2, p1, p2, x, y, feed, a1, q1

OneReplica == {r1}
TwoReplicas == {r1, r2}
OneProject == {p1}
TwoProjects == {p1, p2}
OnePost == {x}
TwoPosts == {x, y}
OnePlatform == [post \in {x} |-> feed]
SamePlatform == [post \in {x, y} |-> feed]
OneAnalyzer == {a1}
OneStore == {q1}

NoMention == {}
SecondPost == [project : {p1}, post : {y}]

BusReplies == {"ok", "lost", "failed"}
NoFaults == {"ok"}

ReplicaSymmetry == Permutations(TwoReplicas)
=============================================================================
