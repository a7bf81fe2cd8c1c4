---------------------------- MODULE MCPublishing ----------------------------
(* Small instances of the publishing service for TLC.                      *)
EXTENDS Publishing, TLC

CONSTANTS s1, c1, r1, r2, p1, p2

OneScheduler == {s1}
OneConsumer == {c1}
OneRequest == {r1}
TwoRequests == {r1, r2}
OnePost == {p1}
TwoPosts == {p1, p2}
SecondPost == {p2}
None == {}

AllOperations == {"approve", "delete", "publish_now"}
ApproveAndPublish == {"approve", "publish_now"}

NoFaults == {"ok"}

(* What asyncpg makes of a datetime with a zone for a column without one.  *)
Refused == {"failed"}

(* No guard and no property of these runs reads the trail, so states that  *)
(* differ in it only need not be told apart.                               *)
WithoutTrail == <<postVars, sent, excused, asked, askedGroup, taskVars>>
=============================================================================
