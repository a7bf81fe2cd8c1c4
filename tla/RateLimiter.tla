----------------------------- MODULE RateLimiter ----------------------------
(***************************************************************************)
(* SlidingWindowLimiter.acquire of services/rate_limiter_service/app/      *)
(* main.py, for one platform:endpoint key: a Redis sorted set of the calls *)
(* granted, scored by the time each acquire started.                       *)
(*                                                                         *)
(* acquire reads the clock, removes the expired members and counts the     *)
(* others in one pipeline, adds its own member in a second round trip and  *)
(* sets the key's TTL in a third; requests of other tasks interleave       *)
(* between them.  Redis drops the key when its TTL runs out and when its   *)
(* last member is removed.  The two reads that compute wait_seconds for a  *)
(* denied call change nothing and are left out.                            *)
(*                                                                         *)
(* The member names f"{now}:{id(object())}" are taken to be distinct.      *)
(***************************************************************************)
EXTENDS Integers, FiniteSets

CONSTANTS
    Callers,        \* concurrent acquire requests
    MaxRequests,    \* max_requests of the quota
    Window,         \* window_seconds, in ticks
    Slack,          \* the 60 seconds added to the TTL, in ticks
    MaxTime,        \* bound: the clock stops here
    MaxMembers      \* bound: members ever added

ASSUME LimiterAssumption ==
    /\ IsFiniteSet(Callers) /\ Callers # {}
    /\ {MaxRequests, Window, MaxTime, MaxMembers} \subseteq Nat
    /\ Slack \in Nat \ {0}

VARIABLES
    now,        \* time.time()
    zset,       \* the members of the key
    ttl,        \* when the key expires; NoTTL if it does not
    phase,      \* where each caller is in acquire
    started,    \* the caller's now
    mine,       \* the member it added last
    recorded,   \* history: every member ever added
    cut         \* history: members whose call raised instead of granting

limiterVars == <<now, zset, ttl, phase, started, mine, recorded, cut>>

NoTTL == -1

Phase == {"idle", "count", "record", "expire"}

Member == [score : Nat, id : Nat]

LimiterInit ==
    /\ now = 0
    /\ zset = {}
    /\ ttl = NoTTL
    /\ phase = [c \in Callers |-> "idle"]
    /\ started = [c \in Callers |-> 0]
    /\ mine = [c \in Callers |-> [score |-> 0, id |-> 0]]
    /\ recorded = {}
    /\ cut = {}

-----------------------------------------------------------------------------
BeginAcquire(c) ==
    /\ phase[c] = "idle"
    /\ phase' = [phase EXCEPT ![c] = "count"]
    /\ started' = [started EXCEPT ![c] = now]
    /\ UNCHANGED <<now, zset, ttl, mine, recorded, cut>>

(* What ZREMRANGEBYSCORE key 0 start-window leaves.                        *)
Unexpired(members, start) == {m \in members : m.score > start - Window}

\* Mutant of Count: the TTL outlives the key it was set on.
CountKeepingTTL(c) ==
    /\ phase[c] = "count"
    /\ zset' = Unexpired(zset, started[c])
    /\ phase' = [phase EXCEPT ![c] =
                   IF Cardinality(zset') >= MaxRequests THEN "idle" ELSE "record"]
    /\ UNCHANGED <<now, ttl, started, mine, recorded, cut>>

\* Mutant of Count: the comparison is off by one.
CountOneMore(c) ==
    /\ phase[c] = "count"
    /\ zset' = Unexpired(zset, started[c])
    /\ ttl' = IF zset' = {} THEN NoTTL ELSE ttl
    /\ phase' = [phase EXCEPT ![c] =
                   IF Cardinality(zset') > MaxRequests THEN "idle" ELSE "record"]
    /\ UNCHANGED <<now, started, mine, recorded, cut>>

(* ZREMRANGEBYSCORE and ZCARD in one pipeline, then the comparison.        *)
Count(c) ==
    /\ phase[c] = "count"
    /\ zset' = Unexpired(zset, started[c])
    /\ ttl' = IF zset' = {} THEN NoTTL ELSE ttl
    /\ phase' = [phase EXCEPT ![c] =
                   IF Cardinality(zset') >= MaxRequests THEN "idle" ELSE "record"]
    /\ UNCHANGED <<now, started, mine, recorded, cut>>

(* ZADD: the slot is taken.                                                *)
Record(c) ==
    /\ phase[c] = "record"
    /\ Cardinality(recorded) < MaxMembers
    /\ LET member == [score |-> started[c], id |-> Cardinality(recorded)]
       IN  /\ zset' = zset \cup {member}
           /\ recorded' = recorded \cup {member}
           /\ mine' = [mine EXCEPT ![c] = member]
    /\ phase' = [phase EXCEPT ![c] = "expire"]
    /\ UNCHANGED <<now, ttl, started, cut>>

\* Mutant of SetTTL: the key lives 60 seconds, whatever the window.
SetTTLFixed(c) ==
    /\ phase[c] = "expire"
    /\ ttl' = IF zset = {} THEN NoTTL ELSE now + Slack
    /\ phase' = [phase EXCEPT ![c] = "idle"]
    /\ UNCHANGED <<now, zset, started, mine, recorded, cut>>

(* EXPIRE, which does nothing if the key is gone; acquire grants the call. *)
SetTTL(c) ==
    /\ phase[c] = "expire"
    /\ ttl' = IF zset = {} THEN NoTTL ELSE now + Window + Slack
    /\ phase' = [phase EXCEPT ![c] = "idle"]
    /\ UNCHANGED <<now, zset, started, mine, recorded, cut>>

(* A Redis call raises, or the service is restarted: acquire ends there    *)
(* and grants nothing.  A call that Redis carried out before it raised is  *)
(* its action followed by this one; an EXPIRE that does is counted as a    *)
(* grant, which only makes the bounds below harder to meet.                *)
Raise(c) ==
    /\ phase[c] # "idle"
    /\ phase' = [phase EXCEPT ![c] = "idle"]
    /\ cut' = IF phase[c] = "expire" THEN cut \cup {mine[c]} ELSE cut
    /\ UNCHANGED <<now, zset, ttl, started, mine, recorded>>

(* Time passes; the key is gone at its TTL.                                *)
Tick ==
    /\ now < MaxTime
    /\ now' = now + 1
    /\ IF ttl # NoTTL /\ ttl <= now'
       THEN zset' = {} /\ ttl' = NoTTL
       ELSE UNCHANGED <<zset, ttl>>
    /\ UNCHANGED <<phase, started, mine, recorded, cut>>

LimiterNext ==
    \/ \E c \in Callers : BeginAcquire(c) \/ Count(c) \/ Record(c) \/ SetTTL(c) \/ Raise(c)
    \/ Tick

LimiterSpec == LimiterInit /\ [][LimiterNext]_limiterVars

-----------------------------------------------------------------------------
(* Properties.                                                             *)

(* The members whose call still counts against the quota.                  *)
Live(members) == Unexpired(members, now)

(* Callers that have been told there is room and have not taken it yet.    *)
Admitted == {c \in Callers : phase[c] = "record"}

LimiterTypeOK ==
    /\ now \in Nat
    /\ zset \subseteq recorded
    /\ ttl \in Nat \cup {NoTTL}
    /\ phase \in [Callers -> Phase]
    /\ started \in [Callers -> Nat]
    /\ mine \in [Callers -> Member]
    /\ recorded \in SUBSET Member /\ cut \subseteq recorded
    /\ ttl # NoTTL => zset # {} /\ now < ttl
    /\ \A m \in recorded : m.score <= now

(* Counting and adding are two round trips, so the key can exceed the      *)
(* quota, but by less than the number of concurrent calls, whatever Redis  *)
(* call raises.                                                            *)
KeyBounded ==
    Cardinality(Live(zset)) + Cardinality(Admitted)
        <= MaxRequests + Cardinality(Callers) - 1

(* The members of the calls granted, or about to be.                       *)
Granted == recorded \ cut

(* A granted call that the key loses while it still counts had not         *)
(* refreshed the TTL when the key expired: at most one per concurrent      *)
(* call.                                                                   *)
LostIsInFlight == Cardinality(Live(Granted \ zset)) <= Cardinality(Callers)

(* In any window the calls granted exceed the quota by less than twice the *)
(* number of concurrent calls, whatever Redis call raises.                 *)
GrantsBounded ==
    Cardinality(Live(Granted)) <= MaxRequests + 2 * Cardinality(Callers) - 1
=============================================================================
