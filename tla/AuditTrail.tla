----------------------------- MODULE AuditTrail -----------------------------
(***************************************************************************)
(* The audit service (services/audit_service/app/main.py): the consumer    *)
(* that stores audit events, the retention rounds that delete old rows,    *)
(* and the GDPR purge of one user in one organisation.                     *)
(*                                                                         *)
(* A round and a purge are one transaction each, of several statements.    *)
(* At READ COMMITTED every statement sees what other transactions have     *)
(* committed by then; rows a transaction updated or deleted are locked     *)
(* until it ends, and a statement that needs such a row waits.             *)
(***************************************************************************)
EXTENDS ConsumerLoop

CONSTANTS
    Orgs,
    Users,
    AuditEvents,        \* [org, user, wellFormed]: what audit:log carries
    Policies,           \* [audit, mention, report]: the policies there may be, in days
    DefaultDays,        \* DEFAULT_RETENTION_DAYS, for audit logs without a policy
    InitialRows,        \* the rows there are at first
    Rounds,             \* retention tasks: loops of replicas, administrator requests
    OrgRounds,          \* those of execute_retention, for one organisation
    Purges,             \* purge requests being served
    MaxDay,             \* bound: days
    MaxConfigured       \* bound: changes of policies

Kinds == {"audit", "mention", "report"}

NoUser == "nobody"

AuditLog == [kind : {"audit"}, org : Orgs, id : Nat, born : Int, user : Users \cup {NoUser}]

ProjectRow == [kind : Kinds \ {"audit"}, org : Orgs, id : Nat, born : Int]

(* The id of a new audit log is that of its event; the id 0 stands for     *)
(* those of the logs there are at first.                                   *)
ASSUME AuditAssumption ==
    /\ {DefaultDays, MaxDay, MaxConfigured} \subseteq Nat
    /\ AuditEvents \subseteq [org : Orgs, user : Users, wellFormed : BOOLEAN]
    /\ OrgRounds \subseteq Rounds
    /\ InitialRows \subseteq {log \in AuditLog : log.id = 0} \cup ProjectRow
    /\ NoUser \notin Users

VARIABLES
    day,            \* the clock
    rows,           \* audit logs, mentions and reports
    policy,         \* retention_policies: per organisation the one there is, in a set
    configured,     \* number of changes of policy
    members,        \* organization_members, as <<org, user>>
    anonymous,      \* users whose record has been anonymised
    round,          \* the transaction of each retention task
    purge,          \* the transaction of each purge request
    named           \* history: <<org, user, id>> a purge that committed had selected

auditVars == <<loopVars, day, rows, policy, configured, members, anonymous, round, purge, named>>

NoPolicy == {}

RowsOf(kind, org) == {row \in rows : row.kind = kind /\ row.org = org}

Idle == [at |-> "idle", day |-> 0, plan |-> << >>, left |-> {}, doomed |-> {}, inForce |-> {}]

IdlePurge == [at |-> "idle", org |-> "none", user |-> NoUser, selected |-> {}, last |-> FALSE]

AuditInit ==
    /\ LoopInit
    /\ day = 0
    /\ rows = InitialRows
    /\ policy = [org \in Orgs |-> NoPolicy]
    /\ configured = 0
    /\ members = Orgs \X Users
    /\ anonymous = {}
    /\ round = [t \in Rounds |-> Idle]
    /\ purge = [p \in Purges |-> IdlePurge]
    /\ named = {}

-----------------------------------------------------------------------------
(* The consumer.                                                           *)

PublishAudit(event) ==
    /\ Add(event)
    /\ UNCHANGED <<day, rows, policy, configured, members, anonymous, round, purge, named>>

(* INSERT and COMMIT; a field that is no number, or a failed commit, only  *)
(* leads to the finally clause.                                            *)
StoreAudit(w, id, reply) ==
    LET event == EntryAt(id)
    IN  /\ At(w, "handle", id)
        /\ rows' = IF Applied(reply) /\ event.wellFormed
                   THEN rows \cup {[kind |-> "audit", org |-> event.org, id |-> id,
                                    born |-> day, user |-> event.user]}
                   ELSE rows
        /\ Step(w, "finally")
        /\ UNCHANGED <<day, policy, configured, members, anonymous, round, purge, named>>

-----------------------------------------------------------------------------
(* Retention.                                                              *)

(* How many days a policy, or its absence, keeps rows of a kind.           *)
DaysOf(p, kind) ==
    IF p = NoPolicy
    THEN IF kind = "audit" THEN DefaultDays ELSE MaxDay + 1
    ELSE (CHOOSE days \in p : TRUE)[kind]

OlderThan(org, kind, p, now) == {row \in RowsOf(kind, org) : row.born < now - DaysOf(p, kind)}

(* Rows a transaction other than t holds a lock on.                        *)
LockedByOthers(t) ==
    UNION {round[u].doomed : u \in Rounds \ {t}}
        \cup UNION {IF purge[p].at = "commit" THEN purge[p].selected ELSE {} : p \in Purges}

(* configure_retention: one row per organisation.                          *)
ConfigureRetention(org, p) ==
    /\ configured < MaxConfigured
    /\ configured' = configured + 1
    /\ policy' = [policy EXCEPT ![org] = {p}]
    /\ round' = [t \in Rounds |->
                    [round[t] EXCEPT !.inForce = IF round[t].at = "idle" THEN @
                                                 ELSE @ \cup {<<org, {p}>>}]]
    /\ UNCHANGED <<loopVars, day, rows, members, anonymous, purge, named>>

(* SELECT of the policies: of all organisations, or of one that has one.   *)
BeginRound(t, orgs) ==
    /\ round[t].at = "idle"
    /\ round' = [round EXCEPT ![t] =
                    [at |-> "orgs", day |-> day, plan |-> policy, doomed |-> {},
                     left |-> {org \in orgs : policy[org] # NoPolicy},
                     inForce |-> {<<org, policy[org]>> : org \in Orgs}]]
    /\ UNCHANGED <<loopVars, day, rows, policy, configured, members, anonymous, purge, named>>

\* Mutant of DeleteOfOrg: mentions go by the days of audit logs.
DeleteOfOrgMixed(t, org) ==
    LET r == round[t]
        old == UNION {{row \in RowsOf(kind, org) : row.born < r.day - DaysOf(r.plan[org], "audit")} :
                         kind \in Kinds}
    IN  /\ r.at = "orgs"
        /\ org \in r.left
        /\ round' = [round EXCEPT ![t].left = @ \ {org}, ![t].doomed = @ \cup old]
        /\ UNCHANGED <<loopVars, day, rows, policy, configured, members, anonymous, purge, named>>

(* The DELETEs for one organisation: audit logs, and, by way of its        *)
(* projects, mentions and reports.                                         *)
DeleteOfOrg(t, org) ==
    LET r == round[t]
        old == UNION {OlderThan(org, kind, r.plan[org], r.day) : kind \in Kinds}
    IN  /\ r.at = "orgs"
        /\ org \in r.left
        /\ old \cap LockedByOthers(t) = {}
        /\ round' = [round EXCEPT ![t].left = @ \ {org}, ![t].doomed = @ \cup old]
        /\ UNCHANGED <<loopVars, day, rows, policy, configured, members, anonymous, purge, named>>

(* The second SELECT of the organisations with a policy.                   *)
ReadPolicyOrgs(t) ==
    /\ round[t].at = "orgs"
    /\ round[t].left = {}
    /\ t \notin OrgRounds
    /\ round' = [round EXCEPT ![t].at = "default",
                              ![t].left = {org \in Orgs : policy[org] = NoPolicy}]
    /\ UNCHANGED <<loopVars, day, rows, policy, configured, members, anonymous, purge, named>>

DeleteByDefault(t) ==
    LET r == round[t]
        old == UNION {OlderThan(org, "audit", NoPolicy, r.day) : org \in r.left}
    IN  /\ r.at = "default"
        /\ old \cap LockedByOthers(t) = {}
        /\ round' = [round EXCEPT ![t].at = "commit", ![t].left = {}, ![t].doomed = @ \cup old]
        /\ UNCHANGED <<loopVars, day, rows, policy, configured, members, anonymous, purge, named>>

(* COMMIT of the whole round; if it fails, nothing is deleted.             *)
CommitRound(t, reply) ==
    /\ \/ round[t].at = "commit"
       \/ round[t].at = "orgs" /\ round[t].left = {} /\ t \in OrgRounds
    /\ rows' = IF Applied(reply) THEN rows \ round[t].doomed ELSE rows
    /\ round' = [round EXCEPT ![t] = Idle]
    /\ UNCHANGED <<loopVars, day, policy, configured, members, anonymous, purge, named>>

-----------------------------------------------------------------------------
(* gdpr_purge.                                                             *)

(* SELECT of the user's audit logs in the organisation.                    *)
BeginPurge(p, org, user) ==
    /\ purge[p].at = "idle"
    /\ user \notin anonymous
    /\ purge' = [purge EXCEPT ![p] =
                    [IdlePurge EXCEPT !.at = "flush", !.org = org, !.user = user,
                        !.selected = {row \in RowsOf("audit", org) : row.user = user}]]
    /\ UNCHANGED <<loopVars, day, rows, policy, configured, members, anonymous, round, named>>

(* The UPDATEs of the selected logs, the DELETE of the membership and the  *)
(* count of the others.  A selected log that is gone makes the flush fail. *)
FlushPurge(p) ==
    LET u == purge[p]
    IN  /\ u.at = "flush"
        /\ u.selected \cap UNION {round[t].doomed : t \in Rounds} = {}
        /\ \A q \in Purges \ {p} : purge[q].at = "commit"
                                      => purge[q].selected \cap u.selected = {}
        /\ purge' = IF u.selected \subseteq rows
                    THEN [purge EXCEPT ![p].at = "commit",
                            ![p].last = \A m \in members : m[2] = u.user => m[1] = u.org]
                    ELSE [purge EXCEPT ![p] = IdlePurge]
        /\ UNCHANGED <<loopVars, day, rows, policy, configured, members, anonymous, round, named>>

\* Mutant of CommitPurge: the logs keep their user.
CommitPurgeKeeping(p, reply) ==
    LET u == purge[p]
    IN  /\ u.at = "commit"
        /\ members' = IF Applied(reply) THEN members \ {<<u.org, u.user>>} ELSE members
        /\ anonymous' = IF Applied(reply) /\ u.last THEN anonymous \cup {u.user} ELSE anonymous
        /\ named' = IF Applied(reply)
                    THEN named \cup {<<u.org, u.user, row.id>> : row \in u.selected} ELSE named
        /\ purge' = [purge EXCEPT ![p] = IdlePurge]
        /\ UNCHANGED <<loopVars, day, rows, policy, configured, round>>

CommitPurge(p, reply) ==
    LET u == purge[p]
    IN  /\ u.at = "commit"
        /\ IF Applied(reply)
           THEN /\ rows' = (rows \ u.selected)
                              \cup {[row EXCEPT !.user = NoUser] : row \in u.selected}
                /\ members' = members \ {<<u.org, u.user>>}
                /\ anonymous' = IF u.last THEN anonymous \cup {u.user} ELSE anonymous
                /\ named' = named \cup {<<u.org, u.user, row.id>> : row \in u.selected}
           ELSE UNCHANGED <<rows, members, anonymous, named>>
        /\ purge' = [purge EXCEPT ![p] = IdlePurge]
        /\ UNCHANGED <<loopVars, day, policy, configured, round>>

-----------------------------------------------------------------------------
NextDay ==
    /\ day < MaxDay
    /\ day' = day + 1
    /\ UNCHANGED <<loopVars, rows, policy, configured, members, anonymous, round, purge, named>>

AuditUnchanged == UNCHANGED <<day, rows, policy, configured, members, anonymous, round, purge, named>>

AuditConsumer(w) ==
    \E reply \in Replies :
        \/ Consume(w, reply) /\ AuditUnchanged
        \/ \E id \in todo[w] :
              \/ StoreAudit(w, id, reply)
              \/ AckFinally(w, id, reply) /\ AuditUnchanged

Retention(t) ==
    \/ t \notin OrgRounds /\ BeginRound(t, Orgs)
    \/ \E org \in Orgs : t \in OrgRounds /\ policy[org] # NoPolicy /\ BeginRound(t, {org})
    \/ \E org \in Orgs : DeleteOfOrg(t, org)
    \/ ReadPolicyOrgs(t)
    \/ DeleteByDefault(t)
    \/ \E reply \in Replies : CommitRound(t, reply)

Purging(p) ==
    \/ \E org \in Orgs, user \in Users : BeginPurge(p, org, user)
    \/ FlushPurge(p)
    \/ \E reply \in Replies : CommitPurge(p, reply)

AuditNext ==
    \/ \E event \in AuditEvents : PublishAudit(event)
    \/ \E w \in Workers : AuditConsumer(w)
    \/ \E w \in Workers : CrashLoop(w) /\ AuditUnchanged
    \/ \E org \in Orgs, p \in Policies : ConfigureRetention(org, p)
    \/ \E t \in Rounds : Retention(t)
    \/ \E p \in Purges : Purging(p)
    \/ NextDay

AuditSpec == AuditInit /\ [][AuditNext]_auditVars

-----------------------------------------------------------------------------
AuditTypeOK ==
    /\ LoopTypeOK(AuditEvents, {})
    /\ day \in 0 .. MaxDay
    /\ rows \subseteq AuditLog \cup ProjectRow
    /\ policy \in [Orgs -> {{p} : p \in Policies} \cup {NoPolicy}]
    /\ members \subseteq Orgs \X Users
    /\ anonymous \subseteq Users
    /\ \A t \in Rounds : round[t].at \in {"idle", "orgs", "default", "commit"}
    /\ \A p \in Purges : purge[p].at \in {"idle", "flush", "commit"}

(* Whatever is configured while a round is under way, each row it deletes  *)
(* is older than a policy of its organisation, or the lack of one, that    *)
(* was in force during the round allows; without a policy mentions and     *)
(* reports are kept.                                                       *)
DeletedWasExpired ==
    \A t \in Rounds : \A row \in round[t].doomed :
        \E pair \in round[t].inForce :
            pair[1] = row.org /\ row.born < round[t].day - DaysOf(pair[2], row.kind)

(* Once a purge has committed, the audit logs it found name the user no    *)
(* more, whatever retention and other purges did to them meanwhile.        *)
PurgedIsForgotten ==
    \A n \in named : \A row \in RowsOf("audit", n[1]) : row.id = n[3] => row.user # n[2]
=============================================================================
