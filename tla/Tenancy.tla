------------------------------- MODULE Tenancy ------------------------------
(***************************************************************************)
(* The tenant service (services/tenant_service/app/main.py) and one        *)
(* organisation: its plan, its members and their roles, its API keys, and  *)
(* the count of the mentions it has used.                                  *)
(*                                                                         *)
(* Every handler reads first and writes last, in one commit: the reads are *)
(* one step here, the commit another, and nothing locks the rows between   *)
(* them.  The identity service adds members too, without these checks.     *)
(***************************************************************************)
EXTENDS Handlers

CONSTANTS
    People,         \* users with an account
    Plans,          \* [maxUsers, maxProjects, quota]: plans, defaults and overrides
    RolesGiven,     \* the roles that requests hand out
    MaxKeys,        \* bound: API keys made
    MaxReported     \* bound: mentions reported, members that join elsewhere

OrgRoles == {"owner", "admin", "manager", "analyst", "viewer"}

ASSUME TenancyAssumption ==
    /\ RolesGiven \subseteq OrgRoles
    /\ {MaxKeys, MaxReported} \subseteq Nat
    /\ \A plan \in Plans : plan.maxUsers \in Nat

VARIABLES
    org,            \* the organisation's row, in a set: [plan, used, active]
    role,           \* organization_members: user -> role
    apiKeys,        \* [id, active, expires, lastUsed]; expires: it has an expires_at
    peak,           \* history: the largest maxUsers there has been
    elsewhere,      \* history: members the identity service has added
    reported        \* history: mentions whose increment has begun

tenancyVars == <<org, role, apiKeys, peak, elsewhere, reported, request>>

Members == DOMAIN role
Owners == {user \in Members : role[user] = "owner"}

NoMembers == [user \in {} |-> "viewer"]

TenancyInit ==
    /\ org = {}
    /\ role = NoMembers
    /\ apiKeys = {}
    /\ peak = 0
    /\ elsewhere = 0
    /\ reported = 0
    /\ NoRequests

(* _require_org_role.                                                      *)
HasRole(user, roles) == user \in Members /\ role[user] \in roles

Managing == {"owner", "admin"}
Inviting == {"owner", "admin", "manager"}

Histories == <<peak, elsewhere, reported>>

-----------------------------------------------------------------------------
(* The organisation.                                                       *)

(* create_org takes the defaults of a plan, which allow for its owner.     *)
CreateOrg(p, user, plan) ==
    /\ org = {}
    /\ plan.maxUsers > 0
    /\ Begin(p, [at |-> "create", user |-> user, plan |-> plan])
    /\ UNCHANGED <<org, role, apiKeys, Histories>>

(* INSERT of organisation and owner; a second violates the unique slug.    *)
CommitOrg(p, reply) ==
    LET r == request[p]
    IN  /\ Reached(p, "create")
        /\ IF org = {} /\ Applied(reply)
           THEN /\ org' = {[plan |-> r.plan, used |-> 0, active |-> TRUE]}
                /\ role' = [user \in {r.user} |-> "owner"]
                /\ peak' = r.plan.maxUsers
           ELSE UNCHANGED <<org, role, peak>>
        /\ Answered(p)
        /\ UNCHANGED <<apiKeys, elsewhere, reported>>

(* update_org and update_plan write columns of the row and nothing else.   *)
UpdatePlan(p, user, plan, reply) ==
    /\ Reached(p, "free")
    /\ HasRole(user, {"owner"})
    /\ org' = IF Applied(reply) THEN {[row EXCEPT !.plan = plan] : row \in org} ELSE org
    /\ peak' = IF Applied(reply) /\ plan.maxUsers > peak THEN plan.maxUsers ELSE peak
    /\ UNCHANGED <<role, apiKeys, elsewhere, reported, request>>

-----------------------------------------------------------------------------
(* Members.                                                                *)

\* Mutant of InviteMember: one member more than the plan allows.
InviteMemberOverLimit(p, by, user, as) ==
    /\ \E row \in org : Cardinality(Members) <= row.plan.maxUsers
    /\ HasRole(by, Inviting)
    /\ user \notin Members
    /\ Begin(p, [at |-> "invite", user |-> user, as |-> as])
    /\ UNCHANGED <<org, role, apiKeys, Histories>>

(* invite_member, up to the commit.                                        *)
InviteMember(p, by, user, as) ==
    /\ \E row \in org : Cardinality(Members) < row.plan.maxUsers
    /\ HasRole(by, Inviting)
    /\ as = "owner" => HasRole(by, {"owner"})
    /\ user \notin Members
    /\ Begin(p, [at |-> "invite", user |-> user, as |-> as])
    /\ UNCHANGED <<org, role, apiKeys, Histories>>

AddMember(user, as) == role' = [u \in Members \cup {user} |-> IF u = user THEN as ELSE role[u]]

CommitInvite(p, reply) ==
    LET r == request[p]
    IN  /\ Reached(p, "invite")
        /\ IF Applied(reply) /\ r.user \notin Members THEN AddMember(r.user, r.as)
           ELSE UNCHANGED role
        /\ Answered(p)
        /\ UNCHANGED <<org, apiKeys, Histories>>

(* A registration for the organisation, or an SSO login.                   *)
JoinElsewhere(user) ==
    /\ elsewhere < MaxReported
    /\ org # {}
    /\ user \notin Members
    /\ AddMember(user, "viewer")
    /\ elsewhere' = elsewhere + 1
    /\ UNCHANGED <<org, apiKeys, peak, reported, request>>

(* Not the last owner.                                                     *)
MayLoseOwner(user) == user \in Owners => Cardinality(Owners) > 1

UpdateMemberRole(p, by, user, as) ==
    /\ HasRole(by, Managing)
    /\ as = "owner" => HasRole(by, {"owner"})
    /\ user \in Members
    /\ as # "owner" => MayLoseOwner(user)
    /\ Begin(p, [at |-> "role", user |-> user, as |-> as])
    /\ UNCHANGED <<org, role, apiKeys, Histories>>

(* An UPDATE that finds no row ends in a 500.                              *)
CommitRole(p, reply) ==
    LET r == request[p]
    IN  /\ Reached(p, "role")
        /\ role' = IF Applied(reply) /\ r.user \in Members
                   THEN [role EXCEPT ![r.user] = r.as] ELSE role
        /\ Answered(p)
        /\ UNCHANGED <<org, apiKeys, Histories>>

RemoveMember(p, by, user) ==
    /\ by # user => HasRole(by, Managing)
    /\ user \in Members
    /\ MayLoseOwner(user)
    /\ Begin(p, [at |-> "remove", user |-> user])
    /\ UNCHANGED <<org, role, apiKeys, Histories>>

CommitRemoval(p, reply) ==
    /\ Reached(p, "remove")
    /\ role' = IF Applied(reply) THEN [u \in Members \ {request[p].user} |-> role[u]] ELSE role
    /\ Answered(p)
    /\ UNCHANGED <<org, apiKeys, Histories>>

-----------------------------------------------------------------------------
(* API keys.                                                               *)

CreateApiKey(p, user, expires, reply) ==
    /\ Reached(p, "free")
    /\ org # {}
    /\ HasRole(user, Managing)
    /\ Cardinality(apiKeys) < MaxKeys
    /\ apiKeys' = IF Applied(reply)
                  THEN apiKeys \cup {[id |-> Cardinality(apiKeys) + 1, active |-> TRUE,
                                      expires |-> expires, lastUsed |-> FALSE]}
                  ELSE apiKeys
    /\ UNCHANGED <<org, role, Histories, request>>

RevokeApiKey(p, user, key, reply) ==
    /\ Reached(p, "free")
    /\ HasRole(user, Managing)
    /\ key \in apiKeys
    /\ apiKeys' = IF Applied(reply) THEN (apiKeys \ {key}) \cup {[key EXCEPT !.active = FALSE]}
                  ELSE apiKeys
    /\ UNCHANGED <<org, role, Histories, request>>

(* validate_api_key: the key as it was read, and the UPDATE of one column. *)
(* An expires_at comes back without its zone, and comparing it with a      *)
(* time that has one raises.                                               *)
ValidateApiKey(p, key) ==
    /\ key \in apiKeys
    /\ key.active
    /\ ~key.expires
    /\ Begin(p, [at |-> "validate", id |-> key.id])
    /\ UNCHANGED <<org, role, apiKeys, Histories>>

CommitLastUsed(p, reply) ==
    /\ Reached(p, "validate")
    /\ apiKeys' = IF Applied(reply)
                  THEN {IF key.id = request[p].id THEN [key EXCEPT !.lastUsed = TRUE] ELSE key :
                           key \in apiKeys}
                  ELSE apiKeys
    /\ Answered(p)
    /\ UNCHANGED <<org, role, Histories>>

-----------------------------------------------------------------------------
(* Usage.                                                                  *)

IncrementMentionsUsed(p, count) ==
    /\ reported + count <= MaxReported
    /\ \E row \in org : Begin(p, [at |-> "used", used |-> row.used + count])
    /\ reported' = reported + count
    /\ UNCHANGED <<org, role, apiKeys, peak, elsewhere>>

(* The sum computed before the commit is what is written.                  *)
CommitUsed(p, reply) ==
    /\ Reached(p, "used")
    /\ org' = IF Applied(reply) THEN {[row EXCEPT !.used = request[p].used] : row \in org} ELSE org
    /\ Answered(p)
    /\ UNCHANGED <<role, apiKeys, Histories>>

ResetMentionsUsed(p, user, reply) ==
    /\ Reached(p, "free")
    /\ HasRole(user, {"owner"})
    /\ org' = IF Applied(reply) THEN {[row EXCEPT !.used = 0] : row \in org} ELSE org
    /\ UNCHANGED <<role, apiKeys, Histories, request>>

-----------------------------------------------------------------------------
MemberHandler(p) ==
    \/ \E user \in People, plan \in Plans : CreateOrg(p, user, plan)
    \/ \E by, user \in People :
          \/ \E as \in RolesGiven : InviteMember(p, by, user, as) \/ UpdateMemberRole(p, by, user, as)
          \/ RemoveMember(p, by, user)
    \/ \E reply \in Outcomes :
          \/ CommitOrg(p, reply)
          \/ CommitInvite(p, reply)
          \/ CommitRole(p, reply)
          \/ CommitRemoval(p, reply)
          \/ \E user \in People, plan \in Plans : UpdatePlan(p, user, plan, reply)

KeyAndUsageHandler(p) ==
    \/ \E key \in apiKeys : ValidateApiKey(p, key)
    \/ \E count \in 1 .. MaxReported : IncrementMentionsUsed(p, count)
    \/ \E reply \in Outcomes :
          \/ CommitLastUsed(p, reply)
          \/ CommitUsed(p, reply)
          \/ \E user \in People :
                \/ \E expires \in BOOLEAN : CreateApiKey(p, user, expires, reply)
                \/ \E key \in apiKeys : RevokeApiKey(p, user, key, reply)
                \/ ResetMentionsUsed(p, user, reply)

TenancyNext ==
    \/ \E p \in Requests : MemberHandler(p) \/ KeyAndUsageHandler(p)
    \/ \E user \in People : JoinElsewhere(user)

TenancySpec == TenancyInit /\ [][TenancyNext]_tenancyVars

-----------------------------------------------------------------------------
TenancyTypeOK ==
    /\ Cardinality(org) <= 1
    /\ Members \subseteq People
    /\ \A user \in Members : role[user] \in OrgRoles
    /\ \A key \in apiKeys :
          key.id \in 1 .. MaxKeys /\ {key.active, key.expires, key.lastUsed} \subseteq BOOLEAN

(* What the limits of a plan are worth when requests race: beyond the      *)
(* largest limit there has been, an organisation has at most one member    *)
(* for every other request in flight, and those that join by themselves;   *)
(* and it is never charged for more mentions than were reported.           *)
LimitsHold ==
    /\ Cardinality(Members) <= peak + elsewhere + Cardinality(Requests) - 1
    /\ \A row \in org : row.used <= reported
=============================================================================
