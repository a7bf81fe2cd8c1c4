-------------------------- MODULE HandlerServices ---------------------------
(***************************************************************************)
(* The services whose work is done in request handlers, each by itself.    *)
(* They share no state, so exploring one service after the other, as the   *)
(* choice of service in the initial state does, loses no behaviour of any  *)
(* of them.  The tenant service is explored in two instances: its members, *)
(* and its API keys and usage, which touch none of each other's state.     *)
(***************************************************************************)
EXTENDS Sessions, Tenancy, IntegrationSync, Realtime, Idempotency, RateLimiter,
        PlatformSearch, DirectCollection, TaskCollection

CONSTANTS
    Services,       \* the services that are explored
    Founders,       \* bound: who founds the organisation whose keys are explored
    Publishers      \* bound: requests that publish to the clients of the realtime service

ASSUME HandlerServicesAssumption == Founders \subseteq People

VARIABLE service

sessionsOwn == <<users, orgMembers, sessions, issued, tokens, ssoStates, ssoBegun, revoked>>
tenancyOwn == <<org, role, apiKeys, peak, elsewhere, reported>>
syncOwn == <<syncClock, integration, collected, pushed, excused>>
realtimeOwn == <<socket, connections, casts, subscriber, errorsInRow, sse, aired, happened>>
idempotencyOwn == <<stored, claimed, handled, deduplicated, excuses>>

handlersVars ==
    <<service, request, sessionsOwn, tenancyOwn, syncOwn, realtimeOwn, idempotencyOwn, limiterVars,
      searchVars, directVars, taskVars>>

HandlersInit ==
    /\ service \in Services
    /\ SessionsInit
    /\ TenancyInit
    /\ SyncInit
    /\ RealtimeInit
    /\ IdempotencyInit
    /\ LimiterInit
    /\ SearchInit
    /\ DirectInit
    /\ TaskInit

(* A step of one service leaves the others alone.                          *)
Only(s) ==
    /\ service = s
    /\ UNCHANGED service
    /\ s # "sessions" => UNCHANGED sessionsOwn
    /\ s \notin {"members", "keys"} => UNCHANGED tenancyOwn
    /\ s # "sync" => UNCHANGED syncOwn
    /\ s # "realtime" => UNCHANGED realtimeOwn
    /\ s # "idempotency" => UNCHANGED idempotencyOwn
    /\ s # "limiter" => UNCHANGED limiterVars
    /\ s # "search" => UNCHANGED searchVars
    /\ s # "direct" => UNCHANGED directVars
    /\ s # "tasks" => UNCHANGED taskVars
    /\ s \in {"limiter", "search"} => UNCHANGED request

MembersNext ==
    \/ \E p \in Requests : MemberHandler(p)
    \/ \E user \in People : JoinElsewhere(user)

(* The organisation is made and has its owner first.                       *)
KeysNext ==
    \/ \E p \in Requests :
          \/ KeyAndUsageHandler(p)
          \/ \E user \in Founders, plan \in Plans : CreateOrg(p, user, plan)
          \/ \E reply \in Outcomes : CommitOrg(p, reply)

HandlersNext ==
    \/ Only("sessions") /\ SessionsNext
    \/ Only("members") /\ MembersNext
    \/ Only("keys") /\ KeysNext
    \/ Only("sync") /\ SyncNext
    \/ Only("realtime") /\ RealtimeNext /\ \A p \in Requests \ Publishers : ~casts'[p].on
    \/ Only("idempotency") /\ IdempotencyNext
    \/ Only("limiter") /\ LimiterNext
    \/ Only("search") /\ SearchNext
    \/ Only("direct") /\ DirectNext
    \/ Only("tasks") /\ TaskNext

HandlersSpec == HandlersInit /\ [][HandlersNext]_handlersVars

-----------------------------------------------------------------------------
HandlersTypeOK ==
    /\ service = "sessions" => SessionsTypeOK
    /\ service \in {"members", "keys"} => TenancyTypeOK
    /\ service = "sync" => SyncTypeOK
    /\ service = "realtime" => RealtimeTypeOK
    /\ service = "idempotency" => IdempotencyTypeOK
    /\ service = "limiter" => LimiterTypeOK
    /\ service = "search" => SearchTypeOK
    /\ service = "direct" => DirectTypeOK
    /\ service = "tasks" => TaskTypeOK
=============================================================================
