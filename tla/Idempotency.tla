---------------------------- MODULE Idempotency -----------------------------
(***************************************************************************)
(* Two utilities that let a repeated request be processed once: the        *)
(* middleware of shared/idempotency.py, which looks a key up, calls the    *)
(* handler and stores the response, and shared/request_dedup.py, which     *)
(* claims the key with SET NX before the handler and stores the status     *)
(* after it.  One key.                                                     *)
(***************************************************************************)
EXTENDS Handlers

CONSTANT MaxHandled     \* bound: handler calls per utility, expiries, spoilt entries

ASSUME IdempotencyAssumption == MaxHandled \in Nat

VARIABLES
    stored,         \* the Redis key of the middleware: "none", "response", "corrupt"
    claimed,        \* the Redis key of request_dedup: "none", "pending", "status"
    handled,        \* history: handler calls behind the middleware
    deduplicated,   \* history: handler calls behind request_dedup
    excuses         \* history: [stored, raced, claimed]: repeated calls there was a
                    \* reason for; behind the middleware: a fault, a race

idempotencyVars == <<stored, claimed, handled, deduplicated, excuses, request>>

IdempotencyInit ==
    /\ stored = "none"
    /\ claimed = "none"
    /\ handled = 0
    /\ deduplicated = 0
    /\ excuses = [stored |-> 0, raced |-> 0, claimed |-> 0]
    /\ NoRequests

Middleware == <<stored, handled>>
Dedup == <<claimed, deduplicated>>

Excuse(key, yes) == excuses' = IF yes THEN [excuses EXCEPT ![key] = @ + 1] ELSE excuses

-----------------------------------------------------------------------------
(* IdempotencyMiddleware.dispatch.                                         *)

BeingHandled(at) == \E p \in Requests : request[p].at \in at

(* The GET.  Without Redis the request passes through; with a response in  *)
(* the key it is answered with it, or with 422 if the body is another one, *)
(* and no handler runs.  Nothing tells the request that another one with   *)
(* its key is being processed.                                             *)
LookUp(p, reply) ==
    LET faulty == Raised(reply) \/ stored = "corrupt"
    IN  /\ Reached(p, "free")
        /\ handled < MaxHandled
        /\ Raised(reply) \/ stored # "response"
        /\ stored = "corrupt" => excuses.stored < MaxHandled
        /\ Begin(p, [at |-> IF Raised(reply) THEN "pass"
                            ELSE IF stored = "corrupt" THEN "spoilt" ELSE "process"])
        /\ Excuse(IF faulty THEN "stored" ELSE "raced",
                  faulty \/ BeingHandled({"process", "store"}))
        /\ UNCHANGED <<Middleware, Dedup>>

(* The DELETE of an entry that does not parse: it may hit another one by   *)
(* now, and nothing catches its error.                                     *)
DeleteSpoilt(p, reply) ==
    /\ Reached(p, "spoilt")
    /\ stored' = IF Applied(reply) THEN "none" ELSE stored
    /\ Proceed(p, "process", reply)
    /\ UNCHANGED <<handled, Dedup, excuses>>

(* call_next.  A handler that raises leaves nothing to store.              *)
CallNext(p, responds) ==
    /\ request[p].at \in {"pass", "process"}
    /\ handled < MaxHandled
    /\ handled' = handled + 1
    /\ Excuse("stored", ~responds)
    /\ IF responds /\ Reached(p, "process") THEN request' = [request EXCEPT ![p].at = "store"]
       ELSE Answered(p)
    /\ UNCHANGED <<stored, Dedup>>

\* Mutant of StoreResponse: what the handler answered is not kept.
StoreResponseNever(p, reply) ==
    /\ Reached(p, "store")
    /\ Excuse("stored", Raised(reply))
    /\ Answered(p)
    /\ UNCHANGED <<stored, handled, Dedup>>

(* SETEX; an error is logged.                                              *)
StoreResponse(p, reply) ==
    /\ Reached(p, "store")
    /\ stored' = IF Applied(reply) THEN "response" ELSE stored
    /\ Excuse("stored", Raised(reply))
    /\ Answered(p)
    /\ UNCHANGED <<handled, Dedup>>

(* The key expires, or something else writes it; what is spoilt counts     *)
(* when it is looked up.                                                   *)
LoseStored(next) ==
    /\ excuses.stored < MaxHandled
    /\ stored = "response"
    /\ next \in {"none", "corrupt"}
    /\ stored' = next
    /\ Excuse("stored", next = "none")
    /\ UNCHANGED <<handled, Dedup, request>>

-----------------------------------------------------------------------------
(* check_idempotency and store_response_status around a handler.           *)

(* SET NX.  An error lets the request proceed.                             *)
ClaimKey(p, reply) ==
    /\ Reached(p, "free")
    /\ deduplicated < MaxHandled
    /\ claimed' = IF Applied(reply) /\ claimed = "none" THEN "pending" ELSE claimed
    /\ Excuse("claimed", Raised(reply))
    /\ IF Raised(reply) \/ claimed = "none" THEN Begin(p, [at |-> "handler"])
       ELSE Begin(p, [at |-> "seen"])
    /\ UNCHANGED <<deduplicated, Middleware>>

(* The GET of a key that is taken: the status, or 409 while it is pending  *)
(* or gone; an error lets the request proceed.                             *)
ReadClaim(p, reply) ==
    /\ Reached(p, "seen")
    /\ Excuse("claimed", Raised(reply))
    /\ IF Raised(reply) THEN request' = [request EXCEPT ![p].at = "handler"] ELSE Answered(p)
    /\ UNCHANGED <<Dedup, Middleware>>

(* A handler that raises leaves the key pending.                           *)
RunHandler(p, responds) ==
    /\ Reached(p, "handler")
    /\ deduplicated < MaxHandled
    /\ deduplicated' = deduplicated + 1
    /\ IF responds THEN request' = [request EXCEPT ![p].at = "status"] ELSE Answered(p)
    /\ UNCHANGED <<claimed, Middleware, excuses>>

StoreStatus(p, reply) ==
    /\ Reached(p, "status")
    /\ claimed' = IF Applied(reply) THEN "status" ELSE claimed
    /\ Answered(p)
    /\ UNCHANGED <<deduplicated, Middleware, excuses>>

ExpireClaim ==
    /\ excuses.claimed < MaxHandled
    /\ claimed # "none"
    /\ claimed' = "none"
    /\ Excuse("claimed", TRUE)
    /\ UNCHANGED <<deduplicated, Middleware, request>>

-----------------------------------------------------------------------------
Repeatable(p) ==
    \/ \E responds \in BOOLEAN : CallNext(p, responds) \/ RunHandler(p, responds)
    \/ \E reply \in Outcomes :
          \/ LookUp(p, reply)
          \/ DeleteSpoilt(p, reply)
          \/ StoreResponse(p, reply)
          \/ ClaimKey(p, reply)
          \/ ReadClaim(p, reply)
          \/ StoreStatus(p, reply)

IdempotencyNext ==
    \/ \E p \in Requests : Repeatable(p)
    \/ \E next \in {"none", "corrupt"} : LoseStored(next)
    \/ ExpireClaim

IdempotencySpec == IdempotencyInit /\ [][IdempotencyNext]_idempotencyVars

-----------------------------------------------------------------------------
IdempotencyTypeOK ==
    /\ stored \in {"none", "response", "corrupt"}
    /\ claimed \in {"none", "pending", "status"}

(* "processed at most once" (shared/idempotency.py:4-6): the handler       *)
(* behind the middleware runs once for a key, and again only after a fault *)
(* of Redis, an entry that expired or was spoilt, or a handler that        *)
(* raised.                                                                 *)
ProcessedOnce == handled <= 1 + excuses.stored

(* A key is worked on once, and again only after a fault, which for        *)
(* request_dedup is an error of Redis or an expiry, or, behind the         *)
(* middleware, for a request that came while another one was being         *)
(* processed: ProcessedOnce counts on there being none.                    *)
RepeatedForAReason ==
    /\ handled <= 1 + excuses.stored + excuses.raced
    /\ deduplicated <= 1 + excuses.claimed
=============================================================================
