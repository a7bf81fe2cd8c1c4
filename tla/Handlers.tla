------------------------------ MODULE Handlers ------------------------------
(***************************************************************************)
(* HTTP requests that the FastAPI services serve at the same time.  A      *)
(* handler is a coroutine: it runs alone from one await to the next, and   *)
(* between two awaits of one request any step of the others may happen,    *)
(* whether they are served by the same replica or by another one.          *)
(*                                                                         *)
(* Once a handler has begun it goes from one round trip to Redis or to the *)
(* database to the next; one that raises ends the request with a 500, and  *)
(* what the handler committed before remains.                              *)
(***************************************************************************)
EXTENDS StreamGroup, FiniteSets

CONSTANTS
    Requests,       \* requests being served at the same time
    Outcomes        \* which outcomes of a round trip may happen

ASSUME HandlersAssumption ==
    /\ IsFiniteSet(Requests) /\ Requests # {}
    /\ "ok" \in Outcomes /\ Outcomes \subseteq BusReply

VARIABLE request    \* each request: at is the round trip it has reached

Free == [at |-> "free"]

NoRequests == request = [p \in Requests |-> Free]

Reached(p, where) == request[p].at = where

(* The handler is called, and has passed its checks.                       *)
Begin(p, task) == Reached(p, "free") /\ request' = [request EXCEPT ![p] = task]

(* The answer, good or bad.                                                *)
Answered(p) == request' = [request EXCEPT ![p] = Free]

(* The handler's next await, or a 500 if this round trip raised.           *)
Proceed(p, where, reply) ==
    IF Raised(reply) THEN Answered(p) ELSE request' = [request EXCEPT ![p].at = where]
=============================================================================
