--------------------------- MODULE CircuitBreaker ---------------------------
(***************************************************************************)
(* The asynchronous circuit breaker of shared/circuit_breaker.py, shared   *)
(* by the concurrent calls of one process to one dependency.               *)
(*                                                                         *)
(* CircuitBreaker.call takes the lock twice: once to decide whether the    *)
(* call is admitted, once to record its outcome.  The awaited function     *)
(* runs between the two critical sections with the lock released, so each  *)
(* critical section is one action and calls of other tasks interleave with *)
(* the one in flight.  A call that is refused (CircuitBreakerError)        *)
(* changes nothing: Rejects says when that happens.                        *)
(*                                                                         *)
(* Time: only "recovery_timeout elapsed since last_failure_time" is ever   *)
(* tested, so since_failure counts ticks since the last recorded failure   *)
(* and stops at RecoveryTimeout.  failure_count is only compared with the  *)
(* threshold, so it stops at CountCap.                                     *)
(***************************************************************************)
EXTENDS Integers

CONSTANTS
    Callers,            \* the tasks that call through the breaker
    FailureThreshold,   \* failure_threshold
    RecoveryTimeout,    \* recovery_timeout, in ticks
    CountCap            \* bound of failure_count

ASSUME BreakerAssumption ==
    /\ FailureThreshold \in Nat \ {0}
    /\ RecoveryTimeout \in Nat \ {0}
    /\ CountCap \in Nat
    /\ CountCap >= FailureThreshold

VARIABLES
    state,                \* self.state
    failure_count,        \* self.failure_count
    since_failure,        \* time.monotonic() - self.last_failure_time
    half_open_permitted,  \* self._half_open_permitted
    calls                 \* where each caller is in call()

breakerVars == <<state, failure_count, since_failure, half_open_permitted, calls>>

CircuitState == {"closed", "open", "half_open"}

(* "probe" marks a call admitted by taking the half-open permit; the code  *)
(* runs it exactly like a "normal" one.                                    *)
CallState == {"idle", "normal", "probe"}

BreakerInit ==
    /\ state = "closed"
    /\ failure_count = 0
    /\ since_failure = RecoveryTimeout
    /\ half_open_permitted = FALSE
    /\ calls = [c \in Callers |-> "idle"]

-----------------------------------------------------------------------------
(* First critical section.                                                 *)

TimeoutElapsed == state = "open" /\ since_failure >= RecoveryTimeout

StateAtAdmission == IF TimeoutElapsed THEN "half_open" ELSE state

PermitAtAdmission == TimeoutElapsed \/ half_open_permitted

Rejects ==
    \/ StateAtAdmission = "open"
    \/ StateAtAdmission = "half_open" /\ ~PermitAtAdmission

\* Mutant of Admit: the permit is taken when the circuit turns half-open
\* but the call that turned it is itself refused.
AdmitNextCallInstead(c) ==
    /\ calls[c] = "idle"
    /\ ~Rejects
    /\ state' = StateAtAdmission
    /\ half_open_permitted' = FALSE
    /\ calls' = [calls EXCEPT ![c] = IF TimeoutElapsed THEN "idle" ELSE "normal"]
    /\ UNCHANGED <<failure_count, since_failure>>

Admit(c) ==
    /\ calls[c] = "idle"
    /\ ~Rejects
    /\ state' = StateAtAdmission
    /\ half_open_permitted' = (half_open_permitted /\ StateAtAdmission # "half_open")
    /\ calls' = [calls EXCEPT ![c] = IF StateAtAdmission = "half_open"
                                     THEN "probe" ELSE "normal"]
    /\ UNCHANGED <<failure_count, since_failure>>

(* Second critical section, one action per outcome of the awaited call.    *)

\* Mutant of Succeed: a success never closes a half-open circuit.
SucceedWithoutClosing(c) ==
    /\ calls[c] # "idle"
    /\ calls' = [calls EXCEPT ![c] = "idle"]
    /\ failure_count' = IF state = "closed" THEN 0 ELSE failure_count
    /\ UNCHANGED <<state, since_failure, half_open_permitted>>

Succeed(c) ==
    /\ calls[c] # "idle"
    /\ calls' = [calls EXCEPT ![c] = "idle"]
    /\ state' = IF state = "half_open" THEN "closed" ELSE state
    /\ failure_count' = IF state = "open" THEN failure_count ELSE 0
    /\ UNCHANGED <<since_failure, half_open_permitted>>

CountFailure == IF failure_count < CountCap THEN failure_count + 1 ELSE CountCap

Fail(c) ==
    /\ calls[c] # "idle"
    /\ calls' = [calls EXCEPT ![c] = "idle"]
    /\ failure_count' = CountFailure
    /\ since_failure' = 0
    /\ state' = IF failure_count' >= FailureThreshold THEN "open" ELSE state
    /\ UNCHANGED half_open_permitted

Tick ==
    /\ since_failure < RecoveryTimeout
    /\ since_failure' = since_failure + 1
    /\ UNCHANGED <<state, failure_count, half_open_permitted, calls>>

BreakerNext ==
    \/ \E c \in Callers : Admit(c) \/ Succeed(c) \/ Fail(c)
    \/ Tick

BreakerSpec == BreakerInit /\ [][BreakerNext]_breakerVars

(* Time passes, some task keeps trying to call, and every awaited call     *)
(* returns or raises: the HTTP clients in use all have timeouts.           *)
BreakerFairness ==
    /\ WF_breakerVars(Tick)
    /\ WF_breakerVars(\E c \in Callers : Admit(c))
    /\ \A c \in Callers : WF_breakerVars(Succeed(c) \/ Fail(c))

FairBreakerSpec == BreakerSpec /\ BreakerFairness

-----------------------------------------------------------------------------
(* Properties.                                                             *)

(* Every variable keeps its type.                                          *)
TypeOK ==
    /\ state \in CircuitState
    /\ failure_count \in 0 .. CountCap
    /\ since_failure \in 0 .. RecoveryTimeout
    /\ half_open_permitted \in BOOLEAN
    /\ calls \in [Callers -> CallState]

(* Whenever the circuit is not closed the recorded failures reach the      *)
(* threshold: this is what makes any failure seen in HALF_OPEN reopen the  *)
(* circuit, although call() has no branch for a failed probe.              *)
NotClosedHasFailures ==
    state # "closed" => failure_count >= FailureThreshold

(* A half-open circuit, which refuses every new call, always has a probe   *)
(* in flight whose end will settle it: otherwise it would refuse forever.  *)
(* Late calls admitted before the circuit opened may end at any moment.    *)
HalfOpenHasProbe ==
    state = "half_open" => \E c \in Callers : calls[c] = "probe"

(* Any call that ends while the circuit is half-open settles it: a success *)
(* closes it and a failure opens it, whether or not the call is the probe. *)
HalfOpenSettles ==
    [][state = "half_open" /\ calls' # calls => state' # "half_open"]_breakerVars

(* Once the dependency stops failing the circuit ends up closed for good.  *)
RecoversWithDependency ==
    <>[][\A c \in Callers : ~Fail(c)]_breakerVars => <>[](state = "closed")
=============================================================================
