------------------------ MODULE CircuitBreakerProofs ------------------------
(***************************************************************************)
(* Proofs about the circuit breaker for any set of callers, any threshold  *)
(* and any recovery timeout.                                               *)
(*                                                                         *)
(* The inductive invariant is IInv below.  HalfOpenHasProbe alone is not   *)
(* inductive: a late failure in HALF_OPEN would leave the state unchanged, *)
(* and so could consume the probe, unless the failure count is known to be *)
(* at the threshold (NotClosedHasFailures); and a second call could take a *)
(* left-over permit unless the permit is known to be gone (NoPermitLeft).  *)
(***************************************************************************)
EXTENDS CircuitBreaker, TLAPS

(* The half-open permit never outlives the critical section that sets it.  *)
NoPermitLeft == half_open_permitted = FALSE

IInv ==
    /\ TypeOK
    /\ NoPermitLeft
    /\ NotClosedHasFailures
    /\ HalfOpenHasProbe

(* What recording a failure does to the count: it stays in range, and a    *)
(* count at the threshold stays at the threshold.                          *)
LEMMA CountFailureRange ==
    ASSUME failure_count \in 0 .. CountCap
    PROVE  /\ CountFailure \in 0 .. CountCap
           /\ failure_count >= FailureThreshold => CountFailure >= FailureThreshold
  BY BreakerAssumption DEF CountFailure

(* The invariant holds at first.                                           *)
LEMMA BreakerInitInv == BreakerInit => IInv
<1> SUFFICES ASSUME BreakerInit PROVE IInv
  OBVIOUS
<1>1. /\ state \in CircuitState
      /\ half_open_permitted \in BOOLEAN
      /\ calls \in [Callers -> CallState]
  BY DEF BreakerInit, CircuitState, CallState
<1>2. /\ failure_count \in 0 .. CountCap
      /\ since_failure \in 0 .. RecoveryTimeout
  BY BreakerAssumption DEF BreakerInit
<1>3. QED
  BY <1>1, <1>2 DEF BreakerInit, IInv, TypeOK, NoPermitLeft,
                    NotClosedHasFailures, HalfOpenHasProbe

(* Admit keeps the invariant.                                              *)
LEMMA AdmitInv ==
    ASSUME IInv, NEW c \in Callers, Admit(c)
    PROVE  IInv'
<1> USE DEF IInv
<1>1. CASE TimeoutElapsed
  <2>1. /\ state = "open" /\ state' = "half_open"
        /\ half_open_permitted' = FALSE
        /\ calls' = [calls EXCEPT ![c] = "probe"]
        /\ UNCHANGED <<failure_count, since_failure>>
    BY <1>1 DEF Admit, StateAtAdmission, TimeoutElapsed, NoPermitLeft
  <2>2. TypeOK'
    BY <2>1 DEF TypeOK, CircuitState, CallState
  <2>3. NotClosedHasFailures'
    BY <2>1 DEF NotClosedHasFailures
  <2>4. HalfOpenHasProbe'
    <3>1. calls'[c] = "probe"
      BY <2>1 DEF TypeOK
    <3>2. QED
      BY <3>1 DEF HalfOpenHasProbe
  <2>5. QED
    BY <2>1, <2>2, <2>3, <2>4 DEF NoPermitLeft
<1>2. CASE ~TimeoutElapsed
  <2>1. state = "closed"
    BY <1>2 DEF Admit, Rejects, StateAtAdmission, PermitAtAdmission,
                NoPermitLeft, TypeOK, CircuitState
  <2>2. /\ state' = "closed"
        /\ half_open_permitted' = FALSE
        /\ calls' = [calls EXCEPT ![c] = "normal"]
        /\ UNCHANGED <<failure_count, since_failure>>
    BY <1>2, <2>1 DEF Admit, StateAtAdmission, NoPermitLeft
  <2>3. QED
    BY <2>2 DEF TypeOK, CircuitState, CallState, NoPermitLeft,
                NotClosedHasFailures, HalfOpenHasProbe
<1>3. QED
  BY <1>1, <1>2

(* Succeed keeps the invariant.                                            *)
LEMMA SucceedInv ==
    ASSUME IInv, NEW c \in Callers, Succeed(c)
    PROVE  IInv'
<1>1. state' # "half_open"
  BY DEF Succeed
<1>2. TypeOK'
  BY BreakerAssumption DEF IInv, Succeed, TypeOK, CircuitState, CallState
<1>3. NotClosedHasFailures'
  BY DEF IInv, Succeed, NotClosedHasFailures, TypeOK, CircuitState
<1>4. QED
  BY <1>1, <1>2, <1>3 DEF IInv, Succeed, NoPermitLeft, HalfOpenHasProbe

(* A failure recorded while the circuit is not closed always opens it.     *)
LEMMA FailOpens ==
    ASSUME TypeOK, NotClosedHasFailures, NEW c \in Callers, Fail(c), state # "closed"
    PROVE  state' = "open"
  BY CountFailureRange DEF TypeOK, NotClosedHasFailures, Fail

(* Fail keeps the invariant.                                               *)
LEMMA FailInv ==
    ASSUME IInv, NEW c \in Callers, Fail(c)
    PROVE  IInv'
<1>1. state' # "half_open"
  BY FailOpens DEF IInv, Fail
<1>2. TypeOK'
  BY CountFailureRange, BreakerAssumption
     DEF IInv, Fail, TypeOK, CircuitState, CallState
<1>3. NotClosedHasFailures'
  <2>1. CASE state = "closed"
    BY <2>1 DEF IInv, Fail, NotClosedHasFailures
  <2>2. CASE state # "closed"
    BY <2>2, CountFailureRange DEF IInv, TypeOK, Fail, NotClosedHasFailures
  <2>3. QED
    BY <2>1, <2>2
<1>4. QED
  BY <1>1, <1>2, <1>3 DEF IInv, Fail, NoPermitLeft, HalfOpenHasProbe

(* Tick keeps the invariant.                                               *)
LEMMA TickInv ==
    ASSUME IInv, Tick
    PROVE  IInv'
<1>1. TypeOK'
  BY BreakerAssumption DEF IInv, Tick, TypeOK
<1>2. QED
  BY <1>1 DEF IInv, Tick, NoPermitLeft, NotClosedHasFailures, HalfOpenHasProbe

(* Every step keeps the invariant.                                         *)
LEMMA BreakerStepInv == IInv /\ [BreakerNext]_breakerVars => IInv'
<1> SUFFICES ASSUME IInv, [BreakerNext]_breakerVars
             PROVE  IInv'
  OBVIOUS
<1>1. ASSUME NEW c \in Callers, Admit(c) PROVE IInv'
  BY <1>1, AdmitInv
<1>2. ASSUME NEW c \in Callers, Succeed(c) PROVE IInv'
  BY <1>2, SucceedInv
<1>3. ASSUME NEW c \in Callers, Fail(c) PROVE IInv'
  BY <1>3, FailInv
<1>4. CASE Tick
  BY <1>4, TickInv
<1>5. CASE UNCHANGED breakerVars
  BY <1>5 DEF breakerVars, IInv, TypeOK, NoPermitLeft, NotClosedHasFailures,
              HalfOpenHasProbe
<1>6. QED
  BY <1>1, <1>2, <1>3, <1>4, <1>5 DEF BreakerNext

(* The inductive invariant holds in every behaviour of the breaker.        *)
THEOREM BreakerInvariant == BreakerSpec => []IInv
<1>1. QED
  BY BreakerInitInv, BreakerStepInv, PTL DEF BreakerSpec

(* Every variable of the breaker always has its type.                      *)
THEOREM BreakerTyping == BreakerSpec => []TypeOK
<1>1. IInv => TypeOK
  BY DEF IInv
<1>2. QED
  BY <1>1, BreakerInvariant, PTL

(* A circuit that is not closed always carries at least failure_threshold  *)
(* failures, so that any failure seen while half-open reopens it.          *)
THEOREM BreakerNotClosedHasFailures == BreakerSpec => []NotClosedHasFailures
<1>1. IInv => NotClosedHasFailures
  BY DEF IInv
<1>2. QED
  BY <1>1, BreakerInvariant, PTL

(* A half-open circuit always has a probe in flight: call() never leaves   *)
(* the breaker refusing every call with nothing left to settle it.         *)
THEOREM BreakerHalfOpenHasProbe == BreakerSpec => []HalfOpenHasProbe
<1>1. IInv => HalfOpenHasProbe
  BY DEF IInv
<1>2. QED
  BY <1>1, BreakerInvariant, PTL

(* Whatever call ends while the circuit is half-open, the probe or a late  *)
(* one, its end closes or opens the circuit.                               *)
THEOREM BreakerHalfOpenSettles == BreakerSpec => HalfOpenSettles
<1> DEFINE A == state = "half_open" /\ calls' # calls => state' # "half_open"
<1>1. IInv /\ [BreakerNext]_breakerVars => [A]_breakerVars
  <2> SUFFICES ASSUME IInv, BreakerNext, state = "half_open", calls' # calls
               PROVE  state' # "half_open"
    BY DEF breakerVars
  <2>1. ASSUME NEW c \in Callers, Admit(c) PROVE FALSE
    BY <2>1 DEF IInv, NoPermitLeft, Admit, Rejects, StateAtAdmission,
                PermitAtAdmission, TimeoutElapsed
  <2>2. ASSUME NEW c \in Callers, Succeed(c) PROVE state' # "half_open"
    BY <2>2 DEF Succeed
  <2>3. ASSUME NEW c \in Callers, Fail(c) PROVE state' # "half_open"
    BY <2>3, FailOpens DEF IInv
  <2>4. ASSUME Tick PROVE FALSE
    BY <2>4 DEF Tick
  <2>5. QED
    BY <2>1, <2>2, <2>3, <2>4 DEF BreakerNext
<1>2. QED
  BY <1>1, BreakerInvariant, PTL DEF BreakerSpec, HalfOpenSettles
=============================================================================
