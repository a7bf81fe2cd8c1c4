----------------------------- MODULE MCLiveness -----------------------------
(***************************************************************************)
(* What must eventually happen: in the collection pipeline, and in the     *)
(* circuit breaker.  The initial state chooses which of the two is         *)
(* explored; they share nothing, and each keeps the fairness of its own    *)
(* specification.                                                          *)
(***************************************************************************)
EXTENDS MCMentionPipeline, CircuitBreaker

VARIABLE part

livenessVars == <<part, pipelineVars, breakerVars>>

LivenessInit ==
    /\ part \in {"pipeline", "breaker"}
    /\ PipelineInit
    /\ BreakerInit

InPipeline(Action) == part = "pipeline" /\ Action /\ UNCHANGED <<part, breakerVars>>

InBreaker(Action) == part = "breaker" /\ Action /\ UNCHANGED <<part, pipelineVars>>

LivenessNext == InPipeline(PipelineNext) \/ InBreaker(BreakerNext)

LivenessFairness ==
    /\ \A w \in Collector!Workers : WF_livenessVars(InPipeline(CollectorMoves(w)))
    /\ \A a \in Analyzers : WF_livenessVars(InPipeline(AnalyzerMoves(a)))
    /\ \A q \in Stores : WF_livenessVars(InPipeline(QueryMoves(q)))
    /\ WF_livenessVars(InBreaker(Tick))
    /\ WF_livenessVars(InBreaker(\E c \in Callers : Admit(c)))
    /\ \A c \in Callers : WF_livenessVars(InBreaker(Succeed(c) \/ Fail(c)))

LivenessSpec == LivenessInit /\ [][LivenessNext]_livenessVars /\ LivenessFairness
=============================================================================
