---------------------------- MODULE MCQualityPath ----------------------------
(***************************************************************************)
(* Small instances of QualityPath: families of policies around the default *)
(* policy (DEFAULT_EXPERT_QUALITY_EXECUTION_POLICY).                       *)
(***************************************************************************)
EXTENDS QualityPath

DefaultPolicy ==
  [include                        |-> Stages,
   enforceTrustGate               |-> TRUE,
   enforceGoalGate                |-> TRUE,
   minTrustScore                  |-> 1,
   minGoalCompletion              |-> Top,
   continueOn                     |-> {},
   maxStageRetries                |-> 0,
   circuitBreakerFailureThreshold |-> 2,
   rateLimitMaxExecutions         |-> 0,
   rateLimitWindow                |-> 2]

\* Every choice of gates and of what the path continues on, with and without a
\* retry.
GatePolicies ==
  {[DefaultPolicy EXCEPT !.include = include, !.enforceTrustGate = trustGate,
                         !.enforceGoalGate = goalGate, !.continueOn = continue,
                         !.maxStageRetries = retries] :
     include \in {Stages, {"reviewer", "verifier"}},
     trustGate \in BOOLEAN, goalGate \in BOOLEAN, retries \in 0 .. 1,
     continue \in SUBSET {"trust_gate", "goal_gate", "stage_failure", "stage_timeout"}}

\* Retries, breaker thresholds and rate limits, with the gates out of the way.
ResiliencePolicies ==
  {[DefaultPolicy EXCEPT !.enforceTrustGate = FALSE, !.enforceGoalGate = FALSE,
                         !.continueOn = continue, !.maxStageRetries = retries,
                         !.circuitBreakerFailureThreshold = threshold,
                         !.rateLimitMaxExecutions = max] :
     continue \in SUBSET {"stage_failure", "stage_timeout", "rate_limited"},
     retries \in 0 .. 1, threshold \in 1 .. 2, max \in 0 .. 2}

AllPolicies == GatePolicies \cup ResiliencePolicies

=============================================================================
