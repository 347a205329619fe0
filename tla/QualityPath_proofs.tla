--------------------------- MODULE QualityPath_proofs ---------------------------
(***************************************************************************)
(* Proofs about QualityPath: for every policy, every number of retries,    *)
(* threshold, window and limit, and every score, what the quality path     *)
(* promises holds in every reachable state.                                *)
(***************************************************************************)
EXTENDS QualityPath, FiniteSetTheorems, SequenceTheorems, TLAPS

-----------------------------------------------------------------------------
(* The inductive invariant.                                                *)

\* Where the path is: one step per stage passed, no attempt pending between
\* two stages, and no stage attempted once something blocks or the breaker is
\* open.
Progress ==
  /\ Len(steps) = stage - 1
  /\ \A i \in 1 .. Len(steps) : steps[i].to = handoffs[i]
  /\ pc \in {"stage", "done"} => attempts = 0
  /\ pc = "done" => stage > Len(handoffs)
  /\ pc \in {"attempt", "running"} =>
       blocking = "none" /\ ~ resilience.circuitOpen

\* A step is executed or has a reason, within the attempts it may have.
StepsAreDecided ==
  \A i \in 1 .. Len(steps) :
    /\ steps[i].executed <=> steps[i].skip = "none"
    /\ steps[i].attempts <= policy.maxStageRetries + 1

\* What FailClosed needs: the fatal step is still what blocks the path.
Blocked ==
  \A i \in 1 .. Len(steps) :
    (Tried(i) /\ ~ steps[i].executed /\ steps[i].skip \notin policy.continueOn)
    => /\ blocking = steps[i].skip
       /\ \A j \in i + 1 .. Len(steps) : ~ Tried(j) /\ steps[j].skip = steps[i].skip

NoneExecuted(s, a, b) == \A i \in a .. b : ~ s[i].executed

Failures(s, a, b) ==
  {i \in a .. b : /\ s[i].attempts > 0
                  /\ s[i].skip \in {"stage_failure", "stage_timeout"}}

\* What BreakerTrips needs: the counter counts the failures since the last
\* executed step, the breaker is the comparison with the threshold, and no
\* earlier run of failures reached it.
CountsFrom(a) ==
  /\ a > 1 => steps[a - 1].executed
  /\ NoneExecuted(steps, a, Len(steps))
  /\ Cardinality(Failures(steps, a, Len(steps))) = consecutive

BreakerCounts ==
  /\ resilience.circuitOpen <=> consecutive >= policy.circuitBreakerFailureThreshold
  /\ \E a \in 1 .. Len(steps) + 1 : CountsFrom(a)
  /\ \A a, b \in 1 .. Len(steps) :
       (/\ NoneExecuted(steps, a, b)
        /\ Cardinality(Failures(steps, a, b)) >= policy.circuitBreakerFailureThreshold)
       => /\ resilience.circuitOpen
          /\ \A j \in b + 1 .. Len(steps) : ~ Tried(j)

\* What RateRespected needs: the starts are in order, none after now.
StartsAreOrdered ==
  /\ \A i \in 1 .. Len(starts) : starts[i] <= now
  /\ \A i, j \in 1 .. Len(starts) : i < j => starts[i] <= starts[j]

IInv ==
  /\ TypeOK
  /\ Progress
  /\ StepsAreDecided
  /\ Blocked
  /\ BreakerCounts
  /\ StartsAreOrdered
  /\ RateRespected
  /\ DangerFailsGate
  /\ ReportAgrees

-----------------------------------------------------------------------------
(* Types and the step sequence.                                            *)

Failed == {"stage_failure", "stage_timeout"}

\* The resolved policy is well formed.
LEMMA PolicyFields ==
  ASSUME policy \in Policies
  PROVE  /\ policy.include \subseteq Stages
         /\ policy.minTrustScore \in 0 .. Top
         /\ policy.minGoalCompletion \in 0 .. Top
         /\ policy.continueOn \subseteq Skips \ {"circuit_open"}
         /\ policy.maxStageRetries \in Nat
         /\ policy.circuitBreakerFailureThreshold \in Nat \ {0}
         /\ policy.rateLimitMaxExecutions \in Nat
         /\ policy.rateLimitWindow \in Nat \ {0}
BY QualityAssumption DEF Policy

\* Conclude adds the record of the stage to the steps and touches no other.
LEMMA StepAdded ==
  ASSUME TypeOK, stage \in 1 .. Len(handoffs),
         NEW executed \in BOOLEAN, NEW skip \in Skips \cup {"none"},
         NEW tried \in Nat, Conclude(executed, skip, tried)
  PROVE  /\ steps' \in Seq(Step)
         /\ Len(steps') = Len(steps) + 1
         /\ \A i \in 1 .. Len(steps) : steps'[i] = steps[i]
         /\ steps'[Len(steps) + 1] =
              [to |-> handoffs[stage], executed |-> executed, skip |-> skip,
               attempts |-> tried, trust |-> trust, goal |-> goal]
         /\ pc' = "stage" /\ stage' = stage + 1 /\ attempts' = 0
<1> DEFINE r == [to |-> handoffs[stage], executed |-> executed, skip |-> skip,
                 attempts |-> tried, trust |-> trust, goal |-> goal]
<1>1. handoffs[stage] \in Stages
  BY DEF TypeOK
<1>2. r \in Step
  BY <1>1 DEF Step, TypeOK
<1>3. steps' = Append(steps, r) /\ steps \in Seq(Step)
  BY DEF Conclude, TypeOK
<1> HIDE DEF r
<1>4. /\ steps' \in Seq(Step)
      /\ Len(steps') = Len(steps) + 1
      /\ \A i \in 1 .. Len(steps) : steps'[i] = steps[i]
      /\ steps'[Len(steps) + 1] = r
  BY <1>2, <1>3
<1> QED BY <1>4 DEF r, Conclude

\* What the actions do to the counters of the summary.
LEMMA Counters ==
  ASSUME NEW r \in Resilience, NEW open \in BOOLEAN,
         NEW m \in Nat, NEW n \in Nat
  PROVE  /\ [r EXCEPT !.rateLimited = r.rateLimited + 1] \in Resilience
         /\ [r EXCEPT !.retries = r.retries + 1] \in Resilience
         /\ [r EXCEPT !.timeouts = m, !.failures = n, !.circuitOpen = open]
              \in Resilience
<1>1. [r EXCEPT !.rateLimited = r.rateLimited + 1] \in Resilience
  BY DEF Resilience
<1>2. [r EXCEPT !.retries = r.retries + 1] \in Resilience
  BY DEF Resilience
<1>3. [r EXCEPT !.timeouts = m, !.failures = n, !.circuitOpen = open] \in Resilience
  BY DEF Resilience
<1> QED BY <1>1, <1>2, <1>3

LEMMA GateReason == resolveSkipReason \in Skips \cup {"none"}
BY DEF resolveSkipReason, Skips

LEMMA TypeKept ==
  ASSUME TypeOK, Progress, [Next]_vars
  PROVE  TypeOK'
<1> USE DEF request, control, timing, gate, breaker, report
<1>1. /\ policy \in Policies
      /\ policy.maxStageRetries \in Nat
      /\ Len(handoffs) \in Nat
      /\ Top \in Nat /\ MaxTime \in Nat
  BY PolicyFields, QualityAssumption DEF TypeOK
<1>2. ASSUME NEW reason \in Skips, SkipStage(reason)
      PROVE  TypeOK'
  <2>1. stage \in 1 .. Len(handoffs)
    BY <1>2 DEF SkipStage, AtStage
  <2>2. /\ steps' \in Seq(Step) /\ pc' = "stage"
        /\ stage' = stage + 1 /\ attempts' = 0
    BY <1>2, <2>1, StepAdded DEF SkipStage
  <2> QED BY <1>1, <1>2, <2>1, <2>2 DEF SkipStage, TypeOK, Codes
<1>3. CASE SkipBlocked \/ SkipCircuitOpen \/ SkipGate
  BY <1>2, <1>3, GateReason
     DEF SkipBlocked, SkipCircuitOpen, SkipGate, Skips, TypeOK
<1>4. CASE BeginStage \/ Finish
  BY <1>1, <1>4 DEF BeginStage, AtStage, Finish, TypeOK
<1>5. CASE RateLimited
  <2>1. stage \in 1 .. Len(handoffs) /\ attempts + 1 \in Nat
    BY <1>1, <1>5 DEF RateLimited, TypeOK
  <2>2. /\ steps' \in Seq(Step) /\ pc' = "stage"
        /\ stage' = stage + 1 /\ attempts' = 0
    BY <1>5, <2>1, StepAdded DEF RateLimited, Skips
  <2>3. now' \in 0 .. MaxTime
    BY <1>1, <1>5 DEF RateLimited, Times, TypeOK
  <2>4. resilience' \in Resilience
    BY <1>5, Counters DEF RateLimited, TypeOK
  <2>5. /\ codes' \subseteq Codes
        /\ blocking' \in Skips \cup {"none"}
        /\ UNCHANGED <<request, starts, gate, consecutive>>
    BY <1>5 DEF RateLimited, TypeOK, Codes, Skips
  <2> QED BY <1>1, <2>1, <2>2, <2>3, <2>4, <2>5 DEF TypeOK
<1>6. CASE StartAttempt
  <2>1. PICK t \in Times : now' = t /\ starts' = Append(starts, t)
    BY <1>6 DEF StartAttempt
  <2>2. t \in 0 .. MaxTime
    BY <1>1, <2>1 DEF Times, TypeOK
  <2> QED BY <1>1, <1>6, <2>1, <2>2 DEF StartAttempt, TypeOK
<1>7. CASE Answer
  <2>1. /\ pc = "running" /\ Succeed
        /\ trust' \in 0 .. Top /\ goal' \in 0 .. Top
        /\ codes' \subseteq Codes
    <3>1. CASE TesterAnswers
      BY <1>1, <3>1 DEF TesterAnswers, TypeOK
    <3>2. CASE ReviewerAnswers
      BY <1>1, <3>2 DEF ReviewerAnswers, TypeOK, Codes
    <3>3. CASE VerifierAnswers
      BY <1>1, <3>3 DEF VerifierAnswers, TypeOK, Codes, Skips
    <3> QED BY <1>7, <3>1, <3>2, <3>3 DEF Answer
  <2>2. stage \in 1 .. Len(handoffs) /\ attempts + 1 \in Nat
    BY <1>1, <2>1 DEF TypeOK
  <2>3. /\ steps' \in Seq(Step) /\ pc' = "stage"
        /\ stage' = stage + 1 /\ attempts' = 0
    BY <2>1, <2>2, StepAdded DEF Succeed
  <2> QED BY <1>1, <2>1, <2>2, <2>3 DEF Succeed, TypeOK
<1>8. CASE Retry
  <2>1. resilience' \in Resilience
    BY <1>8, Counters DEF Retry, TypeOK
  <2> QED BY <1>1, <1>8, <2>1 DEF Retry, TypeOK
<1>9. ASSUME NEW skip \in Failed, GiveUp(skip)
      PROVE  TypeOK'
  <2>1. stage \in 1 .. Len(handoffs) /\ attempts + 1 \in Nat /\ skip \in Skips
    BY <1>1, <1>9 DEF GiveUp, TypeOK, Failed, Skips
  <2>2. /\ steps' \in Seq(Step) /\ pc' = "stage"
        /\ stage' = stage + 1 /\ attempts' = 0
    BY <1>9, <2>1, StepAdded DEF GiveUp
  <2>3. resilience' \in Resilience
    <3> DEFINE timeouts == IF skip = "stage_timeout" THEN resilience.timeouts + 1
                                                   ELSE resilience.timeouts
               failures == IF skip = "stage_failure" THEN resilience.failures + 1
                                                   ELSE resilience.failures
               open == resilience.circuitOpen \/
                         consecutive + 1 >= policy.circuitBreakerFailureThreshold
    <3>1. timeouts \in Nat /\ failures \in Nat /\ open \in BOOLEAN
      BY DEF TypeOK, Resilience
    <3>2. resilience' = [resilience EXCEPT !.timeouts = timeouts,
                                           !.failures = failures,
                                           !.circuitOpen = open]
      BY <1>9 DEF GiveUp
    <3> HIDE DEF timeouts, failures, open
    <3> QED BY <3>1, <3>2, Counters DEF TypeOK
  <2>4. /\ codes' \subseteq Codes
        /\ blocking' \in Skips \cup {"none"}
        /\ consecutive' \in Nat
        /\ UNCHANGED <<request, timing, gate>>
    BY <1>9, <2>1 DEF GiveUp, TypeOK, Codes, Skips
  <2> QED BY <1>1, <2>1, <2>2, <2>3, <2>4 DEF TypeOK
<1>10. CASE UNCHANGED vars
  BY <1>10 DEF vars, TypeOK
<1> QED
  BY <1>3, <1>4, <1>5, <1>6, <1>7, <1>8, <1>9, <1>10
     DEF Next, Orchestrate, AgentThrows, TimerFires, Failed

-----------------------------------------------------------------------------
(* What a step does to the report: it adds nothing, or one step of one of  *)
(* four kinds.                                                             *)

Adds(skip, tried) ==
  /\ UNCHANGED request
  /\ stage \in 1 .. Len(handoffs)
  /\ steps' \in Seq(Step)
  /\ Len(steps') = Len(steps) + 1
  /\ \A i \in 1 .. Len(steps) : steps'[i] = steps[i]
  /\ LET new == steps'[Len(steps) + 1]
     IN  /\ new.to = handoffs[stage]
         /\ new.executed <=> skip = "none"
         /\ new.skip = skip
         /\ new.attempts = tried
  /\ pc' = "stage" /\ stage' = stage + 1 /\ attempts' = 0

Attempted == pc \in {"attempt", "running"} /\ blocking = "none" /\ ~ resilience.circuitOpen

AddsNothing ==
  /\ UNCHANGED <<request, steps, stage, blocking, consecutive, gate, codes>>
  /\ resilience'.retries - attempts' = resilience.retries - attempts
  /\ resilience'.failures = resilience.failures
  /\ resilience'.timeouts = resilience.timeouts
  /\ resilience'.rateLimited = resilience.rateLimited
  /\ resilience'.circuitOpen = resilience.circuitOpen
  /\ pc' \in {"stage", "done"} => attempts' = 0
  /\ pc' = "done" => stage > Len(handoffs)
  /\ pc' \in {"attempt", "running"} => blocking = "none" /\ ~ resilience.circuitOpen

Skipped(reason) ==
  /\ Adds(reason, 0)
  /\ attempts = 0
  /\ blocking # "none" => reason = blocking
  /\ UNCHANGED <<blocking, consecutive, resilience, gate>>
  /\ codes' = codes \cup {reason}

Limited ==
  /\ Adds("rate_limited", attempts + 1)
  /\ Attempted
  /\ blocking' = IF "rate_limited" \in policy.continueOn THEN "none" ELSE "rate_limited"
  /\ UNCHANGED <<consecutive, gate>>
  /\ resilience'.retries = resilience.retries
  /\ resilience'.failures = resilience.failures
  /\ resilience'.timeouts = resilience.timeouts
  /\ resilience'.rateLimited = resilience.rateLimited + 1
  /\ resilience'.circuitOpen = resilience.circuitOpen
  /\ codes' = codes \cup {"rate_limited"}

Answered ==
  /\ Adds("none", attempts + 1)
  /\ Attempted
  /\ UNCHANGED <<blocking, resilience>>
  /\ consecutive' = 0
  /\ dangerous /\ handoffs[stage] # "tester" => trust' = 0 /\ goal' = 0
  /\ handoffs[stage] = "tester" => UNCHANGED gate
  /\ codes \subseteq codes'
  /\ codes' \subseteq codes \cup {"dangerous", "trust_gate"}
  /\ "trust_gate" \in codes' \ codes => handoffs[stage] = "verifier"

Ended(skip) ==
  /\ Adds(skip, attempts + 1)
  /\ Attempted
  /\ blocking' = IF skip \in policy.continueOn THEN "none" ELSE skip
  /\ consecutive' = consecutive + 1
  /\ UNCHANGED gate
  /\ resilience'.retries = resilience.retries
  /\ resilience'.failures = IF skip = "stage_failure" THEN resilience.failures + 1
                                                      ELSE resilience.failures
  /\ resilience'.timeouts = IF skip = "stage_timeout" THEN resilience.timeouts + 1
                                                      ELSE resilience.timeouts
  /\ resilience'.rateLimited = resilience.rateLimited
  /\ resilience'.circuitOpen <=>
       consecutive + 1 >= policy.circuitBreakerFailureThreshold
  /\ codes' = codes \cup {skip} \cup
       (IF consecutive + 1 >= policy.circuitBreakerFailureThreshold
        THEN {"circuit_open"} ELSE {})

LEMMA ConcludeAdds ==
  ASSUME TypeOK, stage \in 1 .. Len(handoffs), UNCHANGED request,
         NEW executed \in BOOLEAN, NEW skip \in Skips \cup {"none"},
         NEW tried \in Nat, executed <=> skip = "none",
         Conclude(executed, skip, tried)
  PROVE  Adds(skip, tried)
<1> DEFINE r == [to |-> handoffs[stage], executed |-> executed, skip |-> skip,
                 attempts |-> tried, trust |-> trust, goal |-> goal]
<1>1. /\ steps' \in Seq(Step)
      /\ Len(steps') = Len(steps) + 1
      /\ \A i \in 1 .. Len(steps) : steps'[i] = steps[i]
      /\ steps'[Len(steps) + 1] = r
      /\ pc' = "stage" /\ stage' = stage + 1 /\ attempts' = 0
  BY StepAdded
<1>2. /\ r.to = handoffs[stage] /\ r.executed = executed
      /\ r.skip = skip /\ r.attempts = tried
  OBVIOUS
<1> HIDE DEF r
<1> QED BY <1>1, <1>2 DEF Adds

LEMMA StepEffects ==
  ASSUME TypeOK, Progress, [Next]_vars
  PROVE  \/ AddsNothing
         \/ \E reason \in Skips : Skipped(reason)
         \/ Limited
         \/ Answered
         \/ \E skip \in Failed : Ended(skip)
<1> USE DEF request, control, timing, gate, breaker, report
<1>1. /\ policy.maxStageRetries \in Nat
      /\ attempts \in Nat
      /\ resilience \in Resilience
  BY PolicyFields DEF TypeOK
<1>2. CASE SkipBlocked \/ SkipCircuitOpen \/ SkipGate
  <2>1. PICK reason \in Skips :
          SkipStage(reason) /\ (blocking # "none" => reason = blocking)
    BY <1>2, GateReason DEF SkipBlocked, SkipCircuitOpen, SkipGate, Skips, TypeOK
  <2>2. Adds(reason, 0)
    <3>1. /\ stage \in 1 .. Len(handoffs) /\ 0 \in Nat
          /\ reason \in Skips \cup {"none"}
          /\ FALSE <=> reason = "none"
      BY <2>1 DEF SkipStage, AtStage, Skips
    <3>2. Conclude(FALSE, reason, 0) /\ UNCHANGED request
      BY <2>1, Zenon DEF SkipStage
    <3> QED BY <3>1, <3>2, ConcludeAdds, Zenon
  <2>3. Skipped(reason)
    BY <2>1, <2>2 DEF Skipped, SkipStage, AtStage, Progress
  <2> QED BY <2>3
<1>3. CASE BeginStage \/ Finish
  BY <1>3 DEF BeginStage, AtStage, Finish, AddsNothing, Progress
<1>4. CASE RateLimited
  <2>1. Adds("rate_limited", attempts + 1)
    <3>1. /\ stage \in 1 .. Len(handoffs) /\ attempts + 1 \in Nat
          /\ "rate_limited" \in Skips \cup {"none"}
          /\ FALSE <=> "rate_limited" = "none"
      BY <1>1, <1>4 DEF RateLimited, TypeOK, Skips
    <3>2. Conclude(FALSE, "rate_limited", attempts + 1) /\ UNCHANGED request
      BY <1>4, Zenon DEF RateLimited
    <3> QED BY <3>1, <3>2, ConcludeAdds, Zenon
  <2>2. /\ resilience'.retries = resilience.retries
        /\ resilience'.failures = resilience.failures
        /\ resilience'.timeouts = resilience.timeouts
        /\ resilience'.rateLimited = resilience.rateLimited + 1
        /\ resilience'.circuitOpen = resilience.circuitOpen
    BY <1>1, <1>4 DEF RateLimited, Resilience
  <2> QED BY <1>4, <2>1, <2>2 DEF RateLimited, Limited, Attempted, Progress
<1>5. CASE StartAttempt
  BY <1>5 DEF StartAttempt, AddsNothing, Progress
<1>6. CASE Answer
  <2>1. Succeed /\ pc = "running" /\ UNCHANGED request
    BY <1>6 DEF Answer, TesterAnswers, ReviewerAnswers, VerifierAnswers, Succeed
  <2>2. Adds("none", attempts + 1)
    <3>1. /\ stage \in 1 .. Len(handoffs) /\ attempts + 1 \in Nat
          /\ TRUE <=> "none" = "none"
      BY <1>1, <2>1 DEF TypeOK
    <3>2. Conclude(TRUE, "none", attempts + 1)
      BY <2>1, Zenon DEF Succeed
    <3> QED BY <2>1, <3>1, <3>2, ConcludeAdds, Zenon
  <2>3. /\ dangerous /\ handoffs[stage] # "tester" => trust' = 0 /\ goal' = 0
        /\ handoffs[stage] = "tester" => UNCHANGED gate
        /\ codes \subseteq codes'
        /\ codes' \subseteq codes \cup {"dangerous", "trust_gate"}
        /\ "trust_gate" \in codes' \ codes => handoffs[stage] = "verifier"
    <3>1. CASE TesterAnswers
      BY <3>1 DEF TesterAnswers
    <3>2. CASE ReviewerAnswers
      BY <3>2 DEF ReviewerAnswers
    <3>3. CASE VerifierAnswers
      BY <3>3 DEF VerifierAnswers
    <3> QED BY <1>6, <3>1, <3>2, <3>3 DEF Answer
  <2> QED BY <2>1, <2>2, <2>3 DEF Succeed, Answered, Attempted, Progress
<1>7. CASE Retry
  <2>1. /\ resilience'.retries = resilience.retries + 1
        /\ resilience'.failures = resilience.failures
        /\ resilience'.timeouts = resilience.timeouts
        /\ resilience'.rateLimited = resilience.rateLimited
        /\ resilience'.circuitOpen = resilience.circuitOpen
        /\ resilience.retries \in Int
    BY <1>1, <1>7 DEF Retry, Resilience
  <2>2. /\ UNCHANGED <<request, steps, stage, blocking, consecutive, gate, codes>>
        /\ attempts' = attempts + 1 /\ pc = "running" /\ pc' = "attempt"
    BY <1>7 DEF Retry
  <2> QED BY <1>1, <2>1, <2>2 DEF AddsNothing, Progress
<1>8. ASSUME NEW skip \in Failed, GiveUp(skip)
      PROVE  Ended(skip)
  <2>1. Adds(skip, attempts + 1)
    <3>1. /\ stage \in 1 .. Len(handoffs) /\ attempts + 1 \in Nat
          /\ skip \in Skips \cup {"none"}
          /\ FALSE <=> skip = "none"
      BY <1>1, <1>8 DEF GiveUp, TypeOK, Skips, Failed
    <3>2. Conclude(FALSE, skip, attempts + 1) /\ UNCHANGED request
      BY <1>8, Zenon DEF GiveUp
    <3> QED BY <3>1, <3>2, ConcludeAdds, Zenon
  <2>2. /\ resilience'.retries = resilience.retries
        /\ resilience'.failures = IF skip = "stage_failure" THEN resilience.failures + 1
                                                            ELSE resilience.failures
        /\ resilience'.timeouts = IF skip = "stage_timeout" THEN resilience.timeouts + 1
                                                            ELSE resilience.timeouts
        /\ resilience'.rateLimited = resilience.rateLimited
        /\ resilience'.circuitOpen =
             (resilience.circuitOpen \/
              consecutive + 1 >= policy.circuitBreakerFailureThreshold)
    BY <1>1, <1>8 DEF GiveUp, Resilience
  <2>3. Attempted
    BY <1>8 DEF GiveUp, Attempted, Progress
  <2>4. /\ blocking' = IF skip \in policy.continueOn THEN "none" ELSE skip
        /\ consecutive' = consecutive + 1
        /\ UNCHANGED gate
        /\ codes' = codes \cup {skip} \cup
             (IF consecutive + 1 >= policy.circuitBreakerFailureThreshold
              THEN {"circuit_open"} ELSE {})
    BY <1>8, <2>3 DEF GiveUp, Attempted
  <2>5. resilience'.circuitOpen <=>
          consecutive + 1 >= policy.circuitBreakerFailureThreshold
    BY <2>2, <2>3 DEF Attempted
  <2> QED BY <2>1, <2>2, <2>3, <2>4, <2>5, Zenon DEF Ended
<1>9. CASE UNCHANGED vars
  BY <1>9 DEF vars, AddsNothing, Progress
<1> QED
  BY <1>2, <1>3, <1>4, <1>5, <1>6, <1>7, <1>8, <1>9
     DEF Next, Orchestrate, AgentThrows, TimerFires, Failed

-----------------------------------------------------------------------------
(* Each part of the invariant is kept.                                     *)

LEMMA AddsProgress ==
  ASSUME TypeOK, Progress, NEW skip, NEW tried, Adds(skip, tried)
  PROVE  Progress'
<1>1. /\ Len(steps') = Len(steps) + 1
      /\ handoffs' = handoffs
      /\ \A i \in 1 .. Len(steps) : steps'[i] = steps[i]
      /\ steps'[Len(steps) + 1].to = handoffs[stage]
      /\ pc' = "stage" /\ stage' = stage + 1 /\ attempts' = 0
  BY Zenon DEF Adds, request
<1>2. /\ Len(steps) \in Nat /\ stage \in Int
      /\ Len(steps) = stage - 1
      /\ \A i \in 1 .. Len(steps) : steps[i].to = handoffs[i]
  BY DEF TypeOK, Progress
<1>3. Len(steps') = stage' - 1
  BY <1>1, <1>2
<1>4. \A i \in 1 .. Len(steps') : steps'[i].to = handoffs'[i]
  BY <1>1, <1>2
<1> QED BY <1>1, <1>3, <1>4 DEF Progress

LEMMA ProgressKept ==
  ASSUME TypeOK, Progress, [Next]_vars
  PROVE  Progress'
<1>1. CASE AddsNothing
  BY <1>1 DEF AddsNothing, Progress, TypeOK, request
<1>2. ASSUME NEW skip, NEW tried, Adds(skip, tried)
      PROVE  Progress'
  BY <1>2, AddsProgress
<1> QED BY <1>1, <1>2, StepEffects DEF Skipped, Limited, Answered, Ended

LEMMA DecidedKept ==
  ASSUME TypeOK, Progress, StepsAreDecided, [Next]_vars
  PROVE  StepsAreDecided'
<1> DEFINE k == Len(steps) + 1
<1>1. /\ policy.maxStageRetries \in Nat /\ Len(steps) \in Nat
      /\ attempts \in 0 .. policy.maxStageRetries
  BY PolicyFields DEF TypeOK
<1>2. ASSUME NEW skip, NEW tried \in 0 .. policy.maxStageRetries + 1,
             Adds(skip, tried)
      PROVE  StepsAreDecided'
  <2>1. /\ policy' = policy
        /\ Len(steps') = k
        /\ \A i \in 1 .. Len(steps) : steps'[i] = steps[i]
        /\ steps'[k].executed <=> skip = "none"
        /\ steps'[k].skip = skip /\ steps'[k].attempts = tried
    BY <1>2 DEF Adds, request
  <2>2. /\ steps'[k].executed <=> steps'[k].skip = "none"
        /\ steps'[k].attempts <= policy.maxStageRetries + 1
    BY <1>1, <1>2, <2>1
  <2>3. ASSUME NEW i \in 1 .. k
        PROVE  /\ steps'[i].executed <=> steps'[i].skip = "none"
               /\ steps'[i].attempts <= policy.maxStageRetries + 1
    <3>1. CASE i = k
      BY <2>2, <3>1
    <3>2. CASE i # k
      BY <1>1, <2>1, <3>2 DEF StepsAreDecided
    <3> QED BY <3>1, <3>2
  <2> QED BY <2>1, <2>3 DEF StepsAreDecided
<1>3. CASE AddsNothing
  BY <1>3 DEF AddsNothing, StepsAreDecided, request
<1>4. ASSUME NEW reason \in Skips, Skipped(reason)
      PROVE  StepsAreDecided'
  BY <1>1, <1>2, <1>4 DEF Skipped, Skips
<1>5. CASE Limited
  BY <1>1, <1>2, <1>5 DEF Limited, Skips
<1>6. CASE Answered
  BY <1>1, <1>2, <1>6 DEF Answered
<1>7. ASSUME NEW skip \in Failed, Ended(skip)
      PROVE  StepsAreDecided'
  BY <1>1, <1>2, <1>7 DEF Ended, Skips, Failed
<1> QED BY <1>3, <1>4, <1>5, <1>6, <1>7, StepEffects

\* A step that was tried and cannot be continued after is the last one tried:
\* nothing but a copy of its skip follows.
LEMMA BlockedKept ==
  ASSUME TypeOK, Progress, StepsAreDecided, Blocked, [Next]_vars
  PROVE  Blocked'
<1> DEFINE Fatal(i) == /\ steps[i].attempts > 0 /\ ~ steps[i].executed
                       /\ steps[i].skip \notin policy.continueOn
           k == Len(steps) + 1
<1>1. Len(steps) \in Nat
  BY DEF TypeOK
<1>2. \A i \in 1 .. Len(steps) : Fatal(i) =>
        /\ blocking = steps[i].skip
        /\ \A j \in i + 1 .. Len(steps) :
             ~ (steps[j].attempts > 0) /\ steps[j].skip = steps[i].skip
  BY DEF Blocked, Tried
<1>3. \A i \in 1 .. Len(steps) : Fatal(i) => blocking # "none"
  BY <1>2 DEF StepsAreDecided
<1>4. ASSUME NEW skip, NEW tried, Adds(skip, tried)
      PROVE  /\ policy' = policy /\ Len(steps') = k
             /\ \A i \in 1 .. Len(steps) : steps'[i] = steps[i]
             /\ steps'[k].executed <=> skip = "none"
             /\ steps'[k].skip = skip /\ steps'[k].attempts = tried
  BY <1>4 DEF Adds, request
<1>5. CASE AddsNothing
  BY <1>2, <1>5 DEF AddsNothing, Blocked, Tried, request
<1>6. ASSUME NEW reason \in Skips, Skipped(reason)
      PROVE  Blocked'
  <2>1. /\ policy' = policy /\ Len(steps') = k
        /\ \A i \in 1 .. Len(steps) : steps'[i] = steps[i]
        /\ steps'[k].skip = reason /\ steps'[k].attempts = 0
        /\ blocking' = blocking /\ (blocking # "none" => reason = blocking)
    BY <1>4, <1>6 DEF Skipped
  <2>2. SUFFICES ASSUME NEW i \in 1 .. k,
                        steps'[i].attempts > 0 /\ ~ steps'[i].executed,
                        steps'[i].skip \notin policy.continueOn
                 PROVE  /\ blocking = steps'[i].skip
                        /\ \A j \in i + 1 .. k :
                             ~ (steps'[j].attempts > 0) /\ steps'[j].skip = steps'[i].skip
    BY <2>1 DEF Blocked, Tried
  <2>3. i # k
    BY <2>1, <2>2
  <2>4. i \in 1 .. Len(steps) /\ Fatal(i) /\ steps'[i] = steps[i]
    BY <1>1, <2>1, <2>2, <2>3
  <2>5. blocking = steps[i].skip /\ blocking # "none"
    BY <1>2, <1>3, <2>4
  <2>6. ASSUME NEW j \in i + 1 .. k
        PROVE  ~ (steps'[j].attempts > 0) /\ steps'[j].skip = steps[i].skip
    <3>1. CASE j = k
      BY <2>1, <2>5, <3>1
    <3>2. CASE j # k
      <4>1. j \in i + 1 .. Len(steps) /\ j \in 1 .. Len(steps)
        BY <1>1, <2>4, <3>2
      <4> QED BY <1>2, <2>1, <2>4, <4>1
    <3> QED BY <3>1, <3>2
  <2> QED BY <2>4, <2>5, <2>6
<1>7. ASSUME Attempted, NEW skip, NEW tried, Adds(skip, tried),
             (tried > 0 /\ skip # "none" /\ skip \notin policy.continueOn)
               => blocking' = skip
      PROVE  Blocked'
  <2>1. \A i \in 1 .. Len(steps) : ~ Fatal(i)
    BY <1>3, <1>7 DEF Attempted
  <2>2. /\ policy' = policy /\ Len(steps') = k
        /\ \A i \in 1 .. Len(steps) : steps'[i] = steps[i]
        /\ steps'[k].executed <=> skip = "none"
        /\ steps'[k].skip = skip /\ steps'[k].attempts = tried
    BY <1>4, <1>7
  <2>3. SUFFICES ASSUME NEW i \in 1 .. k,
                        steps'[i].attempts > 0 /\ ~ steps'[i].executed,
                        steps'[i].skip \notin policy.continueOn
                 PROVE  /\ blocking' = steps'[i].skip
                        /\ \A j \in i + 1 .. k :
                             ~ (steps'[j].attempts > 0) /\ steps'[j].skip = steps'[i].skip
    BY <2>2 DEF Blocked, Tried
  <2>4. i = k
    BY <1>1, <2>1, <2>2, <2>3
  <2>5. blocking' = skip
    BY <1>7, <2>2, <2>3, <2>4
  <2>6. i + 1 .. k = {}
    BY <1>1, <2>4
  <2> QED BY <2>2, <2>4, <2>5, <2>6
<1>8. CASE Limited
  BY <1>7, <1>8 DEF Limited
<1>9. CASE Answered
  BY <1>7, <1>9 DEF Answered
<1>10. ASSUME NEW skip \in Failed, Ended(skip)
       PROVE  Blocked'
  BY <1>7, <1>10 DEF Ended
<1> QED BY <1>5, <1>6, <1>8, <1>9, <1>10, StepEffects

\* A reviewer or verifier that answers a dangerous query zeroes both scores,
\* and only another answer of theirs changes a score.
LEMMA DangerKept ==
  ASSUME TypeOK, Progress, DangerFailsGate, [Next]_vars
  PROVE  DangerFailsGate'
<1>1. Len(steps) \in Nat
  BY DEF TypeOK
<1>2. CASE AddsNothing
  BY <1>2 DEF AddsNothing, DangerFailsGate, request, gate
<1>3. ASSUME NEW skip, NEW tried, Adds(skip, tried), skip # "none", UNCHANGED gate
      PROVE  DangerFailsGate'
  <2>1. /\ dangerous' = dangerous /\ Len(steps') = Len(steps) + 1
        /\ \A i \in 1 .. Len(steps) : steps'[i] = steps[i]
        /\ ~ steps'[Len(steps) + 1].executed
    BY <1>3 DEF Adds, request
  <2>2. \A i \in 1 .. Len(steps') : steps'[i].executed =>
          i \in 1 .. Len(steps) /\ steps'[i] = steps[i]
    BY <1>1, <2>1
  <2> QED BY <1>3, <2>1, <2>2 DEF DangerFailsGate, gate
<1>4. ASSUME NEW reason \in Skips, Skipped(reason)
      PROVE  DangerFailsGate'
  BY <1>3, <1>4 DEF Skipped, Skips
<1>5. CASE Limited
  BY <1>3, <1>5 DEF Limited
<1>6. ASSUME NEW skip \in Failed, Ended(skip)
      PROVE  DangerFailsGate'
  BY <1>3, <1>6 DEF Ended, Failed
<1>7. CASE Answered
  <2>1. /\ dangerous' = dangerous /\ Len(steps') = Len(steps) + 1
        /\ \A i \in 1 .. Len(steps) : steps'[i] = steps[i]
        /\ steps'[Len(steps) + 1].to = handoffs[stage]
        /\ dangerous /\ handoffs[stage] # "tester" => trust' = 0 /\ goal' = 0
        /\ handoffs[stage] = "tester" => trust' = trust /\ goal' = goal
    BY <1>7 DEF Answered, Adds, request, gate
  <2>2. CASE handoffs[stage] # "tester"
    BY <2>1, <2>2 DEF DangerFailsGate
  <2>3. CASE handoffs[stage] = "tester"
    <3>1. \A i \in 1 .. Len(steps') : steps'[i].to # "tester" =>
            i \in 1 .. Len(steps) /\ steps'[i] = steps[i]
      BY <1>1, <2>1, <2>3
    <3> QED BY <2>1, <2>3, <3>1 DEF DangerFailsGate
  <2> QED BY <2>2, <2>3
<1> QED BY <1>2, <1>4, <1>5, <1>6, <1>7, StepEffects

-----------------------------------------------------------------------------
(* The rate limit.                                                         *)

LEMMA ClockEffects ==
  ASSUME TypeOK, [Next]_vars
  PROVE  /\ policy' = policy
         /\ \/ UNCHANGED starts /\ now' \in now .. MaxTime
            \/ \E t \in now .. MaxTime :
                 ~ LimitReached(t) /\ now' = t /\ starts' = Append(starts, t)
<1> USE DEF request, timing
<1>1. now \in 0 .. MaxTime /\ MaxTime \in Nat
  BY QualityAssumption DEF TypeOK
<1>2. \A t \in Times : t \in now .. MaxTime
  BY <1>1 DEF Times
<1>3. CASE UNCHANGED <<request, timing>>
  BY <1>1, <1>3
<1>4. CASE SkipBlocked \/ SkipCircuitOpen \/ SkipGate
  BY <1>3, <1>4, Zenon DEF SkipBlocked, SkipCircuitOpen, SkipGate, SkipStage
<1>5. CASE BeginStage \/ Finish
  BY <1>3, <1>5, Zenon DEF BeginStage, Finish
<1>6. CASE RateLimited
  BY <1>2, <1>6 DEF RateLimited
<1>7. CASE StartAttempt
  BY <1>2, <1>7 DEF StartAttempt
<1>8. CASE Answer
  BY <1>3, <1>8, Zenon
     DEF Answer, TesterAnswers, ReviewerAnswers, VerifierAnswers, Succeed
<1>9. CASE Retry \/ \E skip \in Failed : GiveUp(skip)
  BY <1>3, <1>9, Zenon DEF Retry, GiveUp
<1>10. CASE UNCHANGED vars
  BY <1>3, <1>10, Zenon DEF vars
<1> QED
  BY <1>4, <1>5, <1>6, <1>7, <1>8, <1>9, <1>10
     DEF Next, Orchestrate, AgentThrows, TimerFires, Failed

LEMMA OrderKept ==
  ASSUME TypeOK, StartsAreOrdered, [Next]_vars
  PROVE  StartsAreOrdered'
<1>1. now \in 0 .. MaxTime /\ MaxTime \in Nat /\ starts \in Seq(0 .. MaxTime)
  BY QualityAssumption DEF TypeOK
<1>2. \A i \in 1 .. Len(starts) : starts[i] \in 0 .. MaxTime
  BY <1>1
<1>3. CASE UNCHANGED starts /\ now' \in now .. MaxTime
  BY <1>1, <1>2, <1>3 DEF StartsAreOrdered
<1>4. ASSUME NEW t \in now .. MaxTime, now' = t, starts' = Append(starts, t)
      PROVE  StartsAreOrdered'
  <2>1. /\ Len(starts') = Len(starts) + 1 /\ Len(starts) \in Nat
        /\ \A i \in 1 .. Len(starts) : starts'[i] = starts[i]
        /\ starts'[Len(starts) + 1] = t
    BY <1>1, <1>4
  <2>2. \A i \in 1 .. Len(starts') : starts'[i] <= t
    BY <1>1, <1>2, <2>1 DEF StartsAreOrdered
  <2>3. ASSUME NEW i \in 1 .. Len(starts'), NEW j \in 1 .. Len(starts'), i < j
        PROVE  starts'[i] <= starts'[j]
    <3>1. i \in 1 .. Len(starts) /\ starts'[i] = starts[i]
      BY <2>1, <2>3
    <3>2. CASE j = Len(starts) + 1
      BY <2>1, <2>2, <3>2
    <3>3. CASE j # Len(starts) + 1
      <4>1. j \in 1 .. Len(starts) /\ starts'[j] = starts[j]
        BY <2>1, <2>3, <3>3
      <4> QED BY <2>3, <3>1, <4>1 DEF StartsAreOrdered
    <3> QED BY <3>2, <3>3
  <2> QED BY <1>4, <2>2, <2>3 DEF StartsAreOrdered
<1> QED BY <1>3, <1>4, ClockEffects

\* Of an ordered sequence with fewer than max elements in the window that ends
\* at t, the element max - 1 before the last, and with it every earlier one, is
\* out of the window.
LEMMA OutOfWindow ==
  ASSUME NEW s \in Seq(Int), NEW t \in Int, NEW w \in Nat, NEW max \in Nat,
         \A i, j \in 1 .. Len(s) : i < j => s[i] <= s[j],
         ~ (Cardinality({i \in 1 .. Len(s) : s[i] >= t - w}) >= max),
         NEW i \in 1 .. Len(s), i + max = Len(s) + 1
  PROVE  t - s[i] > w
<1> DEFINE n == Len(s)
           W == {j \in 1 .. n : s[j] >= t - w}
<1>1. n \in Nat /\ \A j \in 1 .. n : s[j] \in Int
  OBVIOUS
<1>2. SUFFICES ASSUME s[i] >= t - w PROVE FALSE
  BY <1>1
<1>3. ASSUME NEW j \in i .. n
      PROVE  j \in 1 .. n /\ s[j] >= t - w
  <2>1. j \in 1 .. n /\ (i = j \/ i < j)
    BY <1>1
  <2>2. s[j] >= s[i]
    BY <1>1, <2>1
  <2> QED BY <1>1, <1>2, <2>1, <2>2
<1>4. i .. n \subseteq W
  BY <1>3
<1>5. IsFiniteSet(W)
  <2>1. IsFiniteSet(1 .. n) /\ W \subseteq 1 .. n
    BY <1>1, FS_Interval
  <2> QED BY <2>1, FS_Subset
<1>6. Cardinality(i .. n) <= Cardinality(W) /\ Cardinality(W) \in Nat
  BY <1>4, <1>5, FS_Subset, FS_CardinalityType
<1>7. Cardinality(i .. n) = max
  <2>1. i \in Int /\ n \in Int /\ ~ (i > n) /\ n - i + 1 = max
    BY <1>1
  <2> QED BY <2>1, FS_Interval
<1>8. ~ (Cardinality(W) >= max)
  OBVIOUS
<1> HIDE DEF W
<1> QED BY <1>6, <1>7, <1>8

LEMMA RateKept ==
  ASSUME TypeOK, StartsAreOrdered, RateRespected, [Next]_vars
  PROVE  RateRespected'
<1>1. PICK max, w : max = policy.rateLimitMaxExecutions /\ w = policy.rateLimitWindow
  OBVIOUS
<1>2. /\ now \in Int /\ MaxTime \in Int /\ starts \in Seq(Int)
      /\ Len(starts) \in Nat /\ \A i \in 1 .. Len(starts) : starts[i] \in Int
  BY QualityAssumption DEF TypeOK
<1>3. max \in Nat /\ w \in Nat
  BY <1>1, PolicyFields DEF TypeOK
<1>4. CASE UNCHANGED <<starts, policy>>
  BY <1>4 DEF RateRespected
<1>5. CASE policy' = policy /\ ~ (max > 0)
  BY <1>1, <1>5 DEF RateRespected
<1>6. ASSUME policy' = policy, max > 0, NEW t \in now .. MaxTime,
             ~ LimitReached(t), starts' = Append(starts, t)
      PROVE  RateRespected'
  <2>1. /\ Len(starts') = Len(starts) + 1
        /\ \A i \in 1 .. Len(starts) : starts'[i] = starts[i]
        /\ starts'[Len(starts) + 1] = t
    BY <1>2, <1>6
  <2>2. t \in Int
    BY <1>2
  <2>3. ASSUME NEW i \in 1 .. Len(starts') - max
        PROVE  starts'[i + max] - starts'[i] > w
    <3>1. i \in 1 .. Len(starts) /\ i + max \in 1 .. Len(starts) + 1
      BY <1>2, <1>3, <1>6, <2>1
    <3>2. CASE i + max # Len(starts) + 1
      <4>1. i \in 1 .. Len(starts) - max /\ i + max \in 1 .. Len(starts)
        BY <1>2, <1>3, <3>1, <3>2
      <4>2. starts[i + max] - starts[i] > w
        BY <1>1, <1>6, <4>1 DEF RateRespected
      <4> QED BY <2>1, <3>1, <4>1, <4>2
    <3>3. CASE i + max = Len(starts) + 1
      <4>1. ~ (Cardinality({j \in 1 .. Len(starts) : starts[j] >= t - w}) >= max)
        BY <1>1, <1>6 DEF LimitReached, InWindow
      <4>2. t - starts[i] > w
        BY <1>2, <1>3, <2>2, <3>1, <3>3, <4>1, OutOfWindow DEF StartsAreOrdered
      <4> QED BY <2>1, <3>1, <3>3, <4>2
    <3> QED BY <3>2, <3>3
  <2> QED BY <1>1, <1>6, <2>3 DEF RateRespected
<1> QED BY <1>4, <1>5, <1>6, ClockEffects

-----------------------------------------------------------------------------
(* The circuit breaker.                                                    *)

LEMMA FailuresFinite ==
  ASSUME NEW s, NEW a \in Int, NEW b \in Int
  PROVE  /\ IsFiniteSet(Failures(s, a, b))
         /\ Cardinality(Failures(s, a, b)) \in Nat
<1>1. IsFiniteSet(a .. b) /\ Failures(s, a, b) \subseteq a .. b
  BY FS_Interval DEF Failures
<1>2. IsFiniteSet(Failures(s, a, b))
  BY <1>1, FS_Subset
<1> QED BY <1>2, FS_CardinalityType

\* A new step joins the failures of every run that reaches it, if it is one,
\* and changes no run that ends before it.
LEMMA FailuresExtend ==
  ASSUME TypeOK, NEW skip, NEW tried, Adds(skip, tried),
         NEW a \in 1 .. Len(steps) + 1
  PROVE  LET k == Len(steps) + 1
         IN  /\ \A b \in 0 .. Len(steps) :
                  /\ Failures(steps', a, b) = Failures(steps, a, b)
                  /\ NoneExecuted(steps', a, b) <=> NoneExecuted(steps, a, b)
             /\ NoneExecuted(steps', a, k) <=>
                  NoneExecuted(steps, a, Len(steps)) /\ skip # "none"
             /\ (tried > 0 /\ skip \in Failed) =>
                  Cardinality(Failures(steps', a, k)) =
                    Cardinality(Failures(steps, a, Len(steps))) + 1
             /\ ~ (tried > 0 /\ skip \in Failed) =>
                  Failures(steps', a, k) = Failures(steps, a, Len(steps))
<1> DEFINE k == Len(steps) + 1
           n == Len(steps)
<1>1. n \in Nat /\ a \in Nat \ {0}
  BY DEF TypeOK
<1>2. /\ \A i \in 1 .. n : steps'[i] = steps[i]
      /\ steps'[k].executed <=> skip = "none"
      /\ steps'[k].skip = skip /\ steps'[k].attempts = tried
  BY DEF Adds
<1>3. ASSUME NEW b \in 0 .. n
      PROVE  /\ Failures(steps', a, b) = Failures(steps, a, b)
             /\ NoneExecuted(steps', a, b) <=> NoneExecuted(steps, a, b)
  <2>1. \A i \in a .. b : steps'[i] = steps[i]
    BY <1>1, <1>2
  <2>2. Failures(steps', a, b) = Failures(steps, a, b)
    BY <2>1 DEF Failures
  <2>3. NoneExecuted(steps', a, b) <=> NoneExecuted(steps, a, b)
    BY <2>1 DEF NoneExecuted
  <2> QED BY <2>2, <2>3
<1>4. a .. k = (a .. n) \cup {k} /\ k \notin a .. n
  BY <1>1
<1>5. /\ Failures(steps', a, n) = Failures(steps, a, n)
      /\ NoneExecuted(steps', a, n) <=> NoneExecuted(steps, a, n)
  BY <1>1, <1>3
<1>6. NoneExecuted(steps', a, k) <=> NoneExecuted(steps, a, n) /\ skip # "none"
  BY <1>2, <1>4, <1>5 DEF NoneExecuted
<1>7. ASSUME tried > 0 /\ skip \in Failed
      PROVE  Cardinality(Failures(steps', a, k)) = Cardinality(Failures(steps, a, n)) + 1
  <2>1. Failures(steps', a, k) = Failures(steps', a, n) \cup {k}
    BY <1>2, <1>4, <1>7 DEF Failures, Failed
  <2>2. k \notin Failures(steps, a, n)
    BY <1>4 DEF Failures
  <2>3. IsFiniteSet(Failures(steps, a, n))
    BY <1>1, FailuresFinite
  <2> QED BY <1>5, <2>1, <2>2, <2>3, FS_AddElement
<1>8. ASSUME ~ (tried > 0 /\ skip \in Failed)
      PROVE  Failures(steps', a, k) = Failures(steps, a, n)
  <2>1. Failures(steps', a, k) = Failures(steps', a, n)
    BY <1>2, <1>4, <1>8 DEF Failures, Failed
  <2> QED BY <1>5, <2>1
<1> QED BY <1>3, <1>6, <1>7, <1>8

\* The run of failures that reaches the threshold, as BreakerCounts has it.
Full(s, a, b) ==
  /\ NoneExecuted(s, a, b)
  /\ Cardinality(Failures(s, a, b)) >= policy.circuitBreakerFailureThreshold

\* A run that ends with the last step counts at most what the counter counts.
LEMMA RunWithinCount ==
  ASSUME TypeOK, BreakerCounts, NEW a \in 1 .. Len(steps) + 1,
         NoneExecuted(steps, a, Len(steps))
  PROVE  Cardinality(Failures(steps, a, Len(steps))) <= consecutive
<1>1. Len(steps) \in Nat
  BY DEF TypeOK
<1>2. PICK f \in 1 .. Len(steps) + 1 : CountsFrom(f)
  BY DEF BreakerCounts
<1>3. f <= a
  BY <1>1, <1>2 DEF CountsFrom, NoneExecuted
<1>4. Failures(steps, a, Len(steps)) \subseteq Failures(steps, f, Len(steps))
  BY <1>1, <1>3 DEF Failures
<1>5. IsFiniteSet(Failures(steps, f, Len(steps)))
  BY <1>1, FailuresFinite
<1> QED BY <1>2, <1>4, <1>5, FS_Subset DEF CountsFrom

LEMMA BreakerKept ==
  ASSUME TypeOK, Progress, BreakerCounts, [Next]_vars
  PROVE  BreakerCounts'
<1> DEFINE n == Len(steps)
           k == Len(steps) + 1
           threshold == policy.circuitBreakerFailureThreshold
<1>1. n \in Nat /\ consecutive \in Nat /\ threshold \in Nat \ {0}
  BY PolicyFields DEF TypeOK
<1>2. PICK f \in 1 .. k : CountsFrom(f)
  BY DEF BreakerCounts
<1>3. \A a, b \in 1 .. n : Full(steps, a, b) =>
        resilience.circuitOpen /\ \A j \in b + 1 .. n : ~ (steps[j].attempts > 0)
  BY DEF BreakerCounts, Full, Tried
<1>4. CASE AddsNothing
  BY <1>4 DEF AddsNothing, BreakerCounts, CountsFrom, Tried, request
<1>5. ASSUME NEW skip, NEW tried, Adds(skip, tried)
      PROVE  /\ policy' = policy /\ Len(steps') = k
             /\ \A i \in 1 .. n : steps'[i] = steps[i]
             /\ steps'[k].executed <=> skip = "none"
             /\ steps'[k].attempts = tried
  BY <1>5 DEF Adds, request
\* Whatever is added, the runs that end before it are the old ones.
<1>6. ASSUME NEW skip, NEW tried, Adds(skip, tried),
             tried > 0 => Attempted,
             resilience.circuitOpen => resilience'.circuitOpen,
             \A a \in 1 .. k : Full(steps', a, k) => resilience'.circuitOpen
      PROVE  \A a, b \in 1 .. k : Full(steps', a, b) =>
               resilience'.circuitOpen
                 /\ \A j \in b + 1 .. k : ~ (steps'[j].attempts > 0)
  <2>1. SUFFICES ASSUME NEW a \in 1 .. k, NEW b \in 1 .. k, Full(steps', a, b)
                 PROVE  resilience'.circuitOpen
                          /\ \A j \in b + 1 .. k : ~ (steps'[j].attempts > 0)
    OBVIOUS
  <2>2. CASE b = k
    BY <1>1, <1>6, <2>1, <2>2
  <2>3. CASE b # k
    <3>1. b \in 1 .. n /\ b \in 0 .. n
      BY <1>1, <2>3
    <3>2. Full(steps, a, b)
      BY <1>6, <2>1, <3>1, FailuresExtend DEF Full
    <3>3. a \in 1 .. n
      <4>1. SUFFICES ASSUME a = k PROVE FALSE
        BY <1>1
      <4>2. Failures(steps, a, b) = {}
        BY <1>1, <3>1, <4>1 DEF Failures
      <4> QED BY <1>1, <3>2, <4>2, FS_EmptySet DEF Full
    <3>4. resilience.circuitOpen /\ \A j \in b + 1 .. n : ~ (steps[j].attempts > 0)
      BY <1>3, <3>1, <3>2, <3>3
    <3>5. ~ (tried > 0)
      BY <1>6, <3>4 DEF Attempted
    <3>6. \A j \in b + 1 .. k : ~ (steps'[j].attempts > 0)
      BY <1>1, <1>5, <1>6, <3>1, <3>4, <3>5
    <3> QED BY <1>6, <3>4, <3>6
  <2> QED BY <2>2, <2>3
<1>7. ASSUME NEW skip, NEW tried, Adds(skip, tried), skip # "none",
             tried > 0 => Attempted, ~ (tried > 0 /\ skip \in Failed),
             consecutive' = consecutive,
             resilience'.circuitOpen = resilience.circuitOpen
      PROVE  BreakerCounts'
  <2>1. policy' = policy /\ Len(steps') = k
    BY <1>5, <1>7
  <2>2. CountsFrom(f)'
    <3>1. f > 1 => steps'[f - 1].executed
      BY <1>1, <1>2, <1>5, <1>7 DEF CountsFrom
    <3>2. NoneExecuted(steps', f, k) /\ Cardinality(Failures(steps', f, k)) = consecutive
      BY <1>2, <1>7, FailuresExtend DEF CountsFrom
    <3> QED BY <1>7, <2>1, <3>1, <3>2 DEF CountsFrom
  <2>3. ASSUME NEW a \in 1 .. k, Full(steps', a, k)
        PROVE  resilience'.circuitOpen
    <3>1. Full(steps, a, n)
      BY <1>7, <2>3, FailuresExtend DEF Full
    <3>2. Cardinality(Failures(steps, a, n)) <= consecutive
      BY <3>1, RunWithinCount DEF Full
    <3>3. Cardinality(Failures(steps, a, n)) \in Nat
      BY <1>1, FailuresFinite
    <3> QED BY <1>1, <1>7, <3>1, <3>2, <3>3 DEF Full, BreakerCounts
  <2>4. \A a, b \in 1 .. k : Full(steps', a, b) =>
          resilience'.circuitOpen
            /\ \A j \in b + 1 .. k : ~ (steps'[j].attempts > 0)
    BY <1>6, <1>7, <2>3
  <2>5. f \in 1 .. k + 1
    BY <1>1
  <2> QED BY <1>7, <2>1, <2>2, <2>4, <2>5 DEF BreakerCounts, Full, Tried
<1>8. ASSUME NEW reason \in Skips, Skipped(reason)
      PROVE  BreakerCounts'
  BY <1>7, <1>8 DEF Skipped, Skips
<1>9. CASE Limited
  BY <1>7, <1>9 DEF Limited, Failed
<1>10. CASE Answered
  <2>1. /\ Adds("none", attempts + 1) /\ Attempted
        /\ consecutive' = 0 /\ resilience' = resilience
    BY <1>10 DEF Answered
  <2>2. policy' = policy /\ Len(steps') = k /\ steps'[k].executed
    BY <1>5, <2>1
  <2>3. PICK g : g = k + 1
    OBVIOUS
  <2>4. CountsFrom(g)'
    <3>1. NoneExecuted(steps', g, k) /\ Failures(steps', g, k) = {}
      BY <1>1, <2>3 DEF NoneExecuted, Failures
    <3>2. Cardinality(Failures(steps', g, k)) = 0
      BY <3>1, FS_EmptySet
    <3>3. g - 1 = k
      BY <1>1, <2>3
    <3> QED BY <2>1, <2>2, <3>1, <3>2, <3>3 DEF CountsFrom
  <2>5. \A a \in 1 .. k : ~ NoneExecuted(steps', a, k)
    BY <1>1, <2>2 DEF NoneExecuted
  <2>6. \A a, b \in 1 .. k : Full(steps', a, b) =>
          resilience'.circuitOpen
            /\ \A j \in b + 1 .. k : ~ (steps'[j].attempts > 0)
    BY <1>6, <2>1, <2>5 DEF Full
  <2>7. g \in 1 .. k + 1 /\ ~ resilience.circuitOpen /\ ~ (0 >= threshold)
    BY <1>1, <2>1, <2>3 DEF Attempted
  <2> QED BY <2>1, <2>2, <2>4, <2>6, <2>7 DEF BreakerCounts, Full, Tried
<1>11. ASSUME NEW skip \in Failed, Ended(skip)
       PROVE  BreakerCounts'
  <2>1. /\ Adds(skip, attempts + 1) /\ Attempted
        /\ consecutive' = consecutive + 1
        /\ resilience'.circuitOpen <=> consecutive + 1 >= threshold
        /\ skip # "none" /\ attempts + 1 > 0
    <3>1. attempts \in Nat
      BY PolicyFields DEF TypeOK
    <3> QED BY <1>11, <3>1 DEF Ended, Failed
  <2>2. policy' = policy /\ Len(steps') = k
    BY <1>5, <2>1
  <2>3. CountsFrom(f)'
    <3>1. f > 1 => steps'[f - 1].executed
      BY <1>1, <1>2, <1>5, <2>1 DEF CountsFrom
    <3>2. NoneExecuted(steps', f, k) /\ Cardinality(Failures(steps', f, k)) = consecutive + 1
      BY <1>2, <1>11, <2>1, FailuresExtend DEF CountsFrom
    <3> QED BY <2>1, <2>2, <3>1, <3>2 DEF CountsFrom
  <2>4. ASSUME NEW a \in 1 .. k, Full(steps', a, k)
        PROVE  resilience'.circuitOpen
    <3>1. /\ NoneExecuted(steps, a, n)
          /\ Cardinality(Failures(steps', a, k)) = Cardinality(Failures(steps, a, n)) + 1
      BY <1>11, <2>1, <2>4, FailuresExtend DEF Full
    <3>2. Cardinality(Failures(steps, a, n)) <= consecutive
      BY <3>1, RunWithinCount
    <3>3. Cardinality(Failures(steps, a, n)) \in Nat
      BY <1>1, FailuresFinite
    <3> QED BY <1>1, <2>1, <2>4, <3>1, <3>2, <3>3 DEF Full
  <2>5. \A a, b \in 1 .. k : Full(steps', a, b) =>
          resilience'.circuitOpen
            /\ \A j \in b + 1 .. k : ~ (steps'[j].attempts > 0)
    BY <1>6, <2>1, <2>4 DEF Attempted
  <2>6. f \in 1 .. k + 1
    BY <1>1
  <2> QED BY <2>1, <2>2, <2>3, <2>5, <2>6 DEF BreakerCounts, Full, Tried
<1> QED BY <1>4, <1>8, <1>9, <1>10, <1>11, StepEffects

-----------------------------------------------------------------------------
(* The summary.                                                            *)

EndedFor(s, why) == {i \in 1 .. Len(s) : s[i].attempts > 0 /\ s[i].skip = why}

Retried(s) ==
  {r \in (1 .. Len(s)) \X (1 .. policy.maxStageRetries) : r[2] < s[r[1]].attempts}

LEMMA EndedExtend ==
  ASSUME TypeOK, NEW skip, NEW tried, Adds(skip, tried), NEW why
  PROVE  /\ Cardinality(EndedFor(steps, why)) \in Nat
         /\ Cardinality(EndedFor(steps', why)) =
              IF tried > 0 /\ skip = why THEN Cardinality(EndedFor(steps, why)) + 1
                                         ELSE Cardinality(EndedFor(steps, why))
<1> DEFINE k == Len(steps) + 1
<1>1. Len(steps) \in Nat
  BY DEF TypeOK
<1>2. /\ Len(steps') = k
      /\ \A i \in 1 .. Len(steps) : steps'[i] = steps[i]
      /\ steps'[k].skip = skip /\ steps'[k].attempts = tried
  BY DEF Adds
<1>3. 1 .. k = (1 .. Len(steps)) \cup {k} /\ k \notin 1 .. Len(steps)
  BY <1>1
<1>4. IsFiniteSet(EndedFor(steps, why))
  <2>1. IsFiniteSet(1 .. Len(steps)) /\ EndedFor(steps, why) \subseteq 1 .. Len(steps)
    BY <1>1, FS_Interval DEF EndedFor
  <2> QED BY <2>1, FS_Subset
<1>5. CASE tried > 0 /\ skip = why
  <2>1. EndedFor(steps', why) = EndedFor(steps, why) \cup {k}
    BY <1>2, <1>3, <1>5 DEF EndedFor
  <2>2. k \notin EndedFor(steps, why)
    BY <1>3 DEF EndedFor
  <2> QED BY <1>4, <1>5, <2>1, <2>2, FS_AddElement, FS_CardinalityType
<1>6. CASE ~ (tried > 0 /\ skip = why)
  <2>1. EndedFor(steps', why) = EndedFor(steps, why)
    BY <1>2, <1>3, <1>6 DEF EndedFor
  <2> QED BY <1>4, <1>6, <2>1, FS_CardinalityType
<1> QED BY <1>5, <1>6

LEMMA RetriedFinite ==
  ASSUME TypeOK
  PROVE  IsFiniteSet(Retried(steps)) /\ Cardinality(Retried(steps)) \in Nat
<1> DEFINE all == (1 .. Len(steps)) \X (1 .. policy.maxStageRetries)
<1>1. Len(steps) \in Nat /\ policy.maxStageRetries \in Nat
  BY PolicyFields DEF TypeOK
<1>2. IsFiniteSet(1 .. Len(steps)) /\ IsFiniteSet(1 .. policy.maxStageRetries)
  BY <1>1, FS_Interval
<1>3. IsFiniteSet(all) /\ Retried(steps) \subseteq all
  BY <1>2, FS_Product DEF Retried
<1>4. IsFiniteSet(Retried(steps))
  BY <1>3, FS_Subset
<1> QED BY <1>4, FS_CardinalityType

LEMMA RetriedExtend ==
  ASSUME TypeOK, NEW skip, NEW tried \in 0 .. policy.maxStageRetries + 1,
         Adds(skip, tried)
  PROVE  /\ Cardinality(Retried(steps)) \in Nat
         /\ Cardinality(Retried(steps')) =
              Cardinality(Retried(steps)) + (IF tried = 0 THEN 0 ELSE tried - 1)
<1> DEFINE k == Len(steps) + 1
           max == policy.maxStageRetries
           new == {k} \X (1 .. tried - 1)
<1>1. Len(steps) \in Nat /\ max \in Nat
  BY PolicyFields DEF TypeOK
<1>2. /\ Len(steps') = k
      /\ \A i \in 1 .. Len(steps) : steps'[i] = steps[i]
      /\ steps'[k].attempts = tried
  BY DEF Adds
<1>3. 1 .. k = (1 .. Len(steps)) \cup {k} /\ k \notin 1 .. Len(steps)
  BY <1>1
<1>4. IsFiniteSet(Retried(steps)) /\ Cardinality(Retried(steps)) \in Nat
  BY RetriedFinite
<1>5. Retried(steps') = Retried(steps) \cup new
  <2>1. ASSUME NEW i \in 1 .. k, NEW m \in 1 .. max
        PROVE  m < steps'[i].attempts <=>
                 \/ i \in 1 .. Len(steps) /\ m < steps[i].attempts
                 \/ i = k /\ m \in 1 .. tried - 1
    BY <1>1, <1>2, <1>3
  <2>2. \A m \in 1 .. tried - 1 : m \in 1 .. max
    BY <1>1
  <2> QED BY <1>2, <1>3, <2>1, <2>2 DEF Retried
<1>6. Retried(steps) \cap new = {}
  BY <1>3 DEF Retried
<1>7. IsFiniteSet(new) /\ Cardinality(new) = IF tried = 0 THEN 0 ELSE tried - 1
  <2>1. /\ IsFiniteSet(1 .. tried - 1)
        /\ Cardinality(1 .. tried - 1) = IF tried = 0 THEN 0 ELSE tried - 1
    <3>1. 1 \in Int /\ tried - 1 \in Int /\ tried \in Nat
      BY <1>1
    <3>2. /\ IsFiniteSet(1 .. tried - 1)
          /\ Cardinality(1 .. tried - 1) =
               IF 1 > tried - 1 THEN 0 ELSE (tried - 1) - 1 + 1
      BY <3>1, FS_Interval
    <3> QED BY <3>1, <3>2
  <2>2. IsFiniteSet({k}) /\ Cardinality({k}) = 1
    BY FS_Singleton
  <2>3. IsFiniteSet(new) /\ Cardinality(new) = 1 * Cardinality(1 .. tried - 1)
    BY <2>1, <2>2, FS_Product
  <2>4. Cardinality(1 .. tried - 1) \in Nat
    BY <2>1, FS_CardinalityType
  <2> QED BY <2>1, <2>3, <2>4
<1> HIDE DEF new
<1>8. Cardinality(Retried(steps) \cup new) =
        Cardinality(Retried(steps)) + Cardinality(new) - Cardinality({})
  BY <1>4, <1>6, <1>7, FS_Union
<1>9. Cardinality({}) = 0
  BY FS_EmptySet
<1> QED BY <1>4, <1>5, <1>7, <1>8, <1>9

LEMMA CountersMean ==
  CountersAgree <=>
    /\ resilience.retries = Cardinality(Retried(steps)) + attempts
    /\ resilience.failures = Cardinality(EndedFor(steps, "stage_failure"))
    /\ resilience.timeouts = Cardinality(EndedFor(steps, "stage_timeout"))
    /\ resilience.rateLimited = Cardinality(EndedFor(steps, "rate_limited"))
BY DEF CountersAgree, Retried, EndedFor, Tried

LEMMA CountersKept ==
  ASSUME TypeOK, Progress, CountersAgree, [Next]_vars
  PROVE  CountersAgree'
<1>1. /\ policy.maxStageRetries \in Nat /\ attempts \in 0 .. policy.maxStageRetries
      /\ resilience.retries \in Nat /\ resilience.failures \in Nat
      /\ resilience.timeouts \in Nat /\ resilience.rateLimited \in Nat
  BY PolicyFields DEF TypeOK, Resilience
<1>2. /\ resilience.retries = Cardinality(Retried(steps)) + attempts
      /\ resilience.failures = Cardinality(EndedFor(steps, "stage_failure"))
      /\ resilience.timeouts = Cardinality(EndedFor(steps, "stage_timeout"))
      /\ resilience.rateLimited = Cardinality(EndedFor(steps, "rate_limited"))
  BY CountersMean
<1>3. CountersAgree' <=>
        /\ resilience'.retries = Cardinality(Retried(steps))' + attempts'
        /\ resilience'.failures = Cardinality(EndedFor(steps', "stage_failure"))
        /\ resilience'.timeouts = Cardinality(EndedFor(steps', "stage_timeout"))
        /\ resilience'.rateLimited = Cardinality(EndedFor(steps', "rate_limited"))
  BY DEF CountersAgree, Retried, EndedFor, Tried
<1>4. ASSUME policy' = policy
      PROVE  Retried(steps)' = Retried(steps')
  BY <1>4 DEF Retried
<1>5. CASE AddsNothing
  <2>1. /\ policy' = policy /\ steps' = steps
        /\ resilience'.retries - attempts' = resilience.retries - attempts
        /\ resilience'.failures = resilience.failures
        /\ resilience'.timeouts = resilience.timeouts
        /\ resilience'.rateLimited = resilience.rateLimited
    BY <1>5 DEF AddsNothing, request
  <2>2. /\ resilience'.retries \in Nat /\ attempts' \in Nat
    <3>1. TypeOK'
      BY TypeKept
    <3>2. policy'.maxStageRetries \in Nat
      BY <1>1, <2>1
    <3> QED BY <3>1, <3>2 DEF TypeOK, Resilience
  <2>3. Retried(steps)' = Retried(steps)
    BY <1>4, <2>1
  <2>4. Cardinality(Retried(steps)) \in Nat
    BY RetriedFinite
  <2> QED BY <1>1, <1>2, <1>3, <2>1, <2>2, <2>3, <2>4
<1>6. ASSUME NEW skip, NEW tried \in 0 .. policy.maxStageRetries + 1,
             Adds(skip, tried),
             tried = IF attempts = 0 /\ tried = 0 THEN 0 ELSE attempts + 1,
             resilience'.retries = resilience.retries,
             resilience'.failures = resilience.failures
               + (IF tried > 0 /\ skip = "stage_failure" THEN 1 ELSE 0),
             resilience'.timeouts = resilience.timeouts
               + (IF tried > 0 /\ skip = "stage_timeout" THEN 1 ELSE 0),
             resilience'.rateLimited = resilience.rateLimited
               + (IF tried > 0 /\ skip = "rate_limited" THEN 1 ELSE 0)
      PROVE  CountersAgree'
  <2>1. policy' = policy /\ attempts' = 0
    BY <1>6 DEF Adds, request
  <2>2. /\ Cardinality(Retried(steps)) \in Nat
        /\ Cardinality(Retried(steps')) =
             Cardinality(Retried(steps)) + (IF tried = 0 THEN 0 ELSE tried - 1)
    BY <1>6, RetriedExtend
  <2>3. resilience'.retries = Cardinality(Retried(steps)') + attempts'
    <3>1. Retried(steps)' = Retried(steps')
      BY <1>4, <2>1
    <3> QED BY <1>1, <1>2, <1>6, <2>1, <2>2, <3>1
  <2>4. resilience'.failures = Cardinality(EndedFor(steps', "stage_failure"))
    BY <1>1, <1>2, <1>6, EndedExtend
  <2>5. resilience'.timeouts = Cardinality(EndedFor(steps', "stage_timeout"))
    BY <1>1, <1>2, <1>6, EndedExtend
  <2>6. resilience'.rateLimited = Cardinality(EndedFor(steps', "rate_limited"))
    BY <1>1, <1>2, <1>6, EndedExtend
  <2> QED BY <1>3, <2>3, <2>4, <2>5, <2>6
<1>7. ASSUME NEW reason \in Skips, Skipped(reason)
      PROVE  CountersAgree'
  <2>1. /\ Adds(reason, 0) /\ attempts = 0 /\ resilience' = resilience
        /\ 0 \in 0 .. policy.maxStageRetries + 1
    BY <1>1, <1>7 DEF Skipped
  <2> QED BY <1>1, <1>6, <2>1
<1>8. CASE Limited
  <2>1. /\ Adds("rate_limited", attempts + 1)
        /\ attempts + 1 \in 0 .. policy.maxStageRetries + 1 /\ attempts + 1 > 0
    BY <1>1, <1>8 DEF Limited
  <2> QED BY <1>1, <1>6, <1>8, <2>1 DEF Limited
<1>9. CASE Answered
  <2>1. /\ Adds("none", attempts + 1) /\ resilience' = resilience
        /\ attempts + 1 \in 0 .. policy.maxStageRetries + 1 /\ attempts + 1 > 0
    BY <1>1, <1>9 DEF Answered
  <2> QED BY <1>1, <1>6, <2>1
<1>10. ASSUME NEW skip \in Failed, Ended(skip)
       PROVE  CountersAgree'
  <2>1. /\ Adds(skip, attempts + 1) /\ skip # "rate_limited"
        /\ attempts + 1 \in 0 .. policy.maxStageRetries + 1 /\ attempts + 1 > 0
    BY <1>1, <1>10 DEF Ended, Failed
  <2> QED BY <1>1, <1>6, <1>10, <2>1 DEF Ended
<1> QED BY <1>5, <1>7, <1>8, <1>9, <1>10, StepEffects

\* Every skip is reported, and a report stays explained as the path goes on.
LEMMA CodesKept ==
  ASSUME TypeOK, Progress, BreakerCounts, CodesExplainSteps, [Next]_vars
  PROVE  CodesExplainSteps'
<1> DEFINE k == Len(steps) + 1
           SkippedFor(s, n, why) == \E i \in 1 .. n : s[i].skip = why
           Verified(s, n) == \E i \in 1 .. n : s[i].executed /\ s[i].to = "verifier"
<1>1. Len(steps) \in Nat
  BY DEF TypeOK
<1>2. \A why \in Skips :
        /\ SkippedFor(steps, Len(steps), why) => why \in codes
        /\ why \in codes =>
             \/ SkippedFor(steps, Len(steps), why)
             \/ why = "circuit_open" /\ resilience.circuitOpen
             \/ why = "trust_gate" /\ Verified(steps, Len(steps))
  BY DEF CodesExplainSteps
<1>3. CASE AddsNothing
  BY <1>3 DEF AddsNothing, CodesExplainSteps
<1>4. ASSUME NEW skip, NEW tried, Adds(skip, tried),
             resilience.circuitOpen => resilience'.circuitOpen,
             codes \subseteq codes', skip # "none" => skip \in codes',
             \A why \in codes' \ codes :
               \/ why = skip
               \/ why = "circuit_open" /\ resilience'.circuitOpen
               \/ why = "trust_gate" /\ skip = "none" /\ handoffs[stage] = "verifier"
               \/ why \notin Skips
      PROVE  CodesExplainSteps'
  <2>1. /\ Len(steps') = k
        /\ \A i \in 1 .. Len(steps) : steps'[i] = steps[i]
        /\ steps'[k].to = handoffs[stage]
        /\ steps'[k].executed <=> skip = "none"
        /\ steps'[k].skip = skip
    BY <1>4 DEF Adds
  <2>2. k \in 1 .. k /\ 1 .. k = (1 .. Len(steps)) \cup {k}
    BY <1>1
  <2>3. \A why : SkippedFor(steps', k, why) <=>
                   SkippedFor(steps, Len(steps), why) \/ why = skip
    BY <2>1, <2>2
  <2>4. Verified(steps', k) <=>
          Verified(steps, Len(steps)) \/ (skip = "none" /\ handoffs[stage] = "verifier")
    BY <2>1, <2>2
  <2> HIDE DEF SkippedFor, Verified
  <2>5. ASSUME NEW why \in Skips
        PROVE  /\ SkippedFor(steps', k, why) => why \in codes'
               /\ why \in codes' =>
                    \/ SkippedFor(steps', k, why)
                    \/ why = "circuit_open" /\ resilience'.circuitOpen
                    \/ why = "trust_gate" /\ Verified(steps', k)
    <3>1. why # "none"
      BY DEF Skips
    <3>2. SkippedFor(steps', k, why) => why \in codes'
      BY <1>2, <1>4, <2>3, <3>1
    <3>3. CASE why \in codes
      BY <1>2, <1>4, <2>3, <2>4, <3>3
    <3>4. CASE why \in codes' \ codes
      BY <1>4, <2>3, <2>4, <3>4
    <3> QED BY <3>2, <3>3, <3>4
  <2> QED BY <2>1, <2>5 DEF CodesExplainSteps, SkippedFor, Verified
<1>5. ASSUME NEW reason \in Skips, Skipped(reason)
      PROVE  CodesExplainSteps'
  BY <1>4, <1>5 DEF Skipped
<1>6. CASE Limited
  BY <1>4, <1>6 DEF Limited
<1>7. CASE Answered
  <2>1. \A why \in codes' \ codes : why = "dangerous" \/
          (why = "trust_gate" /\ handoffs[stage] = "verifier")
    BY <1>7 DEF Answered
  <2> QED BY <1>4, <1>7, <2>1 DEF Answered, Skips
<1>8. ASSUME NEW skip \in Failed, Ended(skip)
      PROVE  CodesExplainSteps'
  BY <1>4, <1>8 DEF Ended, Attempted
<1> QED BY <1>3, <1>5, <1>6, <1>7, <1>8, StepEffects

-----------------------------------------------------------------------------
(* The invariant.                                                          *)

LEMMA Initial == Init => IInv
<1> SUFFICES ASSUME Init PROVE IInv
  OBVIOUS
<1>1. /\ policy \in Policies /\ policy.maxStageRetries \in Nat
      /\ policy.circuitBreakerFailureThreshold \in Nat \ {0}
      /\ policy.rateLimitMaxExecutions \in Nat
      /\ Top \in Nat /\ MaxTime \in Nat
  BY PolicyFields, QualityAssumption DEF Init
<1>2. handoffs \in Seq(Stages)
  <2> DEFINE only(s) == IF s \in policy.include THEN <<s>> ELSE << >>
  <2>1. \A s \in Stages : only(s) \in Seq(Stages)
    OBVIOUS
  <2>2. only("tester") \o only("reviewer") \o only("verifier") \in Seq(Stages)
    <3> HIDE DEF only
    <3> QED BY <2>1, ConcatProperties DEF Stages
  <2> QED BY <2>2 DEF Init, composeQualityPath
<1>3. steps = << >> /\ Len(steps) = 0 /\ 1 .. 0 = {} /\ starts = << >> /\ Len(starts) = 0
  BY DEF Init
<1>4. resilience \in Resilience
  BY DEF Init, Resilience
<1>5. TypeOK
  BY <1>1, <1>2, <1>4 DEF Init, TypeOK
<1>6. Progress
  BY <1>3 DEF Init, Progress
<1>7. StepsAreDecided /\ Blocked
  BY <1>3 DEF StepsAreDecided, Blocked
<1>8. BreakerCounts
  <2>1. NoneExecuted(steps, 1, 0) /\ Failures(steps, 1, 0) = {}
    BY <1>3 DEF NoneExecuted, Failures
  <2>2. CountsFrom(1)
    <3>1. Cardinality(Failures(steps, 1, 0)) = 0
      BY <2>1, FS_EmptySet
    <3> QED BY <1>3, <2>1, <3>1 DEF CountsFrom, Init
  <2>3. ~ resilience.circuitOpen /\ consecutive = 0
    BY DEF Init
  <2> QED BY <1>1, <1>3, <2>2, <2>3 DEF BreakerCounts
<1>9. StartsAreOrdered
  BY <1>3 DEF StartsAreOrdered
<1>10. RateRespected
  BY <1>1, <1>3 DEF RateRespected
<1>11. DangerFailsGate
  BY <1>3 DEF DangerFailsGate
<1>12. CountersAgree
  <2>1. /\ Retried(steps) = {}
        /\ \A why : EndedFor(steps, why) = {}
    BY <1>3 DEF Retried, EndedFor
  <2>2. /\ resilience.retries = 0 /\ resilience.failures = 0
        /\ resilience.timeouts = 0 /\ resilience.rateLimited = 0 /\ attempts = 0
    BY DEF Init
  <2> QED BY <2>1, <2>2, FS_EmptySet, CountersMean
<1>13. CodesExplainSteps
  BY <1>3 DEF CodesExplainSteps, Init
<1> QED BY <1>5, <1>6, <1>7, <1>8, <1>9, <1>10, <1>11, <1>12, <1>13
        DEF IInv, ReportAgrees

LEMMA Inductive == IInv /\ [Next]_vars => IInv'
<1> SUFFICES ASSUME IInv, [Next]_vars PROVE IInv'
  OBVIOUS
<1>1. TypeOK' /\ Progress' /\ StepsAreDecided' /\ Blocked' /\ BreakerCounts'
  BY TypeKept, ProgressKept, DecidedKept, BlockedKept, BreakerKept DEF IInv
<1>2. StartsAreOrdered' /\ RateRespected' /\ DangerFailsGate'
  BY OrderKept, RateKept, DangerKept DEF IInv
<1>3. ReportAgrees'
  BY CountersKept, CodesKept DEF IInv, ReportAgrees
<1> QED BY <1>1, <1>2, <1>3 DEF IInv

LEMMA Always == Spec => []IInv
BY Initial, Inductive, PTL DEF Spec

-----------------------------------------------------------------------------
(* Theorems.                                                               *)

\* Types: a stage is attempted only while there is one, and a step never
\* retries more often than the policy allows.
THEOREM QualityTypeCorrect == Spec => []TypeOK
<1>1. IInv => TypeOK
  BY DEF IInv
<1> QED BY <1>1, Always, PTL

\* Every handoff gets exactly one step, in order, whatever the retries,
\* timeouts, gates, limits and the breaker do (the loop of executeQualityPath).
THEOREM EveryHandoffHasOneStep == Spec => []OneStepPerHandoff
<1>1. IInv => OneStepPerHandoff
  BY DEF IInv, TypeOK, Progress, OneStepPerHandoff
<1> QED BY <1>1, Always, PTL

\* A stage that failed, timed out or met the rate limit, when the policy does
\* not continue on that, is the last one tried (blockingSkipReason).
THEOREM PathFailsClosed == Spec => []FailClosed
<1>1. ASSUME IInv PROVE FailClosed
  <2>1. Len(steps) \in Nat
    BY <1>1 DEF IInv, TypeOK
  <2>2. \A i, j \in 1 .. Len(steps) : i < j => j \in i + 1 .. Len(steps)
    BY <2>1
  <2> QED BY <1>1, <2>2 DEF IInv, Blocked, FailClosed
<1> QED BY <1>1, Always, PTL

\* The breaker is open exactly when some run of stages without a success has
\* as many failures as the threshold, and no stage is tried after such a run
\* (consecutiveStageFailures and circuitOpen).
THEOREM BreakerTripsAtThreshold == Spec => []BreakerTrips
<1>1. ASSUME IInv PROVE BreakerTrips
  <2> DEFINE n == Len(steps)
             threshold == policy.circuitBreakerFailureThreshold
  <2>1. n \in Nat /\ consecutive \in Nat /\ threshold \in Nat \ {0}
    BY <1>1, PolicyFields DEF IInv, TypeOK
  <2>2. \A a, b : Full(steps, a, b) <=>
          /\ \A i \in a .. b : ~ steps[i].executed
          /\ Cardinality({i \in a .. b : FailedStage(i)}) >= threshold
    BY DEF Full, NoneExecuted, Failures, FailedStage, Tried
  <2>3. \A a, b \in 1 .. n : Full(steps, a, b) =>
          resilience.circuitOpen /\ \A j \in b + 1 .. n : ~ Tried(j)
    BY <1>1 DEF IInv, BreakerCounts, Full
  <2>4. ASSUME resilience.circuitOpen
        PROVE  \E a, b \in 1 .. n : Full(steps, a, b)
    <3>1. PICK f \in 1 .. n + 1 : CountsFrom(f)
      BY <1>1 DEF IInv, BreakerCounts
    <3>2. consecutive >= threshold
      BY <1>1, <2>4 DEF IInv, BreakerCounts
    <3>3. Full(steps, f, n)
      BY <3>1, <3>2 DEF CountsFrom, Full
    <3>4. f # n + 1
      <4>1. SUFFICES ASSUME f = n + 1 PROVE FALSE
        OBVIOUS
      <4>2. Failures(steps, f, n) = {}
        BY <2>1, <4>1 DEF Failures
      <4> QED BY <2>1, <3>3, <4>2, FS_EmptySet DEF Full
    <3>5. f \in 1 .. n /\ n \in 1 .. n
      BY <2>1, <3>1, <3>4
    <3> QED BY <3>3, <3>5
  <2>5. BreakerOpensAtThreshold
    BY <2>2, <2>3, <2>4 DEF BreakerOpensAtThreshold
  <2>6. OpenBreakerStops
    BY <2>2, <2>3 DEF OpenBreakerStops
  <2> QED BY <2>5, <2>6 DEF BreakerTrips
<1> QED BY <1>1, Always, PTL

\* In no window do more attempts start than the policy allows, retries
\* included, however the clock runs (the timestamps of executeQualityPath).
THEOREM RateIsLimited == Spec => []RateRespected
<1>1. IInv => RateRespected
  BY DEF IInv
<1> QED BY <1>1, Always, PTL

\* Once a reviewer or verifier has answered a dangerous query both scores are
\* 0, whatever the verifier's own verdict (executeQualityPath).
THEOREM DangerKeepsGateShut == Spec => []DangerFailsGate
<1>1. IInv => DangerFailsGate
  BY DEF IInv
<1> QED BY <1>1, Always, PTL

\* The counters and reason codes of the summary are those of its steps.
THEOREM SummaryAgreesWithSteps == Spec => []ReportAgrees
<1>1. IInv => ReportAgrees
  BY DEF IInv
<1> QED BY <1>1, Always, PTL

=============================================================================
