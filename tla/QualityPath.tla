----------------------------- MODULE QualityPath -----------------------------
(***************************************************************************)
(* ExpertOrchestrator.executeQualityPath (src/agents/expert.ts): the       *)
(* stages tester, reviewer and verifier run in order, each behind the      *)
(* trust and goal gates, with a timeout and retries, a circuit breaker and *)
(* a rate limit. The policy says what is enforced and after which kind of  *)
(* skip the path goes on.                                                  *)
(*                                                                         *)
(* Scores and their thresholds are the integers 0 .. Top, Top standing for *)
(* 1.0. The clock does not go back. Bound of the model: MaxTime.           *)
(***************************************************************************)
EXTENDS Integers, Sequences, FiniteSets

CONSTANTS
  Policies,  \* the resolved policies to consider
  Top,       \* the score 1.0
  MaxTime    \* the clock stops here

Stages == {"tester", "reviewer", "verifier"}

\* QUALITY_GATE_SKIP_REASON_MAP. The reason codes of the summary are named
\* after the skip they belong to, except the verifier's "dangerous_..." ones.
Skips == {"trust_gate", "goal_gate", "stage_failure", "stage_timeout",
          "circuit_open", "rate_limited"}

Codes == Skips \cup {"dangerous"}

\* A policy after resolveQualityExecutionPolicy has clamped it. continueOn is
\* the set of skips whose continueOn... flag is set.
Policy == [include                        : SUBSET Stages,
           enforceTrustGate               : BOOLEAN,
           enforceGoalGate                : BOOLEAN,
           minTrustScore                  : 0 .. Top,
           minGoalCompletion              : 0 .. Top,
           continueOn                     : SUBSET (Skips \ {"circuit_open"}),
           maxStageRetries                : Nat,
           circuitBreakerFailureThreshold : Nat \ {0},
           rateLimitMaxExecutions         : Nat,
           rateLimitWindow                : Nat \ {0}]

ASSUME QualityAssumption ==
  /\ Top \in Nat
  /\ MaxTime \in Nat
  /\ Policies \subseteq Policy

VARIABLES
  policy,       \* the resolved policy
  dangerous,    \* whether the query matches a dangerous pattern
  handoffs,     \* the stages to run, in order
  pc,           \* "stage", "attempt", "running" or "done"
  stage,        \* position in handoffs
  attempts,     \* failed attempts of the stage so far
  now,          \* the clock
  starts,       \* start times of the attempts that passed the rate limit
  trust,        \* currentTrustScore
  goal,         \* currentGoalCompletion
  blocking,     \* blockingSkipReason, or "none"
  consecutive,  \* consecutiveStageFailures
  resilience,   \* counters of the summary
  codes,        \* reason codes of the summary
  steps         \* what became of each stage

request == <<policy, dangerous, handoffs>>
control == <<pc, stage, attempts>>
timing  == <<now, starts>>
gate    == <<trust, goal>>
breaker == <<blocking, consecutive, resilience>>
report  == <<codes, steps>>
vars    == <<request, control, timing, gate, breaker, report>>

\* attempts is 0 when the stage was skipped before any attempt; trust and
\* goal are the gate state the stage met.
Step == [to       : Stages,
         executed : BOOLEAN,
         skip     : Skips \cup {"none"},
         attempts : Nat,
         trust    : 0 .. Top,
         goal     : 0 .. Top]

Resilience == [retries : Nat, failures : Nat, timeouts : Nat,
               circuitOpen : BOOLEAN, rateLimited : Nat]

TypeOK ==
  /\ policy \in Policies
  /\ dangerous \in BOOLEAN
  /\ handoffs \in Seq(Stages)
  /\ pc \in {"stage", "attempt", "running", "done"}
  /\ stage \in 1 .. Len(handoffs) + 1
  /\ pc \in {"attempt", "running"} => stage \in 1 .. Len(handoffs)
  /\ attempts \in 0 .. policy.maxStageRetries
  /\ now \in 0 .. MaxTime
  /\ starts \in Seq(0 .. MaxTime)
  /\ trust \in 0 .. Top
  /\ goal \in 0 .. Top
  /\ blocking \in Skips \cup {"none"}
  /\ consecutive \in Nat
  /\ resilience \in Resilience
  /\ codes \subseteq Codes
  /\ steps \in Seq(Step)

\* Stages left out of the policy have no handoff.
composeQualityPath(include) ==
  LET only(s) == IF s \in include THEN <<s>> ELSE << >>
  IN  only("tester") \o only("reviewer") \o only("verifier")

Init ==
  /\ policy \in Policies
  /\ dangerous \in BOOLEAN
  /\ handoffs = composeQualityPath(policy.include)
  /\ pc = "stage"
  /\ stage = 1
  /\ attempts = 0
  /\ now = 0
  /\ starts = << >>
  /\ trust \in 0 .. Top
  /\ goal \in 0 .. Top
  /\ blocking = "none"
  /\ consecutive = 0
  /\ resilience = [retries |-> 0, failures |-> 0, timeouts |-> 0,
                   circuitOpen |-> FALSE, rateLimited |-> 0]
  /\ codes = {}
  /\ steps = << >>

-----------------------------------------------------------------------------
(* Before a stage is attempted.                                            *)

trustPassed == ~ policy.enforceTrustGate \/ trust >= policy.minTrustScore

goalPassed == ~ policy.enforceGoalGate \/ goal >= policy.minGoalCompletion

\* Trust is looked at first.
resolveSkipReason ==
  IF ~ trustPassed /\ "trust_gate" \notin policy.continueOn THEN "trust_gate"
  ELSE IF ~ goalPassed /\ "goal_gate" \notin policy.continueOn THEN "goal_gate"
  ELSE "none"

AtStage == pc = "stage" /\ stage \in 1 .. Len(handoffs)

\* The record of the stage, and the move to the next one.
Conclude(executed, skip, tried) ==
  /\ steps' = Append(steps, [to       |-> handoffs[stage],
                             executed |-> executed,
                             skip     |-> skip,
                             attempts |-> tried,
                             trust    |-> trust,
                             goal     |-> goal])
  /\ pc' = "stage"
  /\ stage' = stage + 1
  /\ attempts' = 0

\* Mutant: the skip is not reported.
SkipStage_Silent(reason) ==
  /\ AtStage
  /\ Conclude(FALSE, reason, 0)
  /\ UNCHANGED <<request, timing, gate, breaker, codes>>

SkipStage(reason) ==
  /\ AtStage
  /\ codes' = codes \cup {reason}
  /\ Conclude(FALSE, reason, 0)
  /\ UNCHANGED <<request, timing, gate, breaker>>

\* An earlier skip that does not continue blocks every later stage.
SkipBlocked == blocking # "none" /\ SkipStage(blocking)

SkipCircuitOpen ==
  /\ blocking = "none"
  /\ resilience.circuitOpen
  /\ SkipStage("circuit_open")

\* A gate is evaluated anew for every stage: it blocks by itself.
SkipGate ==
  /\ blocking = "none"
  /\ ~ resilience.circuitOpen
  /\ resolveSkipReason # "none"
  /\ SkipStage(resolveSkipReason)

\* Mutants: a missing check of the end, of the blocking skip, of the breaker.
BeginStage_PastEnd ==
  /\ pc = "stage"
  /\ blocking = "none" /\ ~ resilience.circuitOpen /\ resolveSkipReason = "none"
  /\ pc' = "attempt"
  /\ UNCHANGED <<request, stage, attempts, timing, gate, breaker, report>>

BeginStage_Unblocked ==
  /\ AtStage
  /\ ~ resilience.circuitOpen /\ resolveSkipReason = "none"
  /\ pc' = "attempt"
  /\ UNCHANGED <<request, stage, attempts, timing, gate, breaker, report>>

BeginStage_NoBreaker ==
  /\ AtStage
  /\ blocking = "none" /\ resolveSkipReason = "none"
  /\ pc' = "attempt"
  /\ UNCHANGED <<request, stage, attempts, timing, gate, breaker, report>>

BeginStage ==
  /\ AtStage
  /\ blocking = "none"
  /\ ~ resilience.circuitOpen
  /\ resolveSkipReason = "none"
  /\ pc' = "attempt"
  /\ UNCHANGED <<request, stage, attempts, timing, gate, breaker, report>>

\* Mutants: off by one at the end of the path.
Finish_Early ==
  /\ pc = "stage"
  /\ stage >= Len(handoffs)
  /\ pc' = "done"
  /\ UNCHANGED <<request, stage, attempts, timing, gate, breaker, report>>

Finish_Late ==
  /\ pc = "stage"
  /\ stage > Len(handoffs) + 1
  /\ pc' = "done"
  /\ UNCHANGED <<request, stage, attempts, timing, gate, breaker, report>>

Finish ==
  /\ pc = "stage"
  /\ stage > Len(handoffs)
  /\ pc' = "done"
  /\ UNCHANGED <<request, stage, attempts, timing, gate, breaker, report>>

-----------------------------------------------------------------------------
(* An attempt.                                                             *)

\* Mutant: an attempt exactly one window ago is forgotten.
InWindow_Open(t) == {i \in 1 .. Len(starts) : starts[i] > t - policy.rateLimitWindow}

\* The attempts still in the window that ends at time t.
InWindow(t) == {i \in 1 .. Len(starts) : starts[i] >= t - policy.rateLimitWindow}

\* Bound of the model: the clock moves only where the limit reads it.
Times == IF policy.rateLimitMaxExecutions = 0 THEN {now} ELSE now .. MaxTime

LimitReached(t) ==
  /\ policy.rateLimitMaxExecutions > 0
  /\ Cardinality(InWindow(t)) >= policy.rateLimitMaxExecutions

\* The stage is skipped, also when it is a retry that meets the limit.
RateLimited ==
  /\ pc = "attempt"
  /\ \E t \in Times : LimitReached(t) /\ now' = t
  /\ codes' = codes \cup {"rate_limited"}
  /\ resilience' = [resilience EXCEPT !.rateLimited = @ + 1]
  /\ blocking' = IF "rate_limited" \in policy.continueOn THEN blocking
                                                         ELSE "rate_limited"
  /\ Conclude(FALSE, "rate_limited", attempts + 1)
  /\ UNCHANGED <<request, starts, gate, consecutive>>

StartAttempt ==
  /\ pc = "attempt"
  /\ \E t \in Times :
       /\ ~ LimitReached(t)
       /\ now' = t
       /\ starts' = Append(starts, t)
  /\ pc' = "running"
  /\ UNCHANGED <<request, stage, attempts, gate, breaker, report>>

\* Mutant: a success does not reset the consecutive failures.
Succeed_NoReset ==
  /\ Conclude(TRUE, "none", attempts + 1)
  /\ UNCHANGED <<request, timing, blocking, consecutive, resilience>>

Succeed ==
  /\ consecutive' = 0
  /\ Conclude(TRUE, "none", attempts + 1)
  /\ UNCHANGED <<request, timing, blocking, resilience>>

TesterAnswers ==
  /\ pc = "running"
  /\ handoffs[stage] = "tester"
  /\ Succeed
  /\ UNCHANGED <<gate, codes>>

\* Mutant: only the trust score is brought down.
ReviewerAnswers_KeepsGoal ==
  /\ pc = "running"
  /\ handoffs[stage] = "reviewer"
  /\ trust' = IF dangerous THEN 0 ELSE trust
  /\ goal' = goal
  /\ codes' = IF dangerous THEN codes \cup {"dangerous"} ELSE codes
  /\ Succeed

\* A dangerous query brings both scores down once a reviewer has answered.
ReviewerAnswers ==
  /\ pc = "running"
  /\ handoffs[stage] = "reviewer"
  /\ trust' = IF dangerous THEN 0 ELSE trust
  /\ goal' = IF dangerous THEN 0 ELSE goal
  /\ codes' = IF dangerous THEN codes \cup {"dangerous"} ELSE codes
  /\ Succeed

\* The verifier's answer sets the scores, unless it or the query is dangerous.
\* Its own codes may be dangerous ones, or the code of the trust gate.
VerifierAnswers ==
  /\ pc = "running"
  /\ handoffs[stage] = "verifier"
  /\ \E score \in 0 .. Top, pass \in BOOLEAN,
        found \in SUBSET {"dangerous", "trust_gate"} :
       LET fail == dangerous \/ "dangerous" \in found
       IN  /\ trust' = IF fail THEN 0 ELSE score
           /\ goal' = IF ~ fail /\ pass THEN Top ELSE 0
           /\ codes' = codes \cup found \cup (IF dangerous THEN {"dangerous"}
                                                           ELSE {})
  /\ Succeed

\* Mutant: the retry is not counted.
Retry_Uncounted ==
  /\ pc = "running"
  /\ attempts < policy.maxStageRetries
  /\ attempts' = attempts + 1
  /\ pc' = "attempt"
  /\ UNCHANGED <<request, stage, timing, gate, breaker, report>>

\* A failed attempt is retried while retries are left.
Retry ==
  /\ pc = "running"
  /\ attempts < policy.maxStageRetries
  /\ resilience' = [resilience EXCEPT !.retries = @ + 1]
  /\ attempts' = attempts + 1
  /\ pc' = "attempt"
  /\ UNCHANGED <<request, stage, timing, gate, blocking, consecutive, report>>

\* The last attempt failed: it counts towards the circuit breaker, and blocks
\* the rest of the path unless the policy continues on this kind of failure.
GiveUp(skip) ==
  /\ pc = "running"
  /\ attempts >= policy.maxStageRetries
  /\ consecutive' = consecutive + 1
  /\ LET open == consecutive + 1 >= policy.circuitBreakerFailureThreshold
     IN  /\ resilience' =
              [resilience EXCEPT
                 !.timeouts = IF skip = "stage_timeout" THEN @ + 1 ELSE @,
                 !.failures = IF skip = "stage_failure" THEN @ + 1 ELSE @,
                 !.circuitOpen = @ \/ open]
         /\ codes' = codes \cup {skip} \cup (IF open THEN {"circuit_open"} ELSE {})
  /\ blocking' = IF skip \in policy.continueOn THEN blocking ELSE skip
  /\ Conclude(FALSE, skip, attempts + 1)
  /\ UNCHANGED <<request, timing, gate>>

\* The agent throws, or the timer fires first; whichever settles the promise
\* decides, and the other's outcome is dropped.
AgentThrows == Retry \/ GiveUp("stage_failure")

TimerFires == Retry \/ GiveUp("stage_timeout")

Answer == TesterAnswers \/ ReviewerAnswers \/ VerifierAnswers

Orchestrate ==
  \/ SkipBlocked
  \/ SkipCircuitOpen
  \/ SkipGate
  \/ BeginStage
  \/ RateLimited
  \/ StartAttempt
  \/ Finish

Next == Orchestrate \/ Answer \/ AgentThrows \/ TimerFires

Spec == Init /\ [][Next]_vars

\* The orchestrator is one thread of control and every timer fires; nothing
\* is assumed of the agents, which may never answer.
FairSpec == Spec /\ WF_vars(Orchestrate) /\ WF_vars(TimerFires)

-----------------------------------------------------------------------------
(* What the quality path promises.                                         *)

Tried(i) == steps[i].attempts > 0

FailedStage(i) == Tried(i) /\ steps[i].skip \in {"stage_failure", "stage_timeout"}

\* Every handoff gets exactly one step, in order, however its attempts went:
\* no path through the retry loop drops a stage or reports it twice.
OneStepPerHandoff ==
  /\ Len(steps) = stage - 1
  /\ \A i \in 1 .. Len(steps) : steps[i].to = handoffs[i]
  /\ pc = "done" => Len(steps) = Len(handoffs)

\* In no window of the policy's length, retries included, do more attempts
\* start than the policy allows, although old timestamps are dropped.
RateRespected ==
  LET max == policy.rateLimitMaxExecutions
  IN  max > 0 => \A i \in 1 .. Len(starts) - max :
                   starts[i + max] - starts[i] > policy.rateLimitWindow

\* The breaker is open exactly when, with no stage executed in between, as
\* many stages as the threshold have failed for good.
BreakerOpensAtThreshold ==
  resilience.circuitOpen <=>
    \E a, b \in 1 .. Len(steps) :
      /\ \A i \in a .. b : ~ steps[i].executed
      /\ Cardinality({i \in a .. b : FailedStage(i)})
           >= policy.circuitBreakerFailureThreshold

\* Past the step that reaches the threshold no stage is attempted.
OpenBreakerStops ==
  \A a, b \in 1 .. Len(steps) :
    (/\ \A i \in a .. b : ~ steps[i].executed
     /\ Cardinality({i \in a .. b : FailedStage(i)})
          >= policy.circuitBreakerFailureThreshold)
    => \A j \in b + 1 .. Len(steps) : ~ Tried(j)

\* The breaker opens exactly at its threshold, and once open lets no stage of
\* the path be tried (consecutiveStageFailures and circuitOpen of
\* executeQualityPath).
BreakerTrips == BreakerOpensAtThreshold /\ OpenBreakerStops

\* A stage that was tried and failed, timed out or met the rate limit, when
\* the policy does not continue on that, is the last one tried: every later
\* stage is skipped for the same reason.
FailClosed ==
  \A i, j \in 1 .. Len(steps) :
    (i < j /\ Tried(i) /\ ~ steps[i].executed
       /\ steps[i].skip \notin policy.continueOn)
    => ~ Tried(j) /\ steps[j].skip = steps[i].skip

\* Once a reviewer or verifier has answered a dangerous query both scores are
\* 0, whatever the verifier said, and stay so.
DangerFailsGate ==
  (dangerous /\ \E i \in 1 .. Len(steps) :
                  steps[i].executed /\ steps[i].to # "tester")
  => trust = 0 /\ goal = 0

\* The counters of the summary agree with the steps: a retry for every attempt
\* but the first, and one failure, timeout or rate limit for every tried stage
\* that ended so.
CountersAgree ==
  LET ended(skip) == {i \in 1 .. Len(steps) : Tried(i) /\ steps[i].skip = skip}
      retried     == {r \in (1 .. Len(steps)) \X (1 .. policy.maxStageRetries) :
                        r[2] < steps[r[1]].attempts}
  IN  /\ resilience.retries = Cardinality(retried) + attempts
      /\ resilience.failures = Cardinality(ended("stage_failure"))
      /\ resilience.timeouts = Cardinality(ended("stage_timeout"))
      /\ resilience.rateLimited = Cardinality(ended("rate_limited"))

\* The reason codes explain the skips, and only them: a code is reported when
\* some stage was skipped for it, the breaker opened, or the verifier said so.
CodesExplainSteps ==
  \A skip \in Skips :
    /\ (\E i \in 1 .. Len(steps) : steps[i].skip = skip) => skip \in codes
    /\ skip \in codes =>
         \/ \E i \in 1 .. Len(steps) : steps[i].skip = skip
         \/ skip = "circuit_open" /\ resilience.circuitOpen
         \/ /\ skip = "trust_gate"
            /\ \E i \in 1 .. Len(steps) :
                 steps[i].executed /\ steps[i].to = "verifier"

\* The summary tells what happened: its counters count the steps, and its
\* reason codes explain them (the resilience record and reasonCodes of
\* executeQualityPath).
ReportAgrees == CountersAgree /\ CodesExplainSteps

\* The path ends, also when no agent ever answers.
PathEnds == <>(pc = "done")

=============================================================================
