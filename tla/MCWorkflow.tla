----------------------------- MODULE MCWorkflow -----------------------------
(***************************************************************************)
(* Small instances of Workflow. Plans are shortened to three phases that   *)
(* keep the order of the stages and the agents that feed the context. The  *)
(* plans themselves are made by WorkflowEngine.                            *)
(***************************************************************************)
EXTENDS Workflow, WorkflowEngine

CONSTANTS s1, s2, k1, k2, p1, p2, f1, f2

\* One design phase, then a builder and a verifier.
OnePlan == [k \in {k1} |-> <<"scout", "builder", "verifier">>]

\* Two design phases before the verifier.
DesignPlan == [k \in {k1} |-> <<"scout", "scout", "verifier">>]

\* Two plans of different shapes.
TwoPlans == [k \in {k1, k2} |-> IF k = k1 THEN <<"scout", "builder">>
                                          ELSE <<"scout", "scout", "tester">>]

OneFile == [s \in {s1} |-> f1]

OwnFiles == [s \in {s1, s2} |-> IF s = s1 THEN f1 ELSE f2]

\* Two session names whose unsafe characters are replaced alike.
SharedFile == [s \in {s1, s2} |-> f1]

\* Users stop at the first failure, or continue as they like, or continue on the
\* first plan only.
FailFast == [k \in Keys |-> {FALSE}]

AnyContinue == [k \in Keys |-> BOOLEAN]

ContinueFirst == [k \in Keys |-> IF k = k1 THEN BOOLEAN ELSE {FALSE}]

\* Thresholds on either side of the counts below, with and without fractions.
EngineConfigs ==
  [defaultMode : {"static", "dynamic", "quick"}, staticOverride : BOOLEAN,
   quickThreshold : {-10, 10, 15, 30}, deepFileThreshold : {20}, deepPatternThreshold : {25}]

Requests ==
  [words : {{}, {"fix"}, {"fix", "auth", "login"}}, files : {{"a.ts"}},
   workflowMode : Modes \cup {Absent}, analysisMode : {"quick", Absent},
   fileCount : {-15, 9, 20, NotFinite, Absent}, patternCount : {10, Absent}]

\* The theorems of Workflow_proofs, evaluated on these.
ASSUME PlansAreSound ==
  /\ \A request \in Requests : IsRequest(request)
  /\ PlansAreExecutable(EngineConfigs, Requests, Agents)
  /\ MoreWorkNoLessCare({c \in EngineConfigs : c.staticOverride \/ c.quickThreshold = 15}, Requests)
  /\ WalksInOrder(StaticPhases) /\ WalksInOrder(QuickPhases)

=============================================================================
