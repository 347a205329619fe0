--------------------------- MODULE WorkflowEngine ---------------------------
(***************************************************************************)
(* D3WorkflowEngine (src/src/workflow/engine.ts): from a request and a     *)
(* configuration to a plan, and the guarded walk through its phases. The   *)
(* engine keeps nothing but its configuration.                             *)
(*                                                                         *)
(* Numbers are counted in tenths, for the engine drops fractions; NotFinite*)
(* stands for the infinities and for NaN. A query is the set of its words. *)
(* The identity of a request, and the objectives of phases, are left out.  *)
(***************************************************************************)
EXTENDS Integers, Sequences, FiniteSets

CONSTANTS
  Absent,    \* an option that is not given
  NotFinite

ASSUME NumberAssumption == Absent \notin Int /\ NotFinite \notin Int

\* The phases and their order (STATIC_PHASES, QUICK_PHASES).
StaticPhases ==
  <<"understand", "design", "plan", "implement-red", "build-green", "refactor",
    "review", "verify", "deliver">>

QuickPhases ==
  <<"understand", "plan", "implement-red", "build-green", "verify", "deliver">>

PhasesIn(sequence) == {sequence[i] : i \in DOMAIN sequence}

\* PHASE_METADATA.
StageOf(phase) ==
  CASE phase \in {"understand", "design", "plan"}               -> "design"
    [] phase \in {"implement-red", "build-green", "refactor"}   -> "develop"
    [] phase \in {"review", "verify", "deliver"}                -> "deliver"

AgentOf(phase) ==
  CASE phase \in {"understand", "design", "plan"} -> "scout"
    [] phase = "implement-red"                    -> "tester"
    [] phase \in {"build-green", "refactor"}      -> "builder"
    [] phase = "review"                           -> "reviewer"
    [] phase \in {"verify", "deliver"}            -> "verifier"

AgentsOf(phases) == [i \in DOMAIN phases |-> AgentOf(phases[i])]

Modes == {"static", "dynamic", "quick"}

AnalysisModes == {"quick", "deep"}

Config ==
  [defaultMode : Modes, staticOverride : BOOLEAN, quickThreshold : Int,
   deepFileThreshold : Int, deepPatternThreshold : Int]

Number == Int \cup {NotFinite}

\* What a caller asks for. words is the query, files its file paths; fileCount
\* and patternCount are the hints of complexity.
IsRequest(request) ==
  /\ DOMAIN request = {"words", "files", "workflowMode", "analysisMode",
                       "fileCount", "patternCount"}
  /\ IsFiniteSet(request.words) /\ IsFiniteSet(request.files)
  /\ request.workflowMode \in Modes \cup {Absent}
  /\ request.analysisMode \in AnalysisModes \cup {Absent}
  /\ request.fileCount \in Number \cup {Absent}
  /\ request.patternCount \in Number \cup {Absent}

-----------------------------------------------------------------------------
(* Planning.                                                               *)

Otherwise(option, default) == IF option = Absent THEN default ELSE option

\* What is not finite counts as nothing.
clampNonNegativeInt(value) ==
  IF value = NotFinite \/ value < 0 THEN 0 ELSE value \div 10

\* A request without a hint, and without paths, has no files.
FileCount(request) == Otherwise(request.fileCount, 10 * Cardinality(request.files))

\* collectPatternCount takes the words of the query for its patterns.
PatternCount(request) == Otherwise(request.patternCount, 10 * Cardinality(request.words))

resolveComplexity(request) ==
  [fileCount    |-> clampNonNegativeInt(FileCount(request)),
   patternCount |-> clampNonNegativeInt(PatternCount(request))]

resolveWorkflowMode(config, mode) ==
  IF mode = "static" /\ ~ config.staticOverride THEN config.defaultMode
  ELSE Otherwise(mode, config.defaultMode)

\* Both counts have to stay below the threshold of a quick workflow.
resolveEffectiveWorkflowMode(config, mode, complexity) ==
  IF mode # "dynamic" THEN mode
  ELSE IF /\ 10 * complexity.fileCount < config.quickThreshold
          /\ 10 * complexity.patternCount < config.quickThreshold
       THEN "quick" ELSE "static"

resolveAnalysisMode(config, complexity) ==
  IF \/ 10 * complexity.fileCount >= config.deepFileThreshold
     \/ 10 * complexity.patternCount >= config.deepPatternThreshold
  THEN "deep" ELSE "quick"

resolvePhases(mode) == IF mode = "quick" THEN QuickPhases ELSE StaticPhases

\* The order of a phase is its place. skippedPhases is a set, as it follows the
\* order of StaticPhases.
plan(config, request) ==
  LET complexity == resolveComplexity(request)
      mode       == resolveWorkflowMode(config, request.workflowMode)
      effective  == resolveEffectiveWorkflowMode(config, mode, complexity)
      phases     == resolvePhases(effective)
  IN  [workflowMode          |-> mode,
       effectiveWorkflowMode |-> effective,
       analysisMode          |-> Otherwise(request.analysisMode,
                                           resolveAnalysisMode(config, complexity)),
       complexity            |-> complexity,
       phases                |-> phases,
       skippedPhases         |-> PhasesIn(StaticPhases) \ PhasesIn(phases)]

-----------------------------------------------------------------------------
(* The walk through the phases of a plan, one transition after the other.  *)

initialState(phases) ==
  [currentPhase |-> Head(phases), completedPhases |-> <<>>, remainingPhases |-> Tail(phases)]

\* Any other transition throws.
MayAdvance(state, target) ==
  state.remainingPhases # <<>> /\ target = Head(state.remainingPhases)

advanceState(state, target) ==
  [currentPhase    |-> target,
   completedPhases |-> Append(state.completedPhases, state.currentPhase),
   remainingPhases |-> Tail(state.remainingPhases)]

-----------------------------------------------------------------------------
(* What a plan owes to those who use it.                                   *)

StageNumber(phase) ==
  CASE StageOf(phase) = "design"  -> 1
    [] StageOf(phase) = "develop" -> 2
    [] StageOf(phase) = "deliver" -> 3

\* A plan can be executed: it has phases, each with an agent the executor
\* knows; the design stage is the scout's, as the executor takes it to be when
\* it reuses and reindexes phases; stages follow one another; tests are
\* written before what they test is built; what is delivered was verified; and
\* no phase is both planned and skipped, or neither (plan and PHASE_METADATA,
\* for deriveReindexMetadata and selectCrossSessionPlanningPhases).
Executable(planned, agents) ==
  LET phases == planned.phases
  IN  /\ phases # <<>>
      /\ AgentsOf(phases) \in Seq(agents)
      /\ \A i \in DOMAIN phases :
           StageOf(phases[i]) = "design" <=> AgentOf(phases[i]) = "scout"
      /\ \A i, j \in DOMAIN phases : i < j =>
           /\ StageNumber(phases[i]) <= StageNumber(phases[j])
           /\ phases[i] # phases[j]
           /\ phases[i] # "build-green" \/ phases[j] # "implement-red"
           /\ phases[i] # "deliver" \/ phases[j] # "verify"
      /\ PhasesIn(phases) \cap planned.skippedPhases = {}
      /\ PhasesIn(phases) \cup planned.skippedPhases = PhasesIn(StaticPhases)

PlansAreExecutable(configs, requests, agents) ==
  \A config \in configs, request \in requests :
    Executable(plan(config, request), agents)

NoLess(more, count) == more # NotFinite /\ (count = NotFinite \/ count <= more)

\* As much work or more, and the same modes asked for.
AtLeastTheWork(more, request) ==
  /\ more.workflowMode = request.workflowMode
  /\ more.analysisMode = request.analysisMode
  /\ NoLess(FileCount(more), FileCount(request))
  /\ NoLess(PatternCount(more), PatternCount(request))

\* More work never gets a shorter plan or a shallower analysis, whatever the
\* thresholds, the hints and the overrides (plan). A count that is not finite
\* is the exception: it counts as nothing.
MoreWorkNoLessCare(configs, requests) ==
  \A config \in configs, request, more \in requests :
    AtLeastTheWork(more, request) =>
      /\ PhasesIn(plan(config, request).phases) \subseteq PhasesIn(plan(config, more).phases)
      /\ plan(config, request).analysisMode = "deep" => plan(config, more).analysisMode = "deep"

\* The state of the walk at its k-th phase.
StateAt(phases, k) ==
  [currentPhase    |-> phases[k],
   completedPhases |-> SubSeq(phases, 1, k - 1),
   remainingPhases |-> SubSeq(phases, k + 1, Len(phases))]

\* The walk begins at the first phase, and its only transition is to the phase
\* that comes next in the plan: it leaves out none and repeats none
\* (initialState and advanceState).
WalksInOrder(phases) ==
  /\ initialState(phases) = StateAt(phases, 1)
  /\ \A k \in DOMAIN phases, target \in PhasesIn(phases) :
       /\ MayAdvance(StateAt(phases, k), target) <=> k < Len(phases) /\ target = phases[k + 1]
       /\ MayAdvance(StateAt(phases, k), target) =>
            advanceState(StateAt(phases, k), target) = StateAt(phases, k + 1)

=============================================================================
