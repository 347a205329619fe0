---------------------------- MODULE WorkflowPlan ----------------------------
(***************************************************************************)
(* The data of a D3 workflow run and the pure functions on it: the shape   *)
(* of a plan, the results of its phases, the runtime context handed from   *)
(* phase to phase, and the decisions src/workflow/executor.ts takes from   *)
(* them.                                                                   *)
(*                                                                         *)
(* A plan is abstracted to its session and its identity, a key: the query, *)
(* the modes, the complexity, the phases and the skipped phases, i.e. all  *)
(* that isReusableCheckpoint and the planning-artifact cache key compare.  *)
(* Paths stands for both the file paths and the domains of a context,      *)
(* which the code treats alike.                                            *)
(***************************************************************************)
EXTENDS Integers, Sequences, FiniteSets

CONSTANTS
  Sessions,   \* session identifiers
  Keys,       \* identities of plans
  Phases,     \* Phases[key] is the sequence of agents that run key's phases
  Paths,      \* file paths and domains that hints and artifacts may name
  MaxItems,   \* MAX_ANALYSIS_ITEMS: a handoff with more paths is invalid
  NoHandoff,  \* the absent handoff identifier
  NoEntry     \* the absent phase result

Agents == {"scout", "builder", "tester", "reviewer", "verifier"}

Orders(key) == 1 .. Len(Phases[key])

\* A handoff identifier is a hash of the session, the query, the agent, the
\* attempt (the order of the phase) and the time; the number of the run
\* stands for the time.
Handoff == [session : Sessions, key : Keys, run : Nat, order : Nat]

ASSUME PlanAssumption ==
  /\ Phases \in [Keys -> Seq(Agents)]
  /\ \A key \in Keys : Phases[key] # << >>
  /\ MaxItems \in Nat
  /\ NoHandoff \notin Handoff

\* The context: the paths known so far, the handoff the next phase descends
\* from, and the handoff of the scout whose analysis is carried along.
Context == [paths    : SUBSET Paths,
            parent   : Handoff \cup {NoHandoff},
            analysis : Handoff \cup {NoHandoff}]

\* The result of a phase. parent and basis are the parent handoff and the
\* analysis the phase was given, found the paths its artifact names.
Entry == [status  : {"completed", "failed"},
          handoff : Handoff \cup {NoHandoff},
          parent  : Handoff \cup {NoHandoff},
          basis   : Handoff \cup {NoHandoff},
          source  : {"runtime", "cache", "reindexed"},
          found   : SUBSET Paths]

ASSUME EntryAssumption == NoEntry \notin Entry

Results(key) == [Orders(key) -> Entry \cup {NoEntry}]

AnyResults == Seq(Entry \cup {NoEntry})

NoResults(key) == [o \in Orders(key) |-> NoEntry]

-----------------------------------------------------------------------------
(* Phase results.                                                          *)

\* computeCompletedPhases and computeFailures, as sets of orders.
computeCompletedPhases(results) ==
  {o \in DOMAIN results : results[o] # NoEntry /\ results[o].status = "completed"}

computeFailures(results) ==
  {o \in DOMAIN results : results[o] # NoEntry /\ results[o].status = "failed"}

\* The first phase of the plan that is not completed, or one past the last.
nextPhaseOrderFromPlan(key, results) ==
  CHOOSE next \in 1 .. Len(Phases[key]) + 1 :
    /\ next \notin computeCompletedPhases(results)
    /\ 1 .. next - 1 \subseteq computeCompletedPhases(results)

checkpointStatusFor(key, results) ==
  IF nextPhaseOrderFromPlan(key, results) \in Orders(key) THEN "in_progress"
  ELSE IF computeFailures(results) = {} THEN "completed" ELSE "failed"

-----------------------------------------------------------------------------
(* Reuse and reindex.                                                      *)

\* The design stage is the stage of the scout's phases (PHASE_METADATA).
DesignOrders(key) == {o \in Orders(key) : Phases[key][o] = "scout"}

\* The order reindexing starts from: the first design phase when reindexing
\* is requested, and one past the last phase (no phase at all) otherwise.
reindexStart(key, requested) ==
  IF requested /\ DesignOrders(key) # {}
  THEN CHOOSE o \in DesignOrders(key) : \A d \in DesignOrders(key) : o <= d
  ELSE Len(Phases[key]) + 1

\* Mutants: one phase too few, and one too many, survives reindexing.
applyReindexPolicy_DropsOneMore(results, start) ==
  [o \in DOMAIN results |-> IF o + 1 < start THEN results[o] ELSE NoEntry]

applyReindexPolicy_KeepsStart(results, start) ==
  [o \in DOMAIN results |-> IF o <= start THEN results[o] ELSE NoEntry]

applyReindexPolicy(results, start) ==
  [o \in DOMAIN results |-> IF o < start THEN results[o] ELSE NoEntry]

\* Mutant: develop and deliver phases are taken over too.
selectCrossSessionPlanningPhases_All(key, results) ==
  [o \in Orders(key) |->
     IF o \in computeCompletedPhases(results) THEN results[o] ELSE NoEntry]

\* Another session's checkpoint is good for its completed design phases only.
selectCrossSessionPlanningPhases(key, results) ==
  [o \in Orders(key) |->
     IF o \in DesignOrders(key) \cap computeCompletedPhases(results)
     THEN results[o] ELSE NoEntry]

\* Hints drift when one of them is not in the checkpoint's context.
hasHintDrift(requested, available) == ~ (requested \subseteq available)

-----------------------------------------------------------------------------
(* The runtime context.                                                    *)

RequestContext(hints) ==
  [paths |-> hints, parent |-> NoHandoff, analysis |-> NoHandoff]

\* Mutant: the first analysis is kept when a later scout brings another.
updateContextFromArtifact_FirstAnalysis(ctx, agent, handoff, found) ==
  [paths    |-> IF agent \in {"scout", "builder"} THEN ctx.paths \cup found
                                                  ELSE ctx.paths,
   parent   |-> handoff,
   analysis |-> IF agent = "scout" /\ ctx.analysis = NoHandoff
                THEN handoff ELSE ctx.analysis]

\* The context after a phase run by agent under handoff has named the paths
\* in found. The next phase descends from this handoff.
updateContextFromArtifact(ctx, agent, handoff, found) ==
  [paths    |-> IF agent \in {"scout", "builder"} THEN ctx.paths \cup found
                                                  ELSE ctx.paths,
   parent   |-> handoff,
   analysis |-> IF agent = "scout" THEN handoff ELSE ctx.analysis]

\* The context rebuilt from the design phases taken over from another
\* session: their paths, and the last of them as parent and as analysis.
rebuildContextFromPhaseArtifacts(results, hints) ==
  LET done == computeCompletedPhases(results)
      last == CHOOSE o \in done : \A d \in done : d <= o
      tip  == IF done = {} THEN NoHandoff ELSE results[last].handoff
  IN  [paths    |-> hints \cup UNION {results[o].found : o \in done},
       parent   |-> tip,
       analysis |-> tip]

\* createPhaseHandoff validates the handoff against MAX_ANALYSIS_ITEMS.
HandoffValid(ctx) == Cardinality(ctx.paths) <= MaxItems

=============================================================================
