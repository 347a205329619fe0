------------------------------ MODULE Workflow ------------------------------
(***************************************************************************)
(* D3WorkflowExecutor (src/workflow/executor.ts) over the file checkpoint  *)
(* store: a user starts runs one after another, by executing a plan or by  *)
(* resuming a session; a run goes through the phases of its plan, reuses   *)
(* the completed ones, calls an agent for the others, and saves a          *)
(* checkpoint after each phase it ran and at its end. A save is two file   *)
(* writes, the checkpoint and then the index. A save may throw, because a  *)
(* write fails or because the checkpoint does not satisfy its schema (an   *)
(* error message of more than 500 characters), and the process may die at  *)
(* any moment, also in the middle of a write.                              *)
(*                                                                         *)
(* Bounds of the model: MaxRuns runs, and MaxFaults saves that throw.      *)
(***************************************************************************)
EXTENDS CheckpointStore

CONSTANTS
  ReindexOptions,   \* the values of --reindex the user gives
  ContinueOptions,  \* the values of --continue-on-failure, for each plan
  CacheOptions,     \* the values of --cache / --no-cache
  MaxRuns,
  MaxFaults,
  NoRun             \* no run in progress and no result to look at

ASSUME RequestAssumption ==
  /\ ReindexOptions \subseteq BOOLEAN
  /\ ContinueOptions \in [Keys -> SUBSET BOOLEAN]
  /\ CacheOptions \subseteq BOOLEAN
  /\ MaxRuns \in Nat
  /\ MaxFaults \in Nat

VARIABLES
  files,   \* the checkpoint files
  index,   \* planning-artifacts/index.json
  pc,      \* where the executor is
  run,     \* the run in progress, or the one that has just returned
  runs,    \* how many runs have been started
  faults   \* how many saves have thrown

vars == <<files, index, pc, run, runs, faults>>

\* "idle": no run. "phase": at the head of the loop over the phases. "file"
\* and "index": about to write the checkpoint file and the index. "ended":
\* executeInternal has returned.
PCs == {"idle", "phase", "file", "index", "ended"}

\* base: the phases that were completed in the checkpoint the run starts from;
\* start: the order reindexing starts from; saving: which of the three saves
\* is under way.
Run == [n       : Nat,
        session : Sessions,
        key     : Keys,
        order   : Nat,
        results : AnyResults,
        ctx     : Context,
        cont    : BOOLEAN,
        start   : Nat,
        base    : SUBSET Nat,
        saving  : {"none", "completed", "failed", "final"},
        hits    : Nat,
        misses  : Nat]

TypeOK ==
  /\ files \in [FileNames -> Checkpoint \cup {NoCheckpoint}]
  /\ index \in [Keys -> IndexEntry \cup {NoIndexEntry}]
  /\ pc \in PCs
  /\ pc = "idle" => run = NoRun
  /\ pc # "idle" =>
       /\ run \in Run
       /\ run.results \in Results(run.key)
       /\ run.order \in 1 .. Len(Phases[run.key]) + 1
       /\ run.saving \in {"completed", "failed"} =>
            run.order \in Orders(run.key) /\ run.results[run.order] # NoEntry
       /\ pc = "phase" => run.saving = "none"
       /\ run.n <= runs
  /\ runs \in 0 .. MaxRuns
  /\ faults \in 0 .. MaxFaults

Init ==
  /\ files = [f \in FileNames |-> NoCheckpoint]
  /\ index = EmptyIndex
  /\ pc = "idle"
  /\ run = NoRun
  /\ runs = 0
  /\ faults = 0

-----------------------------------------------------------------------------
(* Starting a run.                                                         *)

\* Mutant: the identity of the plan is not compared.
isReusableCheckpoint_AnyPlan(c, key, hints) ==
  /\ c # NoCheckpoint
  /\ ~ hasHintDrift(hints, c.ctx.paths)

isReusableCheckpoint(c, key, hints) ==
  /\ c # NoCheckpoint
  /\ c.key = key
  /\ ~ hasHintDrift(hints, c.ctx.paths)

\* The checkpoint of the session itself if it is reusable, else the one the
\* index names for the plan if that is.
resolveReusableCheckpoint(session, key, hints) ==
  LET own   == load(files, session)
      cross == loadReusable(files, index, key)
  IN  IF isReusableCheckpoint(own, key, hints) THEN own
      ELSE IF isReusableCheckpoint(cross, key, hints) THEN cross
      ELSE NoCheckpoint

\* The index is looked at, and cleaned, only when the first is not reusable.
IndexAfterResolve(session, key, hints) ==
  IF isReusableCheckpoint(load(files, session), key, hints)
  THEN index ELSE IndexAfterLoad(files, index, key)

\* Every run enters the loop with what it takes over, less what is reindexed.
executeInternal(session, key, eligible, ctx, cont, reindex) ==
  LET start == reindexStart(key, reindex)
  IN  /\ pc \in {"idle", "ended"}
      /\ runs < MaxRuns
      /\ runs' = runs + 1
      /\ pc' = "phase"
      /\ run' = [n       |-> runs + 1,
                 session |-> session,
                 key     |-> key,
                 order   |-> 1,
                 results |-> applyReindexPolicy(eligible, start),
                 ctx     |-> ctx,
                 cont    |-> cont,
                 start   |-> start,
                 base    |-> computeCompletedPhases(eligible),
                 saving  |-> "none",
                 hits    |-> 0,
                 misses  |-> 0]
      /\ UNCHANGED <<files, faults>>

\* execute with --no-cache, or with no reusable checkpoint to be found.
ExecuteFresh(session, key, hints, cache, cont, reindex) ==
  /\ cache => resolveReusableCheckpoint(session, key, hints) = NoCheckpoint
  /\ index' = IF cache THEN IndexAfterResolve(session, key, hints) ELSE index
  /\ executeInternal(session, key, NoResults(key),
                     RequestContext(hints), cont, reindex)

\* execute with a checkpoint of the same session: all its results and its
\* context are taken over.
ExecuteFromOwnCheckpoint(session, key, hints, cont, reindex) ==
  LET cached == resolveReusableCheckpoint(session, key, hints)
  IN  /\ cached # NoCheckpoint
      /\ cached.session = session
      /\ index' = IndexAfterResolve(session, key, hints)
      /\ executeInternal(session, key, cached.results,
                         [cached.ctx EXCEPT !.paths = @ \cup hints],
                         cont, reindex)

\* execute with a checkpoint of another session: the completed design phases
\* that reindexing leaves are taken over, and the context is rebuilt from
\* them.
ExecuteFromOtherSession(session, key, hints, cont, reindex) ==
  LET cached   == resolveReusableCheckpoint(session, key, hints)
      eligible == selectCrossSessionPlanningPhases(key, cached.results)
      kept     == applyReindexPolicy(eligible, reindexStart(key, reindex))
  IN  /\ cached # NoCheckpoint
      /\ cached.session # session
      /\ index' = IndexAfterResolve(session, key, hints)
      /\ executeInternal(session, key, eligible,
                         rebuildContextFromPhaseArtifacts(kept, hints),
                         cont, reindex)

\* resume: the plan, the results and the context are the checkpoint's;
\* whether to continue on failure is too, unless the user says.
resumeFromCheckpoint(session, cont, reindex) ==
  LET checkpoint == load(files, session)
  IN  /\ checkpoint # NoCheckpoint
      /\ cont \in ContinueOptions[checkpoint.key] \cup {checkpoint.cont}
      /\ executeInternal(checkpoint.session, checkpoint.key,
                         checkpoint.results, checkpoint.ctx, cont, reindex)
      /\ UNCHANGED index

-----------------------------------------------------------------------------
(* The loop over the phases.                                               *)

Agent == Phases[run.key][run.order]

AtPhase == pc = "phase" /\ run.order \in Orders(run.key)

\* Mutant: the first reindexed phase is not marked.
Reindexed_AfterStart == run.order > run.start

Reindexed == run.order >= run.start

\* A phase with a completed result is skipped; its artifact still feeds the
\* context, and its handoff is the parent of the next one.
ReusePhase ==
  /\ AtPhase
  /\ run.order \in computeCompletedPhases(run.results)
  /\ LET prior == run.results[run.order]
     IN  run' = [run EXCEPT
                   !.results[run.order].source =
                     IF Reindexed THEN "reindexed" ELSE "cache",
                   !.ctx = updateContextFromArtifact(run.ctx, Agent,
                                                     prior.handoff, prior.found),
                   !.hits = @ + 1,
                   !.order = @ + 1]
  /\ UNCHANGED <<files, index, pc, runs, faults>>

\* Mutant: the attempt counts the phases this run has executed.
PhaseHandoff_CountsMisses ==
  [session |-> run.session, key |-> run.key, run |-> run.n, order |-> run.misses + 1]

PhaseHandoff ==
  [session |-> run.session, key |-> run.key, run |-> run.n, order |-> run.order]

\* The result of running a phase under the handoff the context gives.
PhaseResult(status, found) ==
  [status  |-> status,
   handoff |-> PhaseHandoff,
   parent  |-> run.ctx.parent,
   basis   |-> run.ctx.analysis,
   source  |-> IF Reindexed THEN "reindexed" ELSE "runtime",
   found   |-> found]

\* The result when createPhaseHandoff itself throws: handoffId is failed-<order>.
NoHandoffResult ==
  [PhaseResult("failed", {}) EXCEPT
     !.handoff = NoHandoff, !.parent = NoHandoff, !.basis = NoHandoff]

\* What the agent's artifact may name: any paths for a scout or a builder.
Artifacts == IF Agent \in {"scout", "builder"} THEN SUBSET Paths ELSE {{}}

\* The agent answers: the phase is completed and the context moves on.
CompletePhase ==
  /\ AtPhase
  /\ run.order \notin computeCompletedPhases(run.results)
  /\ HandoffValid(run.ctx)
  /\ \E found \in Artifacts :
       run' = [run EXCEPT
                 !.results[run.order] = PhaseResult("completed", found),
                 !.ctx = updateContextFromArtifact(run.ctx, Agent,
                                                   PhaseHandoff, found),
                 !.misses = @ + 1,
                 !.saving = "completed"]
  /\ pc' = "file"
  /\ UNCHANGED <<files, index, runs, faults>>

\* Mutants: a completed phase may fail again; a failed phase leaves no result.
FailPhase_RunsAgain ==
  /\ AtPhase
  /\ run' = [run EXCEPT !.results[run.order] = PhaseResult("failed", {}),
                        !.misses = @ + 1,
                        !.saving = "failed"]
  /\ pc' = "file"
  /\ UNCHANGED <<files, index, runs, faults>>

FailPhase_Unrecorded ==
  /\ AtPhase
  /\ run.order \notin computeCompletedPhases(run.results)
  /\ run' = [run EXCEPT !.misses = @ + 1, !.saving = "failed"]
  /\ pc' = "file"
  /\ UNCHANGED <<files, index, runs, faults>>

\* The handoff is invalid, or the agent throws.
FailPhase ==
  /\ AtPhase
  /\ run.order \notin computeCompletedPhases(run.results)
  /\ run' = [run EXCEPT
               !.results[run.order] = IF HandoffValid(run.ctx)
                                      THEN PhaseResult("failed", {})
                                      ELSE NoHandoffResult,
               !.misses = @ + 1,
               !.saving = "failed"]
  /\ pc' = "file"
  /\ UNCHANGED <<files, index, runs, faults>>

\* Mutant: an off-by-one at the end of the loop.
LeaveLoop_Late ==
  /\ pc = "phase"
  /\ run.order > Len(Phases[run.key]) + 1
  /\ run' = [run EXCEPT !.saving = "final"]
  /\ pc' = "file"
  /\ UNCHANGED <<files, index, runs, faults>>

\* After the last phase comes the final save.
LeaveLoop ==
  /\ pc = "phase"
  /\ run.order > Len(Phases[run.key])
  /\ run' = [run EXCEPT !.saving = "final"]
  /\ pc' = "file"
  /\ UNCHANGED <<files, index, runs, faults>>

-----------------------------------------------------------------------------
(* saveCheckpoint, in its two writes.                                      *)

CheckpointOfRun ==
  [session |-> run.session,
   key     |-> run.key,
   cont    |-> run.cont,
   results |-> run.results,
   ctx     |-> run.ctx]

WriteCheckpoint ==
  /\ pc = "file"
  /\ files' = [files EXCEPT ![CheckpointFile[run.session]] = CheckpointOfRun]
  /\ pc' = "index"
  /\ UNCHANGED <<index, run, runs, faults>>

\* The index write ends the save: after a completed phase the loop goes on,
\* after a failed one it goes on or leaves for the final save, and after the
\* final save the run returns.
WriteIndex ==
  /\ pc = "index"
  /\ index' = IndexAfterSave(index, run.key, run.session, run.n)
  /\ \/ /\ run.saving = "completed" \/ (run.saving = "failed" /\ run.cont)
        /\ run' = [run EXCEPT !.order = @ + 1, !.saving = "none"]
        /\ pc' = "phase"
     \/ /\ run.saving = "failed" /\ ~ run.cont
        /\ run' = [run EXCEPT !.saving = "final"]
        /\ pc' = "file"
     \/ /\ run.saving = "final"
        /\ run' = run
        /\ pc' = "ended"
  /\ UNCHANGED <<files, runs, faults>>

\* What a write that fails, or that the process does not survive, may leave:
\* the old contents, or a truncated file that does not load.
BrokenWrite ==
  /\ \/ UNCHANGED files
     \/ /\ pc = "file"
        /\ files' = [files EXCEPT ![CheckpointFile[run.session]] = NoCheckpoint]
  /\ \/ UNCHANGED index
     \/ /\ pc = "index"
        /\ index' = EmptyIndex

\* The save after a completed phase is inside the try block: when it throws,
\* the catch block records the phase as failed and saves again. The context
\* has already moved on.
SaveThrowsInTry ==
  /\ pc \in {"file", "index"}
  /\ faults < MaxFaults
  /\ run.saving = "completed"
  /\ run' = [run EXCEPT
               !.results[run.order].status = "failed",
               !.results[run.order].found = {},
               !.misses = @ + 1,
               !.saving = "failed"]
  /\ pc' = "file"
  /\ faults' = faults + 1
  /\ BrokenWrite
  /\ UNCHANGED runs

\* Mutant: the exception of a failed final save is swallowed.
SaveThrows_Swallowed ==
  /\ pc \in {"file", "index"}
  /\ faults < MaxFaults
  /\ run.saving = "final"
  /\ run' = run
  /\ pc' = "ended"
  /\ faults' = faults + 1
  /\ BrokenWrite
  /\ UNCHANGED runs

\* The other saves are outside: the run is abandoned with the exception.
SaveThrows ==
  /\ pc \in {"file", "index"}
  /\ faults < MaxFaults
  /\ run.saving \in {"failed", "final"}
  /\ run' = NoRun
  /\ pc' = "idle"
  /\ faults' = faults + 1
  /\ BrokenWrite
  /\ UNCHANGED runs

\* The process dies: only the files remain.
Crash ==
  /\ pc \in {"phase", "file", "index"}
  /\ run' = NoRun
  /\ pc' = "idle"
  /\ BrokenWrite
  /\ UNCHANGED <<runs, faults>>

-----------------------------------------------------------------------------

Start ==
  \E session \in Sessions, reindex \in ReindexOptions :
    \/ \E cont \in BOOLEAN : resumeFromCheckpoint(session, cont, reindex)
    \/ \E key \in Keys, hints \in SUBSET Paths : \E cont \in ContinueOptions[key] :
         \/ \E cache \in CacheOptions :
              ExecuteFresh(session, key, hints, cache, cont, reindex)
         \/ /\ TRUE \in CacheOptions
            /\ \/ ExecuteFromOwnCheckpoint(session, key, hints, cont, reindex)
               \/ ExecuteFromOtherSession(session, key, hints, cont, reindex)

\* The steps of the executor itself, as opposed to the user's and to faults.
Advance ==
  \/ ReusePhase
  \/ CompletePhase
  \/ FailPhase
  \/ LeaveLoop
  \/ WriteCheckpoint
  \/ WriteIndex

Next ==
  \/ Start
  \/ Advance
  \/ SaveThrowsInTry
  \/ SaveThrows
  \/ Crash

Spec == Init /\ [][Next]_vars

\* A run that is not killed goes on: the executor is one thread of control
\* and every agent it calls answers or throws.
FairSpec == Spec /\ WF_vars(Advance)

-----------------------------------------------------------------------------
(* What the executor promises.                                             *)

Returned == pc = "ended"

Succeeded == Returned /\ computeFailures(run.results) = {}

\* A completed result belongs to its place: it was produced by that phase of
\* that plan and, past the design stage, by that session.
Belongs(session, key, results) ==
  \A o \in computeCompletedPhases(results) :
    LET h == results[o].handoff
    IN  /\ h # NoHandoff
        /\ h.key = key
        /\ h.order = o
        /\ o \notin DesignOrders(key) => h.session = session

\* No reuse, through the session's own file, the index or a file name two
\* sessions share, ever mixes the results of two plans, nor takes over
\* develop or deliver phases from another session (execute,
\* isReusableCheckpoint, selectCrossSessionPlanningPhases, loadReusable).
ResultsBelong ==
  /\ \A f \in FileNames : files[f] # NoCheckpoint =>
       Belongs(files[f].session, files[f].key, files[f].results)
  /\ pc # "idle" => Belongs(run.session, run.key, run.results)

\* A phase that was completed in the checkpoint the run started from, and is
\* not reindexed, is neither run again nor taken back (the prior check of
\* executeInternal).
SkipsCompletedPhases ==
  pc # "idle" =>
    \A o \in run.base : o < run.start =>
      /\ o \in computeCompletedPhases(run.results)
      /\ run.results[o].handoff.run < run.n

\* A run that reindexes returns no result, from the first design phase on,
\* that an earlier run produced (applyReindexPolicy).
ReindexReplays ==
  Returned =>
    \A o \in computeCompletedPhases(run.results) :
      o >= run.start => run.results[o].handoff.run = run.n

\* A run that reports no failure has completed every phase of its plan:
\* leaving the loop early always leaves a failed phase behind.
SuccessIsComplete ==
  Succeeded => /\ computeCompletedPhases(run.results) = Orders(run.key)
               /\ checkpointStatusFor(run.key, run.results) = "completed"

\* When a run returns, what it returns is on disk under its session, and is
\* what another session with the same plan would find through the index
\* (saveCheckpoint, save, loadReusable).
ReturnedIsDurable ==
  Returned => /\ load(files, run.session) = CheckpointOfRun
              /\ loadReusable(files, index, run.key) = CheckpointOfRun

\* In a successful run every result tells where it comes from, and the cache
\* counters agree: taken over or run in this run, reindexed or not.
HonestProvenance ==
  Succeeded =>
    /\ \A o \in Orders(run.key) :
         LET r == run.results[o]
         IN  /\ r.source = "cache"     <=> r.handoff.run < run.n
             /\ r.source = "reindexed" <=> o >= run.start
    /\ run.hits = Cardinality({o \in Orders(run.key) :
                                 run.results[o].source = "cache"})
    /\ run.hits + run.misses = Len(Phases[run.key])

\* The results of a plan form one chain: each completed phase descends from
\* the completed phase before it, and was given the analysis of the last
\* design phase before it. That is so of every checkpoint as long as no save
\* has thrown and nothing is reindexed, for the plans whose runs stop at the
\* first failure.
Chained(key, results) ==
  LET done == computeCompletedPhases(results)
      last(S) == IF S = {} THEN NoHandoff
                 ELSE results[CHOOSE o \in S : \A d \in S : d <= o].handoff
      before(o) == {d \in done : d < o}
  IN  \A o \in done :
        /\ results[o].parent = last(before(o))
        /\ results[o].basis = last(before(o) \cap DesignOrders(key))

LineageContinuity ==
  faults = 0 =>
    \A f \in FileNames :
      (files[f] # NoCheckpoint /\ TRUE \notin ContinueOptions[files[f].key])
        => Chained(files[f].key, files[f].results)

\* Once the checkpoint of a session records a phase as completed, a run that
\* took it over or produced it never writes a checkpoint without it.
CompletedStaysCompleted ==
  [][\A f \in FileNames :
       (pc # "idle" /\ files[f] # NoCheckpoint /\ files'[f] # NoCheckpoint
          /\ files'[f].key = files[f].key /\ files'[f].session = files[f].session)
       => \A o \in computeCompletedPhases(files[f].results) :
            (\/ files[f].results[o].handoff.run = run.n
             \/ o \in run.base /\ o < run.start)
            => o \in computeCompletedPhases(files'[f].results)]_files

\* The run as the pipeline sees it. A phase is behind it as soon as its result
\* is recorded, before the save that follows.
PhasesAhead ==
  {o \in Orders(run.key) : o > run.order \/ (o = run.order /\ run.saving = "none")}

PhasesRun ==
  {o \in Orders(run.key) \ PhasesAhead :
     /\ run.results[o] # NoEntry
     /\ \/ run.results[o].status = "failed"
        \/ run.results[o].handoff.run = run.n}

SavedPhases ==
  [f \in FileNames |->
     IF files[f] = NoCheckpoint THEN {}
     ELSE {[session |-> files[f].session,
            key     |-> files[f].key,
            done    |-> computeCompletedPhases(files[f].results)]}]

RunPhases ==
  IF pc = "idle" THEN {}
  ELSE {[session  |-> run.session,
         key      |-> run.key,
         done     |-> computeCompletedPhases(run.results),
         ran      |-> PhasesRun,
         ahead    |-> PhasesAhead,
         stage    |-> IF pc = "ended" THEN "returned" ELSE "running"]}

Pipeline == INSTANCE ResumablePipeline WITH
              Steps  <- [key \in Keys |-> Len(Phases[key])],
              Shared <- [key \in Keys |-> DesignOrders(key)],
              Slots  <- FileNames,
              SlotOf <- CheckpointFile,
              saved  <- SavedPhases,
              work   <- RunPhases

\* The executor implements the pipeline: each phase is performed once, in order,
\* and only when it is not done; a run takes over what a checkpoint of its plan
\* has and it may have; and it returns when all is done or a phase failed, with
\* what it returns on disk (execute, executeInternal, saveCheckpoint).
ImplementsPipeline == Pipeline!Spec

\* Every run ends: it returns, or it is killed by an exception or a crash.
EveryRunEnds == (pc \in {"phase", "file", "index"}) ~> (pc \in {"idle", "ended"})

=============================================================================
