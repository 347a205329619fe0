--------------------------- MODULE Workflow_proofs ---------------------------
(***************************************************************************)
(* Proofs about Workflow, for any sessions, plans, file names, fault and   *)
(* run bounds: type correctness, and that reuse never mixes up the results *)
(* of plans and sessions. Then the engine, for every request and every     *)
(* configuration: what its plans owe to the executor.                      *)
(*                                                                         *)
(* The second half proves that the executor implements ResumablePipeline.  *)
(* The invariant this takes also gives that completed phases are not run   *)
(* again, that reindexed ones are, that a success is complete, and that    *)
(* what a run returns is on disk. On top of it come the provenance of      *)
(* results and the lineage of handoffs.                                    *)
(***************************************************************************)
EXTENDS Workflow, WorkflowEngine, FiniteSetTheorems, SequenceTheorems,
        WellFoundedInduction, TLAPS

-----------------------------------------------------------------------------
(* Orders: a non-empty set of them has a least and a greatest element.     *)

LEMMA LeastOrder ==
  ASSUME NEW S \in SUBSET Nat, S # {}
  PROVE  \E x \in S : \A y \in S : x <= y
<1> DEFINE R == OpToRel(<, Nat)
<1>1. IsWellFoundedOn(R, Nat)
  BY NatLessThanWellFounded
<1>2. PICK x \in S : \A y \in S : ~ (<<y, x>> \in R)
  <2> HIDE DEF R
  <2> QED BY <1>1, WFMin
<1>3. \A y \in S : ~ (y < x)
  BY <1>2 DEF OpToRel
<1> QED BY <1>3

LEMMA GreatestOrder ==
  ASSUME NEW n \in Nat, NEW S \in SUBSET (1 .. n), S # {}
  PROVE  \E x \in S : \A y \in S : y <= x
<1> DEFINE T == {n - x : x \in S}
<1>1. T \in SUBSET Nat /\ T # {}
  <2>1. \A x \in S : n - x \in Nat
    OBVIOUS
  <2> QED BY <2>1
<1>2. PICK t \in T : \A u \in T : t <= u
  <2> HIDE DEF T
  <2> QED BY <1>1, LeastOrder
<1>3. PICK x \in S : t = n - x
  OBVIOUS
<1>4. \A y \in S : n - x <= n - y
  BY <1>2, <1>3
<1> QED BY <1>4

LEMMA PlanLength ==
  ASSUME NEW key \in Keys
  PROVE  /\ Len(Phases[key]) \in Nat \ {0}
         /\ Orders(key) = 1 .. Len(Phases[key])
         /\ \A o \in Orders(key) : Phases[key][o] \in Agents
<1>1. Phases[key] \in Seq(Agents) /\ Phases[key] # << >>
  BY PlanAssumption
<1> QED BY <1>1 DEF Orders

LEMMA ResultsAreSequences ==
  ASSUME NEW key \in Keys, NEW results \in Results(key)
  PROVE  results \in AnyResults
BY PlanLength DEF Results, AnyResults

-----------------------------------------------------------------------------
(* The decisions taken from a plan and its results.                        *)

\* Whatever is reindexed starts at an order of the plan or past its end.
LEMMA ReindexStartType ==
  ASSUME NEW key \in Keys, NEW requested \in BOOLEAN
  PROVE  reindexStart(key, requested) \in Nat
<1>1. DesignOrders(key) \in SUBSET Nat
  BY PlanLength DEF DesignOrders
<1>2. DesignOrders(key) # {} =>
        \E o \in DesignOrders(key) : \A d \in DesignOrders(key) : o <= d
  BY <1>1, LeastOrder
<1> QED BY <1>1, <1>2, PlanLength DEF reindexStart

LEMMA CompletedResult ==
  ASSUME NEW key \in Keys, NEW results \in Results(key),
         NEW o \in computeCompletedPhases(results)
  PROVE  o \in Orders(key) /\ results[o] \in Entry /\ results[o].status = "completed"
BY DEF computeCompletedPhases, Results

\* Reindexing only takes results away.
LEMMA ReindexKeepsPlace ==
  ASSUME NEW key \in Keys, NEW results \in Results(key), NEW start \in Nat
  PROVE  /\ applyReindexPolicy(results, start) \in Results(key)
         /\ \A session : Belongs(session, key, results) =>
              Belongs(session, key, applyReindexPolicy(results, start))
<1> DEFINE kept == applyReindexPolicy(results, start)
<1>1. kept \in Results(key)
  BY DEF applyReindexPolicy, Results
<1>2. \A o \in computeCompletedPhases(kept) :
        o \in computeCompletedPhases(results) /\ kept[o] = results[o]
  BY DEF applyReindexPolicy, computeCompletedPhases
<1> HIDE DEF kept
<1> QED BY <1>1, <1>2 DEF Belongs, kept

\* Design phases taken over from a session belong to any other session.
LEMMA SelectionBelongs ==
  ASSUME NEW key \in Keys, NEW results \in Results(key), NEW other,
         Belongs(other, key, results)
  PROVE  LET eligible == selectCrossSessionPlanningPhases(key, results)
         IN  /\ eligible \in Results(key)
             /\ \A session : Belongs(session, key, eligible)
<1> DEFINE eligible == selectCrossSessionPlanningPhases(key, results)
<1>1. eligible \in Results(key)
  BY DEF selectCrossSessionPlanningPhases, Results
<1>2. \A o \in computeCompletedPhases(eligible) :
        /\ o \in computeCompletedPhases(results) /\ o \in DesignOrders(key)
        /\ eligible[o] = results[o]
  BY DEF selectCrossSessionPlanningPhases, computeCompletedPhases
<1> HIDE DEF eligible
<1> QED BY <1>1, <1>2 DEF Belongs, eligible

LEMMA EmptyResults ==
  ASSUME NEW key \in Keys
  PROVE  /\ NoResults(key) \in Results(key)
         /\ computeCompletedPhases(NoResults(key)) = {}
BY DEF NoResults, Results, computeCompletedPhases

LEMMA CompletedOrders ==
  ASSUME NEW key \in Keys, NEW results \in Results(key)
  PROVE  computeCompletedPhases(results) \in SUBSET Nat
BY CompletedResult, PlanLength

-----------------------------------------------------------------------------
(* The runtime context.                                                    *)

LEMMA RequestContextType ==
  ASSUME NEW hints \in SUBSET Paths
  PROVE  RequestContext(hints) \in Context
BY DEF RequestContext, Context

LEMMA UpdatedContextType ==
  ASSUME NEW ctx \in Context, NEW agent, NEW found \in SUBSET Paths,
         NEW handoff \in Handoff \cup {NoHandoff}
  PROVE  updateContextFromArtifact(ctx, agent, handoff, found) \in Context
BY DEF updateContextFromArtifact, Context

LEMMA RebuiltContextType ==
  ASSUME NEW key \in Keys, NEW results \in Results(key), NEW hints \in SUBSET Paths
  PROVE  rebuildContextFromPhaseArtifacts(results, hints) \in Context
<1> DEFINE done == computeCompletedPhases(results)
           last == CHOOSE o \in done : \A d \in done : d <= o
           tip  == IF done = {} THEN NoHandoff ELSE results[last].handoff
<1>1. \A o \in done : results[o].found \in SUBSET Paths
  BY CompletedResult DEF Entry
<1>2. done # {} => last \in done
  <2> SUFFICES ASSUME done # {} PROVE last \in done
    OBVIOUS
  <2>1. done \in SUBSET (1 .. Len(Phases[key]))
    BY CompletedResult DEF Orders
  <2>2. \E o \in done : \A d \in done : d <= o
    <3> HIDE DEF done
    <3> QED BY <2>1, GreatestOrder, PlanLength
  <2> QED BY <2>2
<1>3. tip \in Handoff \cup {NoHandoff}
  BY <1>2, CompletedResult DEF Entry
<1>4. hints \cup UNION {results[o].found : o \in done} \in SUBSET Paths
  BY <1>1
<1> HIDE DEF tip
<1> QED BY <1>3, <1>4 DEF rebuildContextFromPhaseArtifacts, Context, tip

-----------------------------------------------------------------------------
(* The store.                                                              *)

IndexType == [Keys -> IndexEntry \cup {NoIndexEntry}]

LEMMA IndexAfterLoadType ==
  ASSUME NEW i \in IndexType, NEW fs, NEW key \in Keys
  PROVE  IndexAfterLoad(fs, i, key) \in IndexType
BY DEF IndexAfterLoad, IndexType

LEMMA IndexAfterSaveType ==
  ASSUME NEW i \in IndexType, NEW key \in Keys, NEW session \in Sessions, NEW at \in Nat
  PROVE  IndexAfterSave(i, key, session, at) \in IndexType
<1> DEFINE j == [i EXCEPT ![key] = [session |-> session, at |-> at]]
<1>1. j \in IndexType
  BY DEF IndexType, IndexEntry
<1>2. normalizePlanningArtifactEntries(j) \in IndexType
  <2> HIDE DEF j
  <2> QED BY <1>1 DEF normalizePlanningArtifactEntries, IndexType
<1> QED BY <1>2 DEF IndexAfterSave

FilesType == [FileNames -> Checkpoint \cup {NoCheckpoint}]

\* A checkpoint found for reuse is one of the files, and of the same plan.
LEMMA ResolvedCheckpoint ==
  ASSUME NEW session \in Sessions, NEW key \in Keys, NEW hints,
         files \in FilesType, index \in IndexType,
         resolveReusableCheckpoint(session, key, hints) # NoCheckpoint
  PROVE  LET c == resolveReusableCheckpoint(session, key, hints)
         IN  /\ c \in Checkpoint
             /\ c.key = key
             /\ \E f \in FileNames : files[f] = c /\ files[f] # NoCheckpoint
<1> DEFINE own   == load(files, session)
           cross == loadReusable(files, index, key)
           c     == resolveReusableCheckpoint(session, key, hints)
<1>1. \E f \in FileNames : own = files[f]
  BY StoreAssumption DEF load
<1>2. cross # NoCheckpoint => \E f \in FileNames : cross = files[f]
  <2> SUFFICES ASSUME cross # NoCheckpoint
               PROVE  \E f \in FileNames : cross = files[f]
    OBVIOUS
  <2>1. cross = load(files, index[key].session) /\ index[key] # NoIndexEntry
    BY DEF loadReusable, Reusable
  <2>2. index[key].session \in Sessions
    BY <2>1 DEF IndexType, IndexEntry
  <2> QED BY <2>1, <2>2, StoreAssumption DEF load
<1>3. /\ c = own \/ c = cross
      /\ c.key = key
  BY DEF resolveReusableCheckpoint, isReusableCheckpoint
<1>4. \E f \in FileNames : files[f] = c /\ files[f] # NoCheckpoint
  BY <1>1, <1>2, <1>3
<1> HIDE DEF c
<1> QED BY <1>3, <1>4 DEF FilesType, c

LEMMA IndexAfterResolveType ==
  ASSUME NEW session, NEW key \in Keys, NEW hints, index \in IndexType
  PROVE  IndexAfterResolve(session, key, hints) \in IndexType
BY IndexAfterLoadType DEF IndexAfterResolve

LEMMA CheckpointFields ==
  ASSUME NEW c \in Checkpoint
  PROVE  /\ c.session \in Sessions
         /\ c.key \in Keys
         /\ c.cont \in BOOLEAN
         /\ c.results \in Results(c.key)
         /\ c.ctx \in Context
BY DEF Checkpoint

-----------------------------------------------------------------------------
(* The steps. TypeOK and ResultsBelong together are inductive.             *)

IInv == TypeOK /\ ResultsBelong

\* What every run starts with: results of its own plan, in their place.
LEMMA StartedRun ==
  ASSUME IInv, index' \in IndexType,
         NEW session \in Sessions, NEW key \in Keys,
         NEW eligible \in Results(key), Belongs(session, key, eligible),
         NEW ctx \in Context, NEW cont \in BOOLEAN, NEW reindex \in BOOLEAN,
         executeInternal(session, key, eligible, ctx, cont, reindex)
  PROVE  IInv'
<1> DEFINE start == reindexStart(key, reindex)
           kept  == applyReindexPolicy(eligible, start)
<1>1. start \in Nat
  BY ReindexStartType
<1>2. kept \in Results(key) /\ Belongs(session, key, kept)
  BY <1>1, ReindexKeepsPlace
<1>3. computeCompletedPhases(eligible) \in SUBSET Nat
  BY CompletedOrders
<1>4. /\ runs' = runs + 1 /\ runs' \in 0 .. MaxRuns
      /\ pc' = "phase"
      /\ files' = files /\ faults' = faults
  BY RequestAssumption DEF executeInternal, IInv, TypeOK
<1>5. run' = [n       |-> runs + 1,
              session |-> session,
              key     |-> key,
              order   |-> 1,
              results |-> kept,
              ctx     |-> ctx,
              cont    |-> cont,
              start   |-> start,
              base    |-> computeCompletedPhases(eligible),
              saving  |-> "none",
              hits    |-> 0,
              misses  |-> 0]
  BY DEF executeInternal
<1> HIDE DEF start, kept
<1>6. run' \in Run /\ run'.key = key /\ run'.session = session
      /\ run'.results = kept /\ run'.order = 1 /\ run'.n = runs + 1
      /\ run'.saving = "none"
  BY <1>1, <1>2, <1>3, <1>5, ResultsAreSequences DEF Run, IInv, TypeOK
<1>7. TypeOK'
  BY <1>2, <1>4, <1>6, PlanLength DEF IInv, TypeOK, PCs, IndexType
<1>8. ResultsBelong'
  BY <1>2, <1>4, <1>6 DEF IInv, ResultsBelong
<1> QED BY <1>7, <1>8 DEF IInv

LEMMA StartPreserves ==
  ASSUME IInv, Start
  PROVE  IInv'
<1> USE DEF IInv
<1>0. files \in FilesType /\ index \in IndexType
  BY DEF TypeOK, FilesType, IndexType
<1>1. PICK session \in Sessions, reindex \in ReindexOptions :
        \/ \E cont \in BOOLEAN : resumeFromCheckpoint(session, cont, reindex)
        \/ \E key \in Keys, hints \in SUBSET Paths : \E cont \in ContinueOptions[key] :
             \/ \E cache \in CacheOptions :
                  ExecuteFresh(session, key, hints, cache, cont, reindex)
             \/ ExecuteFromOwnCheckpoint(session, key, hints, cont, reindex)
             \/ ExecuteFromOtherSession(session, key, hints, cont, reindex)
  BY DEF Start
<1>2. reindex \in BOOLEAN
  BY RequestAssumption
<1>3. ASSUME NEW cont \in BOOLEAN, resumeFromCheckpoint(session, cont, reindex)
      PROVE  IInv'
  <2> DEFINE c == load(files, session)
  <2>1. PICK f \in FileNames : c = files[f] /\ files[f] # NoCheckpoint
    BY <1>3, StoreAssumption DEF resumeFromCheckpoint, load
  <2>2. c \in Checkpoint
    BY <1>0, <2>1 DEF FilesType
  <2>3. Belongs(c.session, c.key, c.results)
    BY <2>1 DEF ResultsBelong
  <2>4. index' \in IndexType
    BY <1>0, <1>3 DEF resumeFromCheckpoint
  <2>5. executeInternal(c.session, c.key, c.results, c.ctx, cont, reindex)
    BY <1>3 DEF resumeFromCheckpoint
  <2> HIDE DEF c
  <2> QED BY <1>2, <2>2, <2>3, <2>4, <2>5, CheckpointFields, StartedRun
<1>4. ASSUME NEW key \in Keys, NEW hints \in SUBSET Paths,
             NEW cont \in ContinueOptions[key], NEW cache \in CacheOptions,
             ExecuteFresh(session, key, hints, cache, cont, reindex)
      PROVE  IInv'
  <2>1. index' \in IndexType
    BY <1>0, <1>4, IndexAfterResolveType DEF ExecuteFresh
  <2>2. Belongs(session, key, NoResults(key))
    BY EmptyResults DEF Belongs
  <2>3. cont \in BOOLEAN
    BY RequestAssumption
  <2>4. executeInternal(session, key, NoResults(key),
                        RequestContext(hints), cont, reindex)
    BY <1>4 DEF ExecuteFresh
  <2> QED BY <1>2, <2>1, <2>2, <2>3, <2>4, EmptyResults, RequestContextType, StartedRun
<1>5. ASSUME NEW key \in Keys, NEW hints \in SUBSET Paths,
             NEW cont \in ContinueOptions[key],
             ExecuteFromOwnCheckpoint(session, key, hints, cont, reindex)
      PROVE  IInv'
  <2> DEFINE c   == resolveReusableCheckpoint(session, key, hints)
             ctx == [c.ctx EXCEPT !.paths = @ \cup hints]
  <2>1. c # NoCheckpoint /\ c.session = session
    BY <1>5 DEF ExecuteFromOwnCheckpoint
  <2>2. /\ c \in Checkpoint /\ c.key = key
        /\ \E f \in FileNames : files[f] = c /\ files[f] # NoCheckpoint
    BY <1>0, <2>1, ResolvedCheckpoint
  <2>3. index' \in IndexType
    BY <1>0, <1>5, IndexAfterResolveType DEF ExecuteFromOwnCheckpoint
  <2>4. cont \in BOOLEAN
    BY RequestAssumption
  <2>5. executeInternal(session, key, c.results, ctx, cont, reindex)
    BY <1>5 DEF ExecuteFromOwnCheckpoint
  <2> HIDE DEF c
  <2>6. c.results \in Results(key) /\ ctx \in Context
    BY <2>2, CheckpointFields DEF Context
  <2>7. Belongs(session, key, c.results)
    BY <2>1, <2>2 DEF ResultsBelong
  <2> HIDE DEF ctx
  <2> QED BY <1>2, <2>3, <2>4, <2>5, <2>6, <2>7, StartedRun
<1>6. ASSUME NEW key \in Keys, NEW hints \in SUBSET Paths,
             NEW cont \in ContinueOptions[key],
             ExecuteFromOtherSession(session, key, hints, cont, reindex)
      PROVE  IInv'
  <2> DEFINE c        == resolveReusableCheckpoint(session, key, hints)
             eligible == selectCrossSessionPlanningPhases(key, c.results)
             kept     == applyReindexPolicy(eligible, reindexStart(key, reindex))
             ctx      == rebuildContextFromPhaseArtifacts(kept, hints)
  <2>1. c # NoCheckpoint
    BY <1>6 DEF ExecuteFromOtherSession
  <2>2. /\ c \in Checkpoint /\ c.key = key
        /\ \E f \in FileNames : files[f] = c /\ files[f] # NoCheckpoint
    BY <1>0, <2>1, ResolvedCheckpoint
  <2>3. index' \in IndexType
    BY <1>0, <1>6, IndexAfterResolveType DEF ExecuteFromOtherSession
  <2>4. cont \in BOOLEAN
    BY RequestAssumption
  <2>5. executeInternal(session, key, eligible, ctx, cont, reindex)
    BY <1>6 DEF ExecuteFromOtherSession
  <2> HIDE DEF c
  <2>6. c.results \in Results(key) /\ Belongs(c.session, key, c.results)
    BY <2>2, CheckpointFields DEF ResultsBelong
  <2>7. eligible \in Results(key) /\ Belongs(session, key, eligible)
    BY <2>6, SelectionBelongs
  <2> HIDE DEF eligible
  <2>8. ctx \in Context
    BY <1>2, <2>7, ReindexStartType, ReindexKeepsPlace, RebuiltContextType
  <2> HIDE DEF ctx
  <2> QED BY <1>2, <2>3, <2>4, <2>5, <2>7, <2>8, StartedRun
<1> QED BY <1>1, <1>3, <1>4, <1>5, <1>6

\* What a step writes into the record of the run.
RunWith(r, results, ctx, order, hits, misses, saving) ==
  [r EXCEPT !.results = results, !.ctx = ctx, !.order = order,
            !.hits = hits, !.misses = misses, !.saving = saving]

LEMMA RunInProgress ==
  ASSUME TypeOK, pc # "idle"
  PROVE  /\ run \in Run
         /\ run.key \in Keys
         /\ run.session \in Sessions
         /\ run.results \in Results(run.key)
         /\ run.ctx \in Context
         /\ run.order \in Nat /\ run.hits \in Nat /\ run.misses \in Nat
         /\ run.saving \in {"none", "completed", "failed", "final"}
BY DEF TypeOK, Run

\* A completed result handed on to the next phase.
LEMMA ReusePreserves ==
  ASSUME IInv, ReusePhase
  PROVE  IInv'
<1> USE DEF IInv
<1>1. /\ pc = "phase" /\ pc' = "phase"
      /\ run.order \in Orders(run.key)
      /\ run.order \in computeCompletedPhases(run.results)
      /\ files' = files /\ index' = index /\ runs' = runs /\ faults' = faults
  BY DEF ReusePhase, AtPhase
<1>2. /\ run \in Run /\ run.key \in Keys /\ run.results \in Results(run.key)
      /\ run.ctx \in Context
  BY <1>1, RunInProgress
<1> DEFINE o     == run.order
           prior == run.results[o]
           how   == IF Reindexed THEN "reindexed" ELSE "cache"
           ctx   == updateContextFromArtifact(run.ctx, Agent, prior.handoff, prior.found)
           res   == [run.results EXCEPT ![o].source = how]
<1>3. prior \in Entry /\ prior # NoEntry
  BY <1>1, <1>2, CompletedResult, EntryAssumption
<1>4. ctx \in Context
  BY <1>2, <1>3, UpdatedContextType DEF Entry
<1>5. run' = [run EXCEPT !.results = res, !.ctx = ctx, !.hits = @ + 1, !.order = @ + 1]
  BY DEF ReusePhase
<1>6. res = [run.results EXCEPT ![o] = [prior EXCEPT !.source = how]]
  OBVIOUS
<1>7. /\ [prior EXCEPT !.source = how] \in Entry
      /\ [prior EXCEPT !.source = how].status = prior.status
      /\ [prior EXCEPT !.source = how].handoff = prior.handoff
  BY <1>3 DEF Entry
<1> HIDE DEF prior, how
<1>8. res \in Results(run.key)
  BY <1>2, <1>6, <1>7 DEF Results
<1>9. \A q \in computeCompletedPhases(res) :
        /\ q \in computeCompletedPhases(run.results)
        /\ res[q].handoff = run.results[q].handoff
  BY <1>1, <1>2, <1>3, <1>6, <1>7 DEF computeCompletedPhases, Results, prior
<1> HIDE DEF res, ctx
<1>10. /\ run' \in Run /\ run'.key = run.key /\ run'.session = run.session
       /\ run'.saving = run.saving
       /\ run'.results = res /\ run'.order = run.order + 1 /\ run'.n = run.n
  <2>1. res \in AnyResults
    BY <1>2, <1>8, ResultsAreSequences
  <2>2. /\ run.order + 1 \in Nat /\ run.hits + 1 \in Nat /\ run.misses \in Nat
        /\ run.saving \in {"none", "completed", "failed", "final"}
    BY <1>1, RunInProgress
  <2>3. run' = RunWith(run, res, ctx, run.order + 1, run.hits + 1, run.misses,
                       run.saving)
    BY <1>2, <1>5 DEF Run, RunWith
  <2> QED BY <1>2, <1>4, <2>1, <2>2, <2>3 DEF Run, RunWith
<1>11. TypeOK'
  <2>1. run.saving = "none"
    BY <1>1 DEF TypeOK
  <2> QED BY <1>1, <1>2, <1>8, <1>10, <2>1, PlanLength DEF TypeOK
<1>12. Belongs(run.session, run.key, run.results)
  BY <1>1 DEF ResultsBelong
<1>13. Belongs(run.session, run.key, res)
  BY <1>9, <1>12 DEF Belongs
<1>14. ResultsBelong'
  BY <1>1, <1>10, <1>13 DEF ResultsBelong
<1> QED BY <1>11, <1>14

\* Whatever a phase run in this run records at its own order.
LEMMA PhaseRecorded ==
  ASSUME IInv, pc \in PCs \ {"idle"}, run.order \in Orders(run.key),
         NEW entry \in Entry, NEW ctx \in Context,
         NEW saving \in {"completed", "failed"},
         entry.status = "completed" => entry.handoff = PhaseHandoff,
         pc' = "file",
         run' = [run EXCEPT !.results[run.order] = entry, !.ctx = ctx,
                            !.misses = @ + 1, !.saving = saving],
         files' \in FilesType, index' \in IndexType, runs' = runs,
         faults' \in 0 .. MaxFaults,
         \A f \in FileNames : files'[f] # NoCheckpoint => files'[f] = files[f]
  PROVE  IInv'
<1> USE DEF IInv
<1>1. pc # "idle" /\ pc' # "idle"
  OBVIOUS
<1>2. /\ run \in Run /\ run.key \in Keys /\ run.session \in Sessions
      /\ run.results \in Results(run.key)
  BY <1>1, RunInProgress
<1> DEFINE res == [run.results EXCEPT ![run.order] = entry]
<1>3. run' = [run EXCEPT !.results = res, !.ctx = ctx, !.misses = @ + 1,
                         !.saving = saving]
  OBVIOUS
<1>4. res \in Results(run.key)
  BY <1>2 DEF Results
<1>5. PhaseHandoff \in Handoff
  BY <1>2 DEF PhaseHandoff, Handoff, Run
<1>6. Belongs(run.session, run.key, res)
  <2> SUFFICES ASSUME NEW o \in computeCompletedPhases(res)
               PROVE  LET h == res[o].handoff
                      IN  /\ h # NoHandoff
                          /\ h.key = run.key
                          /\ h.order = o
                          /\ o \notin DesignOrders(run.key) => h.session = run.session
    BY DEF Belongs
  <2>1. CASE o = run.order
    <3>1. res[o] = entry
      BY <1>2, <2>1 DEF Results
    <3>2. res[o].handoff = PhaseHandoff
      BY <3>1 DEF computeCompletedPhases
    <3>3. PhaseHandoff # NoHandoff
      BY <1>5, PlanAssumption
    <3> QED BY <2>1, <3>2, <3>3 DEF PhaseHandoff
  <2>2. CASE o # run.order
    <3>1. o \in computeCompletedPhases(run.results) /\ res[o] = run.results[o]
      BY <1>2, <2>2 DEF computeCompletedPhases, Results
    <3>2. Belongs(run.session, run.key, run.results)
      BY <1>1 DEF ResultsBelong
    <3> QED BY <3>1, <3>2 DEF Belongs
  <2> QED BY <2>1, <2>2
<1> HIDE DEF res
<1>7. /\ run' \in Run /\ run'.key = run.key /\ run'.session = run.session
      /\ run'.results = res /\ run'.order = run.order /\ run'.n = run.n
      /\ run'.saving = saving
  <2>1. res \in AnyResults
    BY <1>2, <1>4, ResultsAreSequences
  <2>2. run.order \in Nat /\ run.hits \in Nat /\ run.misses + 1 \in Nat
    BY <1>1, RunInProgress
  <2>3. run' = RunWith(run, res, ctx, run.order, run.hits, run.misses + 1, saving)
    BY <1>2, <1>3 DEF Run, RunWith
  <2> QED BY <1>2, <2>1, <2>2, <2>3 DEF Run, RunWith
<1>8. TypeOK'
  <2>1. res[run.order] # NoEntry
    BY <1>2, EntryAssumption DEF Results, res
  <2> QED BY <1>1, <1>2, <1>4, <1>7, <2>1 DEF TypeOK, PCs, IndexType, FilesType
<1>9. ResultsBelong'
  BY <1>1, <1>6, <1>7 DEF ResultsBelong
<1> QED BY <1>8, <1>9

LEMMA PhaseResultType ==
  ASSUME TypeOK, pc # "idle", NEW found \in SUBSET Paths,
         NEW status \in {"completed", "failed"}
  PROVE  /\ PhaseHandoff \in Handoff
         /\ PhaseResult(status, found) \in Entry
         /\ PhaseResult(status, found).status = status
         /\ PhaseResult(status, found).handoff = PhaseHandoff
<1>1. run \in Run /\ run.ctx \in Context
  BY RunInProgress
<1>2. PhaseHandoff \in Handoff
  BY <1>1 DEF PhaseHandoff, Handoff, Run
<1> QED BY <1>1, <1>2 DEF PhaseResult, Entry, Context

LEMMA CompletePreserves ==
  ASSUME IInv, CompletePhase
  PROVE  IInv'
<1> USE DEF IInv
<1>1. /\ pc = "phase" /\ run.order \in Orders(run.key) /\ pc' = "file"
      /\ files' = files /\ index' = index /\ runs' = runs /\ faults' = faults
  BY DEF CompletePhase, AtPhase
<1>2. PICK found \in Artifacts :
        run' = [run EXCEPT
                 !.results[run.order] = PhaseResult("completed", found),
                 !.ctx = updateContextFromArtifact(run.ctx, Agent,
                                                   PhaseHandoff, found),
                 !.misses = @ + 1,
                 !.saving = "completed"]
  BY DEF CompletePhase
<1>3. found \in SUBSET Paths
  BY DEF Artifacts
<1>4. /\ PhaseHandoff \in Handoff
      /\ PhaseResult("completed", found) \in Entry
      /\ PhaseResult("completed", found).handoff = PhaseHandoff
  BY <1>1, <1>3, PhaseResultType
<1>5. updateContextFromArtifact(run.ctx, Agent, PhaseHandoff, found) \in Context
  BY <1>1, <1>3, <1>4, RunInProgress, UpdatedContextType
<1>6. files' \in FilesType /\ index' \in IndexType /\ faults' \in 0 .. MaxFaults
  BY <1>1 DEF TypeOK, FilesType, IndexType
<1> QED BY <1>1, <1>2, <1>4, <1>5, <1>6, PhaseRecorded DEF PCs

LEMMA FailPreserves ==
  ASSUME IInv, FailPhase
  PROVE  IInv'
<1> USE DEF IInv
<1> DEFINE entry == IF HandoffValid(run.ctx) THEN PhaseResult("failed", {})
                                             ELSE NoHandoffResult
<1>1. /\ pc = "phase" /\ run.order \in Orders(run.key) /\ pc' = "file"
      /\ files' = files /\ index' = index /\ runs' = runs /\ faults' = faults
      /\ run' = [run EXCEPT !.results[run.order] = entry, !.misses = @ + 1,
                            !.saving = "failed"]
  BY DEF FailPhase, AtPhase
<1>2. run \in Run /\ run.ctx \in Context
  BY <1>1, RunInProgress
<1>3. /\ PhaseResult("failed", {}) \in Entry
      /\ PhaseResult("failed", {}).status = "failed"
  BY <1>1, PhaseResultType
<1>4. NoHandoffResult \in Entry /\ NoHandoffResult.status = "failed"
  BY <1>3 DEF NoHandoffResult, Entry
<1>5. entry \in Entry /\ entry.status = "failed"
  BY <1>3, <1>4
<1> HIDE DEF entry
<1>6. run' = [run EXCEPT !.results[run.order] = entry, !.ctx = run.ctx,
                         !.misses = @ + 1, !.saving = "failed"]
  BY <1>1, <1>2 DEF Run
<1>7. files' \in FilesType /\ index' \in IndexType /\ faults' \in 0 .. MaxFaults
  BY <1>1 DEF TypeOK, FilesType, IndexType
<1> QED BY <1>1, <1>2, <1>5, <1>6, <1>7, PhaseRecorded DEF PCs

\* Leaving the loop, and moving on after a save, touch no result.
LEMMA ControlMoves ==
  ASSUME IInv, pc # "idle", NEW order \in 1 .. Len(Phases[run.key]) + 1,
         NEW saving \in {"none", "completed", "failed", "final"},
         run' = [run EXCEPT !.order = order, !.saving = saving],
         pc' \in PCs \ {"idle"},
         files' \in FilesType, index' \in IndexType, runs' = runs, faults' = faults,
         \A f \in FileNames : files'[f] # NoCheckpoint =>
           Belongs(files'[f].session, files'[f].key, files'[f].results),
         saving \in {"completed", "failed"} =>
           order \in Orders(run.key) /\ run.results[order] # NoEntry,
         pc' = "phase" => saving = "none"
  PROVE  IInv'
<1> USE DEF IInv
<1>1. /\ run \in Run /\ run.key \in Keys /\ run.results \in Results(run.key)
  BY RunInProgress
<1>2. order \in Nat
  BY <1>1, PlanLength
<1>3. /\ run' \in Run /\ run'.key = run.key /\ run'.session = run.session
      /\ run'.results = run.results /\ run'.order = order /\ run'.n = run.n
      /\ run'.saving = saving
  <2>1. run' \in Run
    BY <1>1, <1>2 DEF Run
  <2> QED BY <1>1, <2>1 DEF Run
<1>4. TypeOK'
  BY <1>1, <1>3 DEF TypeOK, FilesType, IndexType
<1>5. ResultsBelong'
  BY <1>3 DEF ResultsBelong
<1> QED BY <1>4, <1>5

LEMMA LeavePreserves ==
  ASSUME IInv, LeaveLoop
  PROVE  IInv'
<1> USE DEF IInv
<1>1. /\ pc = "phase" /\ pc' = "file"
      /\ files' = files /\ index' = index /\ runs' = runs /\ faults' = faults
      /\ run' = [run EXCEPT !.saving = "final"]
  BY DEF LeaveLoop
<1>2. run \in Run /\ run.order \in 1 .. Len(Phases[run.key]) + 1
  BY <1>1 DEF TypeOK
<1>3. run' = [run EXCEPT !.order = run.order, !.saving = "final"]
  BY <1>1, <1>2 DEF Run
<1>4. /\ files' \in FilesType /\ index' \in IndexType
      /\ \A f \in FileNames : files'[f] # NoCheckpoint =>
           Belongs(files'[f].session, files'[f].key, files'[f].results)
  BY <1>1 DEF TypeOK, FilesType, IndexType, ResultsBelong
<1> QED BY <1>1, <1>2, <1>3, <1>4, ControlMoves DEF PCs

LEMMA WriteCheckpointPreserves ==
  ASSUME IInv, WriteCheckpoint
  PROVE  IInv'
<1> USE DEF IInv
<1>1. /\ pc = "file" /\ pc' = "index"
      /\ files' = [files EXCEPT ![CheckpointFile[run.session]] = CheckpointOfRun]
      /\ index' = index /\ run' = run /\ runs' = runs /\ faults' = faults
  BY DEF WriteCheckpoint
<1>2. /\ run \in Run /\ run.key \in Keys /\ run.session \in Sessions
      /\ run.results \in Results(run.key) /\ run.ctx \in Context
      /\ run.order \in 1 .. Len(Phases[run.key]) + 1
  BY <1>1, RunInProgress DEF TypeOK
<1>3. CheckpointOfRun \in Checkpoint
  BY <1>2 DEF CheckpointOfRun, Checkpoint, Run
<1>4. Belongs(run.session, run.key, run.results)
  BY <1>1 DEF ResultsBelong
<1>5. files' \in FilesType
  BY <1>1, <1>3 DEF FilesType, TypeOK
<1>6. \A f \in FileNames : files'[f] # NoCheckpoint =>
        Belongs(files'[f].session, files'[f].key, files'[f].results)
  BY <1>1, <1>4 DEF TypeOK, ResultsBelong, CheckpointOfRun
<1>7. TypeOK' /\ ResultsBelong'
  BY <1>1, <1>5, <1>6 DEF TypeOK, ResultsBelong, FilesType, PCs
<1> QED BY <1>7

LEMMA WriteIndexPreserves ==
  ASSUME IInv, WriteIndex
  PROVE  IInv'
<1> USE DEF IInv
<1>1. /\ pc = "index" /\ pc' \in PCs \ {"idle"}
      /\ index' = IndexAfterSave(index, run.key, run.session, run.n)
      /\ files' = files /\ runs' = runs /\ faults' = faults
  BY DEF WriteIndex, PCs
<1>2. /\ run \in Run /\ run.key \in Keys /\ run.session \in Sessions
      /\ run.order \in 1 .. Len(Phases[run.key]) + 1
      /\ run.n \in Nat
  BY <1>1 DEF TypeOK, Run
<1>3. index' \in IndexType
  <2>1. index \in IndexType
    BY DEF TypeOK, IndexType
  <2> QED BY <1>1, <1>2, <2>1, IndexAfterSaveType
<1>4. /\ files' \in FilesType
      /\ \A f \in FileNames : files'[f] # NoCheckpoint =>
           Belongs(files'[f].session, files'[f].key, files'[f].results)
  BY <1>1 DEF TypeOK, FilesType, ResultsBelong
<1>5. CASE pc' # "phase" /\ (run' = [run EXCEPT !.saving = "final"] \/ run' = run)
  <2>1. CASE run' = [run EXCEPT !.saving = "final"]
    <3>1. run' = [run EXCEPT !.order = run.order, !.saving = "final"]
      BY <1>2, <2>1 DEF Run
    <3> QED BY <1>1, <1>2, <1>3, <1>4, <1>5, <3>1, ControlMoves
  <2>2. CASE run' = run
    <3>1. run' = [run EXCEPT !.order = run.order, !.saving = run.saving]
      BY <1>2, <2>2 DEF Run
    <3>2. /\ run.saving \in {"none", "completed", "failed", "final"}
          /\ run.saving \in {"completed", "failed"} =>
               run.order \in Orders(run.key) /\ run.results[run.order] # NoEntry
      BY <1>1, <1>2 DEF TypeOK, Run
    <3> QED BY <1>1, <1>2, <1>3, <1>4, <1>5, <3>1, <3>2, ControlMoves
  <2> QED BY <1>5, <2>1, <2>2
<1>6. CASE /\ run.saving \in {"completed", "failed"}
           /\ run' = [run EXCEPT !.order = @ + 1, !.saving = "none"]
  <2>1. run.order \in Orders(run.key)
    BY <1>1, <1>6 DEF TypeOK
  <2>2. run.order + 1 \in 1 .. Len(Phases[run.key]) + 1
    BY <1>2, <2>1, PlanLength
  <2> QED BY <1>1, <1>3, <1>4, <1>6, <2>2, ControlMoves
<1> QED BY <1>5, <1>6 DEF WriteIndex

\* A write that fails leaves old contents or a file that does not load.
LEMMA BrokenWriteBelongs ==
  ASSUME IInv, pc # "idle", BrokenWrite
  PROVE  /\ files' \in FilesType
         /\ index' \in IndexType
         /\ \A f \in FileNames : files'[f] # NoCheckpoint => files'[f] = files[f]
<1>1. files \in FilesType /\ index \in IndexType
  BY DEF IInv, TypeOK, FilesType, IndexType
<1>2. CheckpointFile[run.session] \in FileNames
  BY RunInProgress, StoreAssumption DEF IInv
<1>3. EmptyIndex \in IndexType
  BY DEF EmptyIndex, IndexType
<1>4. files' = files \/ files' = [files EXCEPT ![CheckpointFile[run.session]] = NoCheckpoint]
  BY DEF BrokenWrite
<1>5. index' = index \/ index' = EmptyIndex
  BY DEF BrokenWrite
<1> QED BY <1>1, <1>2, <1>3, <1>4, <1>5 DEF FilesType

\* The completed phase is recorded as failed under the handoff it had.
LEMMA SaveThrowsInTryPreserves ==
  ASSUME IInv, SaveThrowsInTry
  PROVE  IInv'
<1> USE DEF IInv
<1>1. /\ pc \in PCs \ {"idle"} /\ pc' = "file" /\ run.saving = "completed"
      /\ faults < MaxFaults /\ faults' = faults + 1 /\ runs' = runs
      /\ BrokenWrite
  BY DEF SaveThrowsInTry, PCs
<1>2. /\ run \in Run /\ run.order \in Orders(run.key) /\ run.key \in Keys
      /\ run.results \in Results(run.key) /\ run.ctx \in Context
  BY <1>1, RunInProgress DEF TypeOK
<1>3. run.results[run.order] \in Entry
  BY <1>1, <1>2 DEF TypeOK, Results
<1> DEFINE prior == run.results[run.order]
           entry == [prior EXCEPT !.status = "failed", !.found = {}]
<1>4. entry \in Entry /\ entry.status = "failed"
  BY <1>3 DEF Entry
<1>5. run' = [run EXCEPT !.results[run.order] = entry, !.ctx = run.ctx,
                         !.misses = @ + 1, !.saving = "failed"]
  BY <1>2, <1>3 DEF SaveThrowsInTry, Run, Results
<1> HIDE DEF entry
<1>6. faults' \in 0 .. MaxFaults
  BY <1>1, RequestAssumption DEF TypeOK
<1> QED BY <1>1, <1>2, <1>4, <1>5, <1>6, BrokenWriteBelongs, PhaseRecorded

\* An abandoned run leaves the files, where everything already belongs.
LEMMA AbandonPreserves ==
  ASSUME IInv, SaveThrows \/ Crash
  PROVE  IInv'
<1> USE DEF IInv
<1>1. /\ pc # "idle" /\ pc' = "idle" /\ run' = NoRun /\ runs' = runs
      /\ faults' \in 0 .. MaxFaults
      /\ BrokenWrite
  BY RequestAssumption DEF SaveThrows, Crash, TypeOK
<1>2. /\ files' \in FilesType /\ index' \in IndexType
      /\ \A f \in FileNames : files'[f] # NoCheckpoint => files'[f] = files[f]
  BY <1>1, BrokenWriteBelongs
<1>3. TypeOK'
  BY <1>1, <1>2 DEF TypeOK, PCs, FilesType, IndexType
<1>4. ResultsBelong'
  BY <1>1, <1>2 DEF ResultsBelong
<1> QED BY <1>3, <1>4

LEMMA Inductive == IInv /\ [Next]_vars => IInv'
<1> SUFFICES ASSUME IInv, [Next]_vars PROVE IInv'
  OBVIOUS
<1>1. CASE Start
  BY <1>1, StartPreserves
<1>2. CASE ReusePhase
  BY <1>2, ReusePreserves
<1>3. CASE CompletePhase
  BY <1>3, CompletePreserves
<1>4. CASE FailPhase
  BY <1>4, FailPreserves
<1>5. CASE LeaveLoop
  BY <1>5, LeavePreserves
<1>6. CASE WriteCheckpoint
  BY <1>6, WriteCheckpointPreserves
<1>7. CASE WriteIndex
  BY <1>7, WriteIndexPreserves
<1>8. CASE SaveThrowsInTry
  BY <1>8, SaveThrowsInTryPreserves
<1>9. CASE SaveThrows \/ Crash
  BY <1>9, AbandonPreserves
<1>10. CASE UNCHANGED vars
  BY <1>10 DEF IInv, TypeOK, ResultsBelong, vars
<1> QED BY <1>1, <1>2, <1>3, <1>4, <1>5, <1>6, <1>7, <1>8, <1>9, <1>10
        DEF Next, Advance

LEMMA Initial == Init => IInv
BY RequestAssumption DEF Init, IInv, TypeOK, ResultsBelong, PCs, EmptyIndex

-----------------------------------------------------------------------------
(* The theorems.                                                           *)

\* Every state of every history of runs, failed writes and crashes is well
\* typed: what the loop and the saves write is always a checkpoint that loads.
THEOREM TypeCorrect == Spec => []TypeOK
<1>1. Spec => []IInv
  BY Initial, Inductive, PTL DEF Spec
<1>2. IInv => TypeOK
  BY DEF IInv
<1> QED BY <1>1, <1>2, PTL

\* For any sessions, plans and file names, also when file names collide: reuse
\* through the session's file, the index or resume never puts a result where
\* it does not belong.
THEOREM ReuseIsSound == Spec => []ResultsBelong
<1>1. Spec => []IInv
  BY Initial, Inductive, PTL DEF Spec
<1>2. IInv => ResultsBelong
  BY DEF IInv
<1> QED BY <1>1, <1>2, PTL

-----------------------------------------------------------------------------
(* The engine: its plans can be executed, more work gets no less care, and *)
(* the walk through the phases follows the plan.                           *)

\* A resolved mode is a mode (resolveWorkflowMode).
LEMMA ModeResolved ==
  ASSUME NEW config \in Config, NEW mode \in Modes \cup {Absent}
  PROVE  resolveWorkflowMode(config, mode) \in Modes
BY DEF Config, resolveWorkflowMode, Otherwise

\* An effective mode is static or quick (resolveEffectiveWorkflowMode).
LEMMA EffectiveMode ==
  ASSUME NEW config \in Config, NEW mode \in Modes, NEW complexity
  PROVE  resolveEffectiveWorkflowMode(config, mode, complexity) \in {"static", "quick"}
BY DEF Modes, resolveEffectiveWorkflowMode

\* Both sequences of phases can be executed (STATIC_PHASES, QUICK_PHASES and
\* PHASE_METADATA).
LEMMA SequencesAreExecutable ==
  ASSUME NEW planned, planned.phases \in {StaticPhases, QuickPhases},
         planned.skippedPhases = PhasesIn(StaticPhases) \ PhasesIn(planned.phases)
  PROVE  Executable(planned, Agents)
<1>1. PhasesIn(QuickPhases) \subseteq PhasesIn(StaticPhases)
  BY DEF PhasesIn, QuickPhases, StaticPhases
<1>2. CASE planned.phases = QuickPhases
  <2>1. QuickPhases # <<>>
    BY DEF QuickPhases
  <2>2. ASSUME NEW i \in DOMAIN QuickPhases
        PROVE  /\ AgentOf(QuickPhases[i]) \in Agents
               /\ StageOf(QuickPhases[i]) = "design" <=> AgentOf(QuickPhases[i]) = "scout"
    BY DEF QuickPhases, AgentOf, StageOf, Agents
  <2>4. AgentsOf(QuickPhases) \in Seq(Agents)
    <3>1. DOMAIN QuickPhases = 1 .. 6
      BY DEF QuickPhases
    <3>2. AgentsOf(QuickPhases) \in [1 .. 6 -> Agents]
      BY <2>2, <3>1 DEF AgentsOf
    <3> QED BY <3>2, SeqDef
  <2>3. ASSUME NEW i \in DOMAIN QuickPhases, NEW j \in DOMAIN QuickPhases, i < j
        PROVE  /\ StageNumber(QuickPhases[i]) <= StageNumber(QuickPhases[j])
               /\ QuickPhases[i] # QuickPhases[j]
               /\ QuickPhases[i] # "build-green" \/ QuickPhases[j] # "implement-red"
               /\ QuickPhases[i] # "deliver" \/ QuickPhases[j] # "verify"
    BY <2>3 DEF QuickPhases, StageNumber, StageOf
  <2> QED BY <1>1, <1>2, <2>1, <2>2, <2>3, <2>4 DEF Executable
<1>3. CASE planned.phases = StaticPhases
  <2>1. StaticPhases # <<>>
    BY DEF StaticPhases
  <2>2. ASSUME NEW i \in DOMAIN StaticPhases
        PROVE  /\ AgentOf(StaticPhases[i]) \in Agents
               /\ StageOf(StaticPhases[i]) = "design" <=> AgentOf(StaticPhases[i]) = "scout"
    BY DEF StaticPhases, AgentOf, StageOf, Agents
  <2>4. AgentsOf(StaticPhases) \in Seq(Agents)
    <3>1. DOMAIN StaticPhases = 1 .. 9
      BY DEF StaticPhases
    <3>2. AgentsOf(StaticPhases) \in [1 .. 9 -> Agents]
      BY <2>2, <3>1 DEF AgentsOf
    <3> QED BY <3>2, SeqDef
  <2>3. ASSUME NEW i \in DOMAIN StaticPhases, NEW j \in DOMAIN StaticPhases, i < j
        PROVE  /\ StageNumber(StaticPhases[i]) <= StageNumber(StaticPhases[j])
               /\ StaticPhases[i] # StaticPhases[j]
               /\ StaticPhases[i] # "build-green" \/ StaticPhases[j] # "implement-red"
               /\ StaticPhases[i] # "deliver" \/ StaticPhases[j] # "verify"
    BY <2>3 DEF StaticPhases, StageNumber, StageOf
  <2> QED BY <1>3, <2>1, <2>2, <2>3, <2>4 DEF Executable
<1> QED BY <1>2, <1>3

\* A plan has one of the two sequences (resolvePhases).
LEMMA PlannedPhases ==
  ASSUME NEW config \in Config, NEW request, IsRequest(request)
  PROVE  /\ plan(config, request).phases \in {StaticPhases, QuickPhases}
         /\ plan(config, request).skippedPhases =
              PhasesIn(StaticPhases) \ PhasesIn(plan(config, request).phases)
BY DEF plan, resolvePhases

\* Every plan of the engine can be executed: it satisfies what the executor's
\* model assumes of plans (PlanAssumption), and the design stage is the
\* scout's, its stages are in order, and tests precede what they test (plan).
THEOREM EnginePlansAreExecutable ==
  ASSUME NEW Requests, \A request \in Requests : IsRequest(request)
  PROVE  PlansAreExecutable(Config, Requests, Agents)
<1> SUFFICES ASSUME NEW config \in Config, NEW request \in Requests
             PROVE  Executable(plan(config, request), Agents)
  BY DEF PlansAreExecutable
<1> QED
  BY PlannedPhases, SequencesAreExecutable

-----------------------------------------------------------------------------

\* The clamp keeps the order of finite numbers, and puts what is not finite
\* below all (clampNonNegativeInt).
LEMMA ClampIsMonotone ==
  ASSUME NEW more \in Number, NEW count \in Number, NoLess(more, count)
  PROVE  /\ clampNonNegativeInt(more) \in Nat
         /\ clampNonNegativeInt(count) \in Nat
         /\ clampNonNegativeInt(count) <= clampNonNegativeInt(more)
<1>1. more \in Int
  BY DEF NoLess, Number
<1>2. CASE count = NotFinite
  BY <1>1, <1>2 DEF clampNonNegativeInt
<1>3. CASE count # NotFinite
  BY <1>1, <1>3, NumberAssumption DEF clampNonNegativeInt, NoLess, Number
<1> QED BY <1>2, <1>3

\* The counts of a request are numbers (resolveComplexity).
LEMMA CountsAreNumbers ==
  ASSUME NEW request, IsRequest(request)
  PROVE  FileCount(request) \in Number /\ PatternCount(request) \in Number
<1>1. Cardinality(request.files) \in Nat /\ Cardinality(request.words) \in Nat
  BY FS_CardinalityType DEF IsRequest
<1> QED BY <1>1 DEF FileCount, PatternCount, Otherwise, IsRequest, Number

\* More work is no less complex (resolveComplexity).
LEMMA ComplexityGrows ==
  ASSUME NEW request, IsRequest(request), NEW more, IsRequest(more),
         AtLeastTheWork(more, request)
  PROVE  /\ resolveComplexity(request).fileCount \in Nat
         /\ resolveComplexity(request).patternCount \in Nat
         /\ resolveComplexity(more).fileCount \in Nat
         /\ resolveComplexity(more).patternCount \in Nat
         /\ resolveComplexity(request).fileCount <= resolveComplexity(more).fileCount
         /\ resolveComplexity(request).patternCount <= resolveComplexity(more).patternCount
BY CountsAreNumbers, ClampIsMonotone DEF AtLeastTheWork, resolveComplexity

\* More work never gets a shorter plan or a shallower analysis, for all
\* thresholds and all hints that are finite (plan).
THEOREM MoreWorkGetsNoLessCare ==
  ASSUME NEW Requests, \A request \in Requests : IsRequest(request)
  PROVE  MoreWorkNoLessCare(Config, Requests)
<1> SUFFICES ASSUME NEW config \in Config, NEW request \in Requests, NEW more \in Requests,
                    AtLeastTheWork(more, request)
             PROVE  /\ PhasesIn(plan(config, request).phases)
                         \subseteq PhasesIn(plan(config, more).phases)
                    /\ plan(config, request).analysisMode = "deep" =>
                         plan(config, more).analysisMode = "deep"
  BY DEF MoreWorkNoLessCare
<1> DEFINE little == resolveComplexity(request)
           much   == resolveComplexity(more)
           mode   == resolveWorkflowMode(config, request.workflowMode)
           first  == resolveEffectiveWorkflowMode(config, mode, little)
           second == resolveEffectiveWorkflowMode(config, mode, much)
<1>1. /\ little.fileCount \in Nat /\ much.fileCount \in Nat
      /\ little.patternCount \in Nat /\ much.patternCount \in Nat
      /\ little.fileCount <= much.fileCount
      /\ little.patternCount <= much.patternCount
  BY ComplexityGrows
<1>2. /\ config.quickThreshold \in Int
      /\ config.deepFileThreshold \in Int
      /\ config.deepPatternThreshold \in Int
  BY DEF Config
<1>3. second = "quick" => first = "quick"
  <2> HIDE DEF little, much, mode
  <2> QED BY <1>1, <1>2 DEF resolveEffectiveWorkflowMode
<1>4. /\ plan(config, request).phases = resolvePhases(first)
      /\ plan(config, more).phases = resolvePhases(second)
  BY DEF plan, AtLeastTheWork
<1>5. PhasesIn(QuickPhases) \subseteq PhasesIn(StaticPhases)
  BY DEF PhasesIn, QuickPhases, StaticPhases
<1>6. PhasesIn(plan(config, request).phases) \subseteq PhasesIn(plan(config, more).phases)
  <2> HIDE DEF first, second
  <2> QED BY <1>3, <1>4, <1>5 DEF resolvePhases
<1>7. resolveAnalysisMode(config, little) = "deep" => resolveAnalysisMode(config, much) = "deep"
  <2> HIDE DEF little, much
  <2> QED BY <1>1, <1>2 DEF resolveAnalysisMode
<1>8. plan(config, request).analysisMode = "deep" => plan(config, more).analysisMode = "deep"
  BY <1>7 DEF plan, AtLeastTheWork, Otherwise
<1> QED BY <1>6, <1>8

-----------------------------------------------------------------------------

\* The walk visits the phases of a plan in order, each once, and makes no
\* other transition (initialState and advanceState).
THEOREM WalkFollowsThePlan ==
  ASSUME NEW Phase, NEW phases \in Seq(Phase), phases # <<>>
  PROVE  WalksInOrder(phases)
<1>1. Len(phases) \in Nat \ {0}
  OBVIOUS
<1>2. initialState(phases) = StateAt(phases, 1)
  <2>1. Head(phases) = phases[1]
    OBVIOUS
  <2>2. SubSeq(phases, 1, 0) = <<>>
    BY SubSeqEmpty
  <2>3. Tail(phases) = SubSeq(phases, 2, Len(phases))
    BY TailIsSubSeq
  <2>4. 1 - 1 = 0 /\ 1 + 1 = 2
    OBVIOUS
  <2> QED BY <2>1, <2>2, <2>3, <2>4, Zenon DEF initialState, StateAt
<1> SUFFICES ASSUME NEW k \in 1 .. Len(phases), NEW target \in PhasesIn(phases)
             PROVE  /\ MayAdvance(StateAt(phases, k), target) <=>
                         k < Len(phases) /\ target = phases[k + 1]
                    /\ MayAdvance(StateAt(phases, k), target) =>
                         advanceState(StateAt(phases, k), target) = StateAt(phases, k + 1)
  BY <1>2 DEF WalksInOrder
<1> DEFINE ahead == SubSeq(phases, k + 1, Len(phases))
           behind == SubSeq(phases, 1, k - 1)
<1>3. StateAt(phases, k) = [currentPhase |-> phases[k], completedPhases |-> behind,
                            remainingPhases |-> ahead]
  BY DEF StateAt
<1>4. CASE k = Len(phases)
  <2>1. ahead = <<>>
    BY <1>4, SubSeqEmpty
  <2> QED BY <1>3, <1>4, <2>1 DEF MayAdvance
<1>5. CASE k < Len(phases)
  <2>1. ahead # <<>> /\ Head(ahead) = phases[k + 1]
        /\ Tail(ahead) = SubSeq(phases, k + 2, Len(phases))
    <3>1. k + 1 \in 1 .. Len(phases) /\ Len(phases) \in 1 .. Len(phases) /\ k + 1 <= Len(phases)
      BY <1>5
    <3>2. Len(ahead) = Len(phases) - k
      BY <3>1, SubSeqProperties
    <3>3. ahead # <<>>
      <4>1. Len(ahead) # 0
        BY <3>2, <1>5
      <4> HIDE DEF ahead
      <4> QED BY <4>1
    <3> QED BY <3>1, <3>3, HeadTailOfSubSeq
  <2>2. Append(behind, phases[k]) = SubSeq(phases, 1, k)
    <3>1. SubSeq(phases, 1, k) = behind \o <<phases[k]>>
      BY SubSeqRecursiveSecond
    <3> QED BY <3>1
  <2>3. StateAt(phases, k + 1) =
          [currentPhase |-> phases[k + 1], completedPhases |-> SubSeq(phases, 1, k),
           remainingPhases |-> SubSeq(phases, k + 2, Len(phases))]
    <3>1. (k + 1) - 1 = k /\ (k + 1) + 1 = k + 2
      OBVIOUS
    <3> QED BY <3>1, Zenon DEF StateAt
  <2> HIDE DEF ahead, behind
  <2>4. /\ StateAt(phases, k).currentPhase = phases[k]
        /\ StateAt(phases, k).completedPhases = behind
        /\ StateAt(phases, k).remainingPhases = ahead
    BY <1>3
  <2>5. MayAdvance(StateAt(phases, k), target) <=> target = phases[k + 1]
    BY <2>1, <2>4, Zenon DEF MayAdvance
  <2>6. advanceState(StateAt(phases, k), phases[k + 1]) = StateAt(phases, k + 1)
    BY <2>1, <2>2, <2>3, <2>4, Zenon DEF advanceState
  <2> QED BY <1>5, <2>5, <2>6
<1> QED BY <1>4, <1>5

-----------------------------------------------------------------------------
(***************************************************************************)
(* The executor implements ResumablePipeline. The invariant this takes     *)
(* goes beyond types and ResultsBelong.                                    *)
(***************************************************************************)

\* Completed results were produced by run n or an earlier one.
ProducedBy(results, n) ==
  \A o \in computeCompletedPhases(results) : results[o].handoff.run <= n

\* Nothing on disk is of a later run, and what the run in progress has not
\* come to yet is of an earlier one.
Dated ==
  /\ \A f \in FileNames : files[f] # NoCheckpoint => ProducedBy(files[f].results, runs)
  /\ \A key \in Keys : index[key] # NoIndexEntry => index[key].at <= runs
  /\ pc # "idle" =>
       /\ run.n = runs
       /\ ProducedBy(run.results, runs)
       /\ \A o \in computeCompletedPhases(run.results) \cap PhasesAhead :
            run.results[o].handoff.run < run.n

\* The save under way tells what became of the phase the run is at.
SaveTells ==
  pc # "idle" =>
    /\ run.saving = "none" <=> pc = "phase"
    /\ pc = "ended" => run.saving = "final"
    /\ run.saving = "completed" => /\ run.results[run.order].status = "completed"
                                   /\ run.results[run.order].handoff.run = run.n
    /\ run.saving = "failed" => run.results[run.order].status = "failed"
    /\ run.saving = "final" =>
         \/ run.order = Len(Phases[run.key]) + 1
         \/ /\ run.order \in Orders(run.key)
            /\ run.results[run.order] # NoEntry
            /\ run.results[run.order].status = "failed"

\* Every phase behind the run has a result.
Settled ==
  pc # "idle" => \A o \in Orders(run.key) \ PhasesAhead : run.results[o] # NoEntry

\* What is reindexed and completed is of this run.
Replayed ==
  pc # "idle" => \A o \in computeCompletedPhases(run.results) :
                   o >= run.start => run.results[o].handoff.run = run.n

\* The file is written before the index, and both before a run returns.
Written ==
  /\ pc \in {"index", "ended"} => files[CheckpointFile[run.session]] = CheckpointOfRun
  /\ pc = "ended" => index[run.key] = [session |-> run.session, at |-> run.n]

PInv ==
  /\ IInv
  /\ Dated
  /\ SaveTells
  /\ Settled
  /\ Replayed
  /\ SkipsCompletedPhases
  /\ Written

LEMMA PInitial == Init => PInv
<1> SUFFICES ASSUME Init PROVE PInv
  OBVIOUS
<1>1. IInv
  BY Initial
<1>2. /\ pc = "idle" /\ files = [f \in FileNames |-> NoCheckpoint]
      /\ index = [key \in Keys |-> NoIndexEntry]
  BY DEF Init, EmptyIndex
<1> QED BY <1>1, <1>2 DEF PInv, Dated, SaveTells, Settled, Replayed,
           SkipsCompletedPhases, Written

-----------------------------------------------------------------------------
(* Starting a run.                                                         *)

LEMMA ReindexStartRange ==
  ASSUME NEW key \in Keys, NEW requested \in BOOLEAN
  PROVE  reindexStart(key, requested) \in 1 .. Len(Phases[key]) + 1
<1>1. DesignOrders(key) \in SUBSET Orders(key) /\ DesignOrders(key) \in SUBSET Nat
  BY PlanLength DEF DesignOrders
<1>2. DesignOrders(key) # {} =>
        \E o \in DesignOrders(key) : \A d \in DesignOrders(key) : o <= d
  BY <1>1, LeastOrder
<1> QED BY <1>1, <1>2, PlanLength DEF reindexStart

LEMMA KeptPhases ==
  ASSUME NEW key \in Keys, NEW results \in Results(key), NEW start \in Nat
  PROVE  LET kept == applyReindexPolicy(results, start)
         IN  /\ computeCompletedPhases(kept) = {o \in computeCompletedPhases(results) : o < start}
             /\ \A o \in computeCompletedPhases(kept) : kept[o] = results[o]
BY DEF applyReindexPolicy, computeCompletedPhases

LEMMA SelectedPhases ==
  ASSUME NEW key \in Keys, NEW results \in Results(key)
  PROVE  LET chosen == selectCrossSessionPlanningPhases(key, results)
         IN  /\ computeCompletedPhases(chosen)
                  = computeCompletedPhases(results) \cap DesignOrders(key)
             /\ \A o \in computeCompletedPhases(chosen) : chosen[o] = results[o]
BY CompletedResult DEF selectCrossSessionPlanningPhases, computeCompletedPhases

LEMMA ProducedDates ==
  ASSUME NEW key \in Keys, NEW results \in Results(key), NEW session,
         Belongs(session, key, results)
  PROVE  \A o \in computeCompletedPhases(results) :
           o \in Nat /\ results[o].handoff.run \in Nat
<1> SUFFICES ASSUME NEW o \in computeCompletedPhases(results)
             PROVE  o \in Nat /\ results[o].handoff.run \in Nat
  OBVIOUS
<1>1. o \in Orders(key) /\ results[o] \in Entry
  BY CompletedResult
<1>2. results[o].handoff \in Handoff
  BY <1>1 DEF Belongs, Entry
<1> QED BY <1>1, <1>2, PlanLength DEF Handoff

\* What Pipeline!Begin makes of the run.
Beginning(session, key, done) ==
  {[session |-> session, key |-> key, done |-> done, ran |-> {},
    ahead |-> Orders(key), stage |-> "running"]}

LEMMA StartedPipeline ==
  ASSUME PInv, IInv', NEW session \in Sessions, NEW key \in Keys,
         NEW eligible \in Results(key), ProducedBy(eligible, runs),
         Belongs(session, key, eligible),
         NEW ctx, NEW cont, NEW reindex \in BOOLEAN,
         executeInternal(session, key, eligible, ctx, cont, reindex),
         \A k \in Keys : index'[k] # NoIndexEntry => index'[k].at <= runs
  PROVE  /\ PInv'
         /\ UNCHANGED SavedPhases
         /\ RunPhases' = Beginning(session, key,
                {o \in computeCompletedPhases(eligible) : o < reindexStart(key, reindex)})
         /\ \A w \in RunPhases : w.stage = "returned"
<1> DEFINE start == reindexStart(key, reindex)
           kept  == applyReindexPolicy(eligible, start)
<1>1. start \in Nat
  BY ReindexStartType
<1>2. /\ kept \in Results(key)
      /\ computeCompletedPhases(kept) = {o \in computeCompletedPhases(eligible) : o < start}
      /\ \A o \in computeCompletedPhases(kept) : kept[o] = eligible[o]
  BY <1>1, ReindexKeepsPlace, KeptPhases
<1>3. /\ runs' = runs + 1 /\ runs \in Nat
      /\ pc' = "phase"
      /\ files' = files
  BY DEF executeInternal, PInv, IInv, TypeOK
<1>4. /\ run'.n = runs + 1 /\ run'.session = session /\ run'.key = key
      /\ run'.order = 1 /\ run'.results = kept /\ run'.start = start
      /\ run'.base = computeCompletedPhases(eligible) /\ run'.saving = "none"
  BY DEF executeInternal
<1> HIDE DEF start, kept
<1>5. \A o \in computeCompletedPhases(eligible) :
        o \in Nat /\ eligible[o].handoff.run \in Nat /\ eligible[o].handoff.run <= runs
  BY ProducedDates DEF ProducedBy
<1>6. PhasesAhead' = Orders(key)
  BY <1>4, PlanLength DEF PhasesAhead
<1>7. Dated'
  <2>1. \A f \in FileNames : files'[f] # NoCheckpoint => ProducedBy(files'[f].results, runs')
    <3> SUFFICES ASSUME NEW f \in FileNames, files[f] # NoCheckpoint,
                        NEW o \in computeCompletedPhases(files[f].results)
                 PROVE  files[f].results[o].handoff.run <= runs + 1
      BY <1>3 DEF ProducedBy
    <3>1. files[f].results[o].handoff.run <= runs
      BY DEF PInv, Dated, ProducedBy
    <3>2. files[f] \in Checkpoint
      BY DEF PInv, IInv, TypeOK
    <3>3. files[f].results[o].handoff.run \in Nat
      BY <3>2, CheckpointFields, ProducedDates DEF PInv, IInv, ResultsBelong
    <3> QED BY <1>3, <3>1, <3>3
  <2>2. \A k \in Keys : index'[k] # NoIndexEntry => index'[k].at <= runs'
    <3> SUFFICES ASSUME NEW k \in Keys, index'[k] # NoIndexEntry
                 PROVE  index'[k].at <= runs'
      OBVIOUS
    <3>1. index'[k].at \in Nat
      BY DEF IInv, TypeOK, IndexEntry
    <3> QED BY <1>3, <3>1
  <2>3. \A o \in computeCompletedPhases(kept) : kept[o].handoff.run < runs + 1
    BY <1>2, <1>3, <1>5
  <2>4. \A o \in computeCompletedPhases(kept) : kept[o].handoff.run <= runs + 1
    BY <1>2, <1>3, <1>5
  <2> QED BY <1>3, <1>4, <2>1, <2>2, <2>3, <2>4 DEF Dated, ProducedBy
<1>8. SaveTells'
  BY <1>3, <1>4 DEF SaveTells
<1>9. Settled'
  BY <1>4, <1>6 DEF Settled
<1>10. Replayed'
  BY <1>1, <1>2, <1>4, <1>5 DEF Replayed
<1>11. SkipsCompletedPhases'
  <2> SUFFICES ASSUME NEW o \in computeCompletedPhases(eligible), o < start
               PROVE  o \in computeCompletedPhases(kept) /\ kept[o].handoff.run < runs + 1
    BY <1>4 DEF SkipsCompletedPhases
  <2> QED BY <1>2, <1>3, <1>5
<1>12. Written'
  BY <1>3 DEF Written
<1>13. UNCHANGED SavedPhases
  BY <1>3 DEF SavedPhases
<1>14. PhasesRun' = {}
  BY <1>4, <1>6 DEF PhasesRun
<1>15. RunPhases' = Beginning(session, key, computeCompletedPhases(kept))
  BY <1>3, <1>4, <1>6, <1>14 DEF RunPhases, Beginning
<1>16. \A w \in RunPhases : w.stage = "returned"
  <2>1. pc \in {"idle", "ended"}
    BY DEF executeInternal
  <2>2. CASE pc = "idle"
    BY <2>2 DEF RunPhases
  <2>3. CASE pc = "ended"
    BY <2>3 DEF RunPhases
  <2> QED BY <2>1, <2>2, <2>3
<1> QED BY <1>2, <1>7, <1>8, <1>9, <1>10, <1>11, <1>12, <1>13, <1>15, <1>16
        DEF PInv, start

LEMMA StartPipeline ==
  ASSUME PInv, Start
  PROVE  /\ PInv'
         /\ \E session \in Sessions, key \in Keys : Pipeline!Begin(session, key)
<1> USE DEF PInv
<1>0. /\ files \in FilesType /\ index \in IndexType
      /\ IInv'
  BY Inductive DEF IInv, TypeOK, FilesType, IndexType, Next
<1>1. PICK session \in Sessions, reindex \in ReindexOptions :
        \/ \E cont \in BOOLEAN : resumeFromCheckpoint(session, cont, reindex)
        \/ \E key \in Keys, hints \in SUBSET Paths : \E cont \in ContinueOptions[key] :
             \/ \E cache \in CacheOptions :
                  ExecuteFresh(session, key, hints, cache, cont, reindex)
             \/ ExecuteFromOwnCheckpoint(session, key, hints, cont, reindex)
             \/ ExecuteFromOtherSession(session, key, hints, cont, reindex)
  BY DEF Start
<1>2. reindex \in BOOLEAN
  BY RequestAssumption
<1>3. ASSUME NEW s \in Sessions, NEW key \in Keys, NEW done,
             UNCHANGED SavedPhases, RunPhases' = Beginning(s, key, done),
             \A w \in RunPhases : w.stage = "returned",
             \/ done = {}
             \/ \E f \in FileNames, upto \in 1 .. Len(Phases[key]) + 1 :
                  \E r \in SavedPhases[f] : r.key = key /\ done = Pipeline!Inherited(r, s, upto)
      PROVE  Pipeline!Begin(s, key)
  <2> DEFINE Steps == [k \in Keys |-> Len(Phases[k])]
  <2>1. Steps[key] = Len(Phases[key])
    OBVIOUS
  <2>2. done \in Pipeline!Offers(s, key)
    <3>1. CASE done = {}
      BY <3>1 DEF Pipeline!Offers
    <3>2. CASE done # {}
      <4>1. PICK f \in FileNames, upto \in 1 .. Len(Phases[key]) + 1 :
              \E r \in SavedPhases[f] : r.key = key /\ done = Pipeline!Inherited(r, s, upto)
        BY <1>3, <3>2
      <4>2. PICK r \in SavedPhases[f] : r.key = key /\ done = Pipeline!Inherited(r, s, upto)
        BY <4>1
      <4>3. r \in Pipeline!Records(key)
        BY <4>2 DEF Pipeline!Records
      <4> QED BY <2>1, <4>2, <4>3 DEF Pipeline!Offers
    <3> QED BY <3>1, <3>2
  <2>3. RunPhases' = {[session |-> s, key |-> key, done |-> done, ran |-> {},
                       ahead |-> 1 .. Steps[key], stage |-> "running"]}
    BY <1>3, <2>1 DEF Beginning, Orders
  <2> QED BY <1>3, <2>2, <2>3, Zenon DEF Pipeline!Begin
<1>4. ASSUME NEW c \in Checkpoint, NEW f \in FileNames, c = files[f], c # NoCheckpoint
      PROVE  /\ Belongs(c.session, c.key, c.results)
             /\ ProducedBy(c.results, runs)
             /\ \E r \in SavedPhases[f] :
                  r.session = c.session /\ r.key = c.key
                    /\ r.done = computeCompletedPhases(c.results)
  BY <1>4 DEF IInv, ResultsBelong, Dated, SavedPhases
<1>5. \A hints : \A key \in Keys : \A k \in Keys :
        IndexAfterResolve(session, key, hints)[k] # NoIndexEntry
          => IndexAfterResolve(session, key, hints)[k].at <= runs
  BY <1>0 DEF IndexAfterResolve, IndexAfterLoad, Dated, IndexType
<1>6. ASSUME NEW cont \in BOOLEAN, resumeFromCheckpoint(session, cont, reindex)
      PROVE  PInv' /\ \E s \in Sessions, key \in Keys : Pipeline!Begin(s, key)
  <2> DEFINE c    == load(files, session)
             upto == reindexStart(c.key, reindex)
             done == {o \in computeCompletedPhases(c.results) : o < upto}
  <2>1. PICK f \in FileNames : c = files[f] /\ c # NoCheckpoint
    BY <1>6, StoreAssumption DEF resumeFromCheckpoint, load
  <2>2. c \in Checkpoint
    BY <1>0, <2>1 DEF FilesType
  <2>3. /\ c.session \in Sessions /\ c.key \in Keys /\ c.results \in Results(c.key)
    BY <2>2, CheckpointFields
  <2>4. \A k \in Keys : index'[k] # NoIndexEntry => index'[k].at <= runs
    BY <1>6 DEF resumeFromCheckpoint, Dated
  <2>5. executeInternal(c.session, c.key, c.results, c.ctx, cont, reindex)
    BY <1>6 DEF resumeFromCheckpoint
  <2>6. PICK r \in SavedPhases[f] :
          r.session = c.session /\ r.key = c.key
            /\ r.done = computeCompletedPhases(c.results)
    BY <1>4, <2>1, <2>2
  <2>7. Belongs(c.session, c.key, c.results) /\ ProducedBy(c.results, runs)
    BY <1>4, <2>1, <2>2
  <2>8. upto \in 1 .. Len(Phases[c.key]) + 1
    BY <1>2, <2>3, ReindexStartRange
  <2> HIDE DEF c
  <2>9. /\ PInv' /\ UNCHANGED SavedPhases
        /\ \A w \in RunPhases : w.stage = "returned"
        /\ RunPhases' = Beginning(c.session, c.key, done)
    BY <1>0, <1>2, <2>3, <2>4, <2>5, <2>7, StartedPipeline
  <2>10. done = Pipeline!Inherited(r, c.session, upto)
    BY <2>6 DEF Pipeline!Inherited
  <2> HIDE DEF done, upto
  <2>11. Pipeline!Begin(c.session, c.key)
    BY <1>3, <2>3, <2>6, <2>8, <2>9, <2>10
  <2> QED BY <2>3, <2>9, <2>11
<1>7. ASSUME NEW key \in Keys, NEW hints \in SUBSET Paths,
             NEW cont \in ContinueOptions[key], NEW cache \in CacheOptions,
             ExecuteFresh(session, key, hints, cache, cont, reindex)
      PROVE  PInv' /\ \E s \in Sessions, k \in Keys : Pipeline!Begin(s, k)
  <2>1. \A k \in Keys : index'[k] # NoIndexEntry => index'[k].at <= runs
    BY <1>5, <1>7 DEF ExecuteFresh, Dated
  <2>2. executeInternal(session, key, NoResults(key),
                        RequestContext(hints), cont, reindex)
    BY <1>7 DEF ExecuteFresh
  <2>3. Belongs(session, key, NoResults(key)) /\ ProducedBy(NoResults(key), runs)
    BY EmptyResults DEF Belongs, ProducedBy
  <2>4. /\ PInv' /\ UNCHANGED SavedPhases
        /\ \A w \in RunPhases : w.stage = "returned"
        /\ RunPhases' = Beginning(session, key, {})
    <3>1. {o \in computeCompletedPhases(NoResults(key)) : o < reindexStart(key, reindex)} = {}
      BY EmptyResults
    <3>2. NoResults(key) \in Results(key)
      BY EmptyResults
    <3>3. /\ PInv' /\ UNCHANGED SavedPhases
          /\ \A w \in RunPhases : w.stage = "returned"
          /\ RunPhases' = Beginning(session, key,
                {o \in computeCompletedPhases(NoResults(key)) : o < reindexStart(key, reindex)})
      BY <1>0, <1>2, <2>1, <2>2, <2>3, <3>2, StartedPipeline
    <3> QED BY <3>1, <3>3
  <2>5. Pipeline!Begin(session, key)
    BY <1>3, <2>4
  <2> QED BY <2>4, <2>5
<1>8. ASSUME NEW key \in Keys, NEW hints \in SUBSET Paths,
             NEW cont \in ContinueOptions[key],
             ExecuteFromOwnCheckpoint(session, key, hints, cont, reindex)
      PROVE  PInv' /\ \E s \in Sessions, k \in Keys : Pipeline!Begin(s, k)
  <2> DEFINE c    == resolveReusableCheckpoint(session, key, hints)
             ctx  == [c.ctx EXCEPT !.paths = @ \cup hints]
             upto == reindexStart(key, reindex)
             done == {o \in computeCompletedPhases(c.results) : o < upto}
  <2>1. c # NoCheckpoint /\ c.session = session
    BY <1>8 DEF ExecuteFromOwnCheckpoint
  <2>2. /\ c \in Checkpoint /\ c.key = key
        /\ \E f \in FileNames : files[f] = c /\ files[f] # NoCheckpoint
    BY <1>0, <2>1, ResolvedCheckpoint
  <2>3. \A k \in Keys : index'[k] # NoIndexEntry => index'[k].at <= runs
    BY <1>5, <1>8 DEF ExecuteFromOwnCheckpoint
  <2>4. executeInternal(session, key, c.results, ctx, cont, reindex)
    BY <1>8 DEF ExecuteFromOwnCheckpoint
  <2> HIDE DEF c
  <2>5. PICK f \in FileNames : c = files[f]
    BY <2>2
  <2>6. /\ Belongs(session, key, c.results) /\ ProducedBy(c.results, runs)
        /\ \E r \in SavedPhases[f] :
             r.session = c.session /\ r.key = c.key
               /\ r.done = computeCompletedPhases(c.results)
    BY <1>4, <2>1, <2>2, <2>5
  <2>7. PICK r \in SavedPhases[f] :
          r.session = c.session /\ r.key = c.key
            /\ r.done = computeCompletedPhases(c.results)
    BY <2>6
  <2>8. upto \in 1 .. Len(Phases[key]) + 1
    BY <1>2, ReindexStartRange
  <2> HIDE DEF ctx
  <2>9. /\ PInv' /\ UNCHANGED SavedPhases
        /\ \A w \in RunPhases : w.stage = "returned"
        /\ RunPhases' = Beginning(session, key, done)
    BY <1>0, <1>2, <2>2, <2>3, <2>4, <2>6, CheckpointFields, StartedPipeline
  <2>10. done = Pipeline!Inherited(r, session, upto)
    BY <2>1, <2>7 DEF Pipeline!Inherited
  <2> HIDE DEF done, upto
  <2>11. Pipeline!Begin(session, key)
    BY <1>3, <2>2, <2>7, <2>8, <2>9, <2>10
  <2> QED BY <2>9, <2>11
<1>9. ASSUME NEW key \in Keys, NEW hints \in SUBSET Paths,
             NEW cont \in ContinueOptions[key],
             ExecuteFromOtherSession(session, key, hints, cont, reindex)
      PROVE  PInv' /\ \E s \in Sessions, k \in Keys : Pipeline!Begin(s, k)
  <2> DEFINE c        == resolveReusableCheckpoint(session, key, hints)
             eligible == selectCrossSessionPlanningPhases(key, c.results)
             upto     == reindexStart(key, reindex)
             ctx      == rebuildContextFromPhaseArtifacts(
                           applyReindexPolicy(eligible, upto), hints)
             done     == {o \in computeCompletedPhases(eligible) : o < upto}
  <2>1. c # NoCheckpoint /\ c.session # session
    BY <1>9 DEF ExecuteFromOtherSession
  <2>2. /\ c \in Checkpoint /\ c.key = key
        /\ \E f \in FileNames : files[f] = c /\ files[f] # NoCheckpoint
    BY <1>0, <2>1, ResolvedCheckpoint
  <2>3. \A k \in Keys : index'[k] # NoIndexEntry => index'[k].at <= runs
    BY <1>5, <1>9 DEF ExecuteFromOtherSession
  <2>4. executeInternal(session, key, eligible, ctx, cont, reindex)
    BY <1>9 DEF ExecuteFromOtherSession
  <2> HIDE DEF c
  <2>5. PICK f \in FileNames : c = files[f]
    BY <2>2
  <2>6. /\ Belongs(c.session, key, c.results) /\ ProducedBy(c.results, runs)
        /\ \E r \in SavedPhases[f] :
             r.session = c.session /\ r.key = c.key
               /\ r.done = computeCompletedPhases(c.results)
    BY <1>4, <2>1, <2>2, <2>5
  <2>7. PICK r \in SavedPhases[f] :
          r.session = c.session /\ r.key = c.key
            /\ r.done = computeCompletedPhases(c.results)
    BY <2>6
  <2>8. upto \in 1 .. Len(Phases[key]) + 1
    BY <1>2, ReindexStartRange
  <2>9. c.results \in Results(key)
    BY <2>2, CheckpointFields
  <2>10. /\ eligible \in Results(key)
         /\ Belongs(session, key, eligible)
    BY <2>6, <2>9, SelectionBelongs
  <2>11. /\ computeCompletedPhases(eligible)
               = computeCompletedPhases(c.results) \cap DesignOrders(key)
         /\ ProducedBy(eligible, runs)
    BY <2>6, <2>9, SelectedPhases DEF ProducedBy
  <2> HIDE DEF ctx, eligible
  <2>12. /\ PInv' /\ UNCHANGED SavedPhases
         /\ \A w \in RunPhases : w.stage = "returned"
         /\ RunPhases' = Beginning(session, key, done)
    BY <1>0, <1>2, <2>3, <2>4, <2>10, <2>11, StartedPipeline
  <2>13. done = Pipeline!Inherited(r, session, upto)
    BY <2>1, <2>2, <2>7, <2>11 DEF Pipeline!Inherited
  <2> HIDE DEF done, upto
  <2>14. Pipeline!Begin(session, key)
    BY <1>3, <2>2, <2>7, <2>8, <2>12, <2>13
  <2> QED BY <2>12, <2>14
<1> QED BY <1>1, <1>6, <1>7, <1>8, <1>9

-----------------------------------------------------------------------------
(* The steps of a run.                                                     *)

\* What no step of a run changes.
SameRun ==
  /\ run'.n = run.n
  /\ run'.session = run.session
  /\ run'.key = run.key
  /\ run'.start = run.start
  /\ run'.base = run.base
  /\ runs' = runs

\* The run as a record of the pipeline.
Now ==
  [session |-> run.session,
   key     |-> run.key,
   done    |-> computeCompletedPhases(run.results),
   ran     |-> PhasesRun,
   ahead   |-> PhasesAhead,
   stage   |-> "running"]

LEMMA Running ==
  ASSUME PInv, pc \in {"phase", "file", "index"}
  PROVE  /\ RunPhases = {Now}
         /\ run.key \in Keys /\ run.session \in Sessions
         /\ run.results \in Results(run.key)
         /\ run.order \in 1 .. Len(Phases[run.key]) + 1 /\ run.order \in Nat
         /\ Len(Phases[run.key]) \in Nat
         /\ run.n = runs /\ runs \in Nat
         /\ \A o \in computeCompletedPhases(run.results) :
              /\ o \in Orders(run.key) /\ run.results[o] \in Entry
              /\ run.results[o].handoff.run \in Nat
<1> USE DEF PInv
<1>1. /\ run.key \in Keys /\ run.session \in Sessions /\ run.results \in Results(run.key)
      /\ run.order \in 1 .. Len(Phases[run.key]) + 1
  BY RunInProgress DEF IInv, TypeOK
<1>2. \A o \in computeCompletedPhases(run.results) : run.results[o].handoff.run \in Nat
  BY <1>1, ProducedDates DEF IInv, ResultsBelong
<1>3. RunPhases = {Now}
  BY DEF RunPhases, Now
<1> QED BY <1>1, <1>2, <1>3, CompletedResult, PlanLength DEF Dated, IInv, TypeOK

\* Files that stay or break, and an index that loses entries, stay dated.
LEMMA DatedDisk ==
  ASSUME PInv, runs' = runs,
         \A f \in FileNames : files'[f] # NoCheckpoint => files'[f] = files[f],
         \A k \in Keys : index'[k] # NoIndexEntry => index'[k] = index[k]
  PROVE  /\ \A f \in FileNames : files'[f] # NoCheckpoint =>
              ProducedBy(files'[f].results, runs')
         /\ \A k \in Keys : index'[k] # NoIndexEntry => index'[k].at <= runs'
BY DEF PInv, Dated

\* A save that does not go through.
LEMMA BrokenSaved ==
  ASSUME PInv, pc # "idle", BrokenWrite, NEW w, w.session = run.session
  PROVE  Pipeline!Interrupted(w)
<1> DEFINE f0 == CheckpointFile[run.session]
<1>1. files \in FilesType /\ f0 \in FileNames
  BY RunInProgress, StoreAssumption DEF PInv, IInv, TypeOK, FilesType
<1>2. CASE files' = files
  BY <1>2 DEF SavedPhases, Pipeline!Interrupted
<1>3. CASE files' = [files EXCEPT ![f0] = NoCheckpoint]
  <2>1. \A f \in FileNames : f # f0 => SavedPhases'[f] = SavedPhases[f]
    BY <1>1, <1>3 DEF SavedPhases, FilesType
  <2>2. SavedPhases'[f0] = {}
    BY <1>1, <1>3 DEF SavedPhases, FilesType
  <2>3. /\ SavedPhases' = [f \in FileNames |-> SavedPhases'[f]]
        /\ SavedPhases = [f \in FileNames |-> SavedPhases[f]]
    BY DEF SavedPhases
  <2>4. SavedPhases' = [SavedPhases EXCEPT ![f0] = {}]
    BY <1>1, <2>1, <2>2, <2>3
  <2> QED BY <2>4 DEF Pipeline!Interrupted
<1> QED BY <1>2, <1>3 DEF BrokenWrite

\* A result is recorded at the phase the run is at: one it performs now, or the
\* one it has just completed.
LEMMA RecordedPipeline ==
  ASSUME PInv, IInv', pc \in {"phase", "file", "index"}, pc' = "file", SameRun,
         run.order \in Orders(run.key),
         NEW entry \in Entry, NEW saving \in {"completed", "failed"},
         entry.status = saving,
         saving = "completed" => entry.handoff.run = run.n,
         \/ run.order \notin computeCompletedPhases(run.results)
         \/ run.results[run.order].handoff.run = run.n,
         run'.results = [run.results EXCEPT ![run.order] = entry],
         run'.order = run.order, run'.saving = saving,
         \A f \in FileNames : files'[f] # NoCheckpoint => files'[f] = files[f],
         \A k \in Keys : index'[k] # NoIndexEntry => index'[k] = index[k]
  PROVE  /\ PInv'
         /\ PhasesAhead' = PhasesAhead \ {run.order}
         /\ PhasesRun' = PhasesRun \cup {run.order}
         /\ computeCompletedPhases(run.results)' =
              (computeCompletedPhases(run.results) \ {run.order})
                \cup (IF saving = "completed" THEN {run.order} ELSE {})
<1> DEFINE done  == computeCompletedPhases(run.results)
           donex == computeCompletedPhases(run.results)'
<1>1. /\ run.key \in Keys /\ run.results \in Results(run.key)
      /\ run.order \in Nat /\ run.n = runs /\ runs \in Nat
      /\ \A o \in done : o \in Orders(run.key) /\ run.results[o].handoff.run \in Nat
  BY Running
<1>2. DOMAIN run.results = Orders(run.key) /\ Orders(run.key) \in SUBSET Nat
  BY <1>1, PlanLength DEF Results
<1>3. /\ run'.results[run.order] = entry
      /\ \A o \in Orders(run.key) : o # run.order => run'.results[o] = run.results[o]
      /\ DOMAIN run'.results = Orders(run.key)
  BY <1>2
<1>4. entry # NoEntry
  BY EntryAssumption
<1>5. donex = (done \ {run.order}) \cup (IF saving = "completed" THEN {run.order} ELSE {})
  BY <1>2, <1>3, <1>4 DEF computeCompletedPhases
<1>6. PhasesAhead' = PhasesAhead \ {run.order}
  BY <1>2 DEF PhasesAhead, SameRun
<1>7. \A o \in PhasesAhead' : o # run.order /\ o \in PhasesAhead
  BY <1>6
<1>8. PhasesRun' = PhasesRun \cup {run.order}
  <2>1. PhasesRun' = {o \in Orders(run.key) \ (PhasesAhead \ {run.order}) :
                        /\ run'.results[o] # NoEntry
                        /\ \/ run'.results[o].status = "failed"
                           \/ run'.results[o].handoff.run = run.n}
    BY <1>6 DEF PhasesRun, SameRun
  <2>2. PhasesRun \ {run.order} = PhasesRun' \ {run.order}
    BY <1>3, <2>1 DEF PhasesRun
  <2>3. run.order \in PhasesRun'
    BY <1>3, <1>4, <2>1
  <2>4. PhasesRun \subseteq PhasesRun'
    BY <2>2, <2>3
  <2> QED BY <2>2, <2>3, <2>4
<1>9. Dated'
  <2>1. \A o \in donex : run'.results[o].handoff.run <= runs
    BY <1>1, <1>3, <1>5 DEF PInv, Dated, ProducedBy
  <2>2. \A o \in donex \cap PhasesAhead' : run'.results[o].handoff.run < run.n
    BY <1>3, <1>5, <1>7 DEF PInv, Dated
  <2> QED BY <1>1, <2>1, <2>2, DatedDisk DEF Dated, SameRun, ProducedBy
<1>10. SaveTells'
  BY <1>3 DEF SaveTells, SameRun
<1>11. Settled'
  BY <1>3, <1>4, <1>6 DEF PInv, Settled, SameRun
<1>12. Replayed'
  BY <1>3, <1>5 DEF PInv, Replayed, SameRun
<1>13. SkipsCompletedPhases'
  BY <1>1, <1>3, <1>5 DEF PInv, SkipsCompletedPhases, SameRun
<1>14. Written'
  BY DEF Written
<1> HIDE DEF donex
<1> QED BY <1>5, <1>6, <1>8, <1>9, <1>10, <1>11, <1>12, <1>13, <1>14 DEF PInv, donex

\* Performing the phase at hand, with its outcome, is a step of the pipeline.
LEMMA PerformedPipeline ==
  ASSUME PInv, IInv', pc = "phase", pc' = "file", SameRun,
         run.order \in Orders(run.key),
         run.order \notin computeCompletedPhases(run.results),
         NEW entry \in Entry, NEW saving \in {"completed", "failed"},
         entry.status = saving,
         saving = "completed" => entry.handoff.run = run.n,
         run'.results = [run.results EXCEPT ![run.order] = entry],
         run'.order = run.order, run'.saving = saving,
         files' = files, index' = index
  PROVE  PInv' /\ Pipeline!Next
<1> DEFINE o == run.order
<1>1. RunPhases = {Now} /\ Orders(run.key) \in SUBSET Nat
  BY Running, PlanLength
<1>2. /\ PInv'
      /\ PhasesAhead' = PhasesAhead \ {o}
      /\ PhasesRun' = PhasesRun \cup {o}
      /\ computeCompletedPhases(run.results)' =
           (computeCompletedPhases(run.results) \ {o})
             \cup (IF saving = "completed" THEN {o} ELSE {})
  BY RecordedPipeline
<1>3. RunPhases' = {Now'}
  BY DEF RunPhases, Now
<1>4. o \in PhasesAhead /\ \A p \in PhasesAhead : o <= p
  <2>1. run.saving = "none"
    BY DEF PInv, SaveTells
  <2> QED BY <1>1, <2>1 DEF PhasesAhead
<1>5. UNCHANGED SavedPhases
  BY DEF SavedPhases
<1> DEFINE donex == computeCompletedPhases(run.results)'
<1>6. Now' = Pipeline!Moved(Now, donex, Now.ran \cup {o}, Now.ahead \ {o})
  <2>1. PhasesAhead' = PhasesAhead \ {o} /\ PhasesRun' = PhasesRun \cup {o}
    BY <1>2
  <2> QED BY <2>1 DEF Now, SameRun, Pipeline!Moved
<1>7. donex \in {Now.done, Now.done \cup {o}}
  BY <1>2 DEF Now
<1>8. Pipeline!At(Now, o) /\ o \notin Now.done /\ o \in Now.ahead
  BY <1>4 DEF Pipeline!At, Now
<1> HIDE DEF donex, o
<1>9. Pipeline!Perform(Now, o)
  BY <1>3, <1>5, <1>6, <1>7, <1>8 DEF Pipeline!Perform
<1> QED BY <1>1, <1>2, <1>8, <1>9 DEF Pipeline!Next

LEMMA RunFields ==
  ASSUME PInv, pc # "idle"
  PROVE  run \in Run /\ DOMAIN run.results = Orders(run.key)
BY RunInProgress DEF PInv, IInv, Results

LEMMA CompletePipeline ==
  ASSUME PInv, CompletePhase
  PROVE  PInv' /\ Pipeline!Next
<1>1. IInv'
  BY Inductive DEF PInv, Next, Advance
<1>2. /\ pc = "phase" /\ pc' = "file" /\ run.order \in Orders(run.key)
      /\ run.order \notin computeCompletedPhases(run.results)
      /\ files' = files /\ index' = index /\ runs' = runs
  BY DEF CompletePhase, AtPhase
<1>3. PICK found \in Artifacts :
        run' = [run EXCEPT
                 !.results[run.order] = PhaseResult("completed", found),
                 !.ctx = updateContextFromArtifact(run.ctx, Agent,
                                                   PhaseHandoff, found),
                 !.misses = @ + 1,
                 !.saving = "completed"]
  BY DEF CompletePhase
<1> DEFINE entry == PhaseResult("completed", found)
<1>4. /\ entry \in Entry
      /\ entry.status = "completed"
      /\ entry.handoff.run = run.n
  BY <1>2, PhaseResultType DEF Artifacts, PInv, IInv, PhaseHandoff
<1> HIDE DEF entry
<1>5. /\ run'.results = [run.results EXCEPT ![run.order] = entry]
      /\ run'.order = run.order /\ run'.saving = "completed"
      /\ SameRun
  BY <1>2, <1>3, RunFields DEF Run, SameRun, entry
<1> QED BY <1>1, <1>2, <1>4, <1>5, PerformedPipeline

LEMMA FailPipeline ==
  ASSUME PInv, FailPhase
  PROVE  PInv' /\ Pipeline!Next
<1>1. IInv'
  BY Inductive DEF PInv, Next, Advance
<1> DEFINE entry == IF HandoffValid(run.ctx) THEN PhaseResult("failed", {})
                                             ELSE NoHandoffResult
<1>2. /\ pc = "phase" /\ pc' = "file" /\ run.order \in Orders(run.key)
      /\ run.order \notin computeCompletedPhases(run.results)
      /\ files' = files /\ index' = index /\ runs' = runs
      /\ run' = [run EXCEPT !.results[run.order] = entry, !.misses = @ + 1,
                            !.saving = "failed"]
  BY DEF FailPhase, AtPhase
<1>3. /\ PhaseResult("failed", {}) \in Entry
      /\ PhaseResult("failed", {}).status = "failed"
  BY <1>2, PhaseResultType DEF PInv, IInv
<1>4. NoHandoffResult \in Entry /\ NoHandoffResult.status = "failed"
  BY <1>3 DEF NoHandoffResult, Entry
<1>5. entry \in Entry /\ entry.status = "failed"
  BY <1>3, <1>4
<1> HIDE DEF entry
<1>6. /\ run'.results = [run.results EXCEPT ![run.order] = entry]
      /\ run'.order = run.order /\ run'.saving = "failed"
      /\ SameRun
  BY <1>2, RunFields DEF Run, SameRun
<1> QED BY <1>1, <1>2, <1>5, <1>6, PerformedPipeline

\* Reusing a result changes neither what is done nor what this run performed.
LEMMA ReusePipeline ==
  ASSUME PInv, ReusePhase
  PROVE  PInv' /\ Pipeline!Next
<1>1. IInv'
  BY Inductive DEF PInv, Next, Advance
<1> DEFINE o    == run.order
           done == computeCompletedPhases(run.results)
           how  == IF Reindexed THEN "reindexed" ELSE "cache"
           res  == [run.results EXCEPT ![o].source = how]
<1>2. /\ pc = "phase" /\ pc' = "phase" /\ o \in Orders(run.key) /\ o \in done
      /\ files' = files /\ index' = index /\ runs' = runs
  BY DEF ReusePhase, AtPhase
<1>3. /\ RunPhases = {Now}
      /\ run.key \in Keys /\ run.results \in Results(run.key)
      /\ o \in Nat /\ run.n = runs /\ runs \in Nat
      /\ \A p \in done : p \in Orders(run.key) /\ run.results[p] \in Entry
      /\ Orders(run.key) \in SUBSET Nat
  BY <1>2, Running, PlanLength
<1>4. /\ run'.results = res /\ run'.order = o + 1 /\ run'.saving = run.saving
      /\ SameRun
  BY <1>2, RunFields DEF ReusePhase, Run, SameRun
<1>5. /\ DOMAIN res = Orders(run.key)
      /\ \A p \in Orders(run.key) : p # o => res[p] = run.results[p]
      /\ res[o].status = run.results[o].status
      /\ res[o].handoff = run.results[o].handoff
      /\ res[o] # NoEntry
  <2>1. run.results[o] \in Entry /\ DOMAIN run.results = Orders(run.key)
    BY <1>2, <1>3, RunFields
  <2> HIDE DEF how
  <2>2. res[o] = [run.results[o] EXCEPT !.source = how]
    BY <1>2, <2>1
  <2>3. how \in {"reindexed", "cache"}
    BY DEF how
  <2>4. [run.results[o] EXCEPT !.source = how] \in Entry
    BY <2>1, <2>3 DEF Entry
  <2>5. res[o] # NoEntry
    BY <2>2, <2>4, EntryAssumption
  <2> QED BY <1>2, <2>1, <2>2, <2>5 DEF Entry
<1> HIDE DEF res, how
<1>6. run.saving = "none"
  BY <1>2 DEF PInv, SaveTells
<1>7. o \in PhasesAhead /\ \A p \in PhasesAhead : o <= p
  BY <1>2, <1>3, <1>6 DEF PhasesAhead
<1>8. PhasesAhead' = PhasesAhead \ {o}
  BY <1>3, <1>4, <1>6 DEF PhasesAhead, SameRun
<1>9. computeCompletedPhases(run.results)' = done
  BY <1>2, <1>3, <1>4, <1>5 DEF computeCompletedPhases, Results
<1>10. \A p \in done : run'.results[p].handoff = run.results[p].handoff
  BY <1>3, <1>4, <1>5
<1>11. PhasesRun' = PhasesRun
  <2>1. /\ run.results[o].handoff.run < run.n
        /\ run.results[o].handoff.run \in Nat
        /\ run.results[o].status = "completed"
    BY <1>2, <1>7, Running DEF PInv, Dated, computeCompletedPhases
  <2>2. ~ (res[o].status = "failed" \/ res[o].handoff.run = run.n)
    BY <1>3, <1>5, <2>1
  <2>3. PhasesRun' = {p \in Orders(run.key) \ (PhasesAhead \ {o}) :
                        /\ res[p] # NoEntry
                        /\ res[p].status = "failed" \/ res[p].handoff.run = run.n}
    BY <1>4, <1>8 DEF PhasesRun, SameRun
  <2> QED BY <1>5, <1>7, <2>2, <2>3 DEF PhasesRun
<1>12. Dated'
  <2>1. \A p \in done : run'.results[p].handoff.run <= runs
    BY <1>2, <1>3, <1>10 DEF PInv, Dated, ProducedBy
  <2>2. \A p \in done \cap PhasesAhead' : run'.results[p].handoff.run < run.n
    BY <1>2, <1>8, <1>10 DEF PInv, Dated
  <2> QED BY <1>2, <1>3, <1>4, <1>9, <2>1, <2>2, DatedDisk DEF Dated, SameRun, ProducedBy
<1>13. SaveTells'
  BY <1>2, <1>4, <1>6 DEF SaveTells
<1>14. Settled'
  BY <1>2, <1>4, <1>5, <1>8 DEF PInv, Settled, SameRun
<1>15. Replayed'
  BY <1>2, <1>4, <1>9, <1>10 DEF PInv, Replayed, SameRun
<1>16. SkipsCompletedPhases'
  BY <1>2, <1>4, <1>9, <1>10 DEF PInv, SkipsCompletedPhases, SameRun
<1>17. Written'
  BY <1>2 DEF Written
<1>18. /\ Now' = Pipeline!Moved(Now, Now.done, Now.ran, Now.ahead \ {o})
       /\ RunPhases' = {Now'}
  BY <1>2, <1>4, <1>8, <1>9, <1>11 DEF Now, SameRun, RunPhases, Pipeline!Moved
<1>19. Pipeline!At(Now, o) /\ o \in Now.done /\ o \in Now.ahead
  BY <1>2, <1>7 DEF Pipeline!At, Now
<1>20. UNCHANGED SavedPhases
  BY <1>2 DEF SavedPhases
<1> HIDE DEF o, done
<1>21. Pipeline!Reuse(Now, o)
  BY <1>18, <1>19, <1>20 DEF Pipeline!Reuse
<1> QED BY <1>1, <1>3, <1>12, <1>13, <1>14, <1>15, <1>16, <1>17, <1>19, <1>21
        DEF PInv, Pipeline!Next

\* A completion whose save throws becomes a failure of the same phase.
LEMMA WithdrawPipeline ==
  ASSUME PInv, SaveThrowsInTry
  PROVE  PInv' /\ Pipeline!Next
<1>1. IInv'
  BY Inductive DEF PInv, Next
<1> DEFINE o     == run.order
           prior == run.results[o]
           entry == [prior EXCEPT !.status = "failed", !.found = {}]
<1>2. /\ pc \in {"file", "index"} /\ pc' = "file" /\ run.saving = "completed"
      /\ BrokenWrite /\ runs' = runs
  BY DEF SaveThrowsInTry
<1>3. /\ RunPhases = {Now} /\ run.session \in Sessions
      /\ run.key \in Keys /\ run.results \in Results(run.key)
      /\ Orders(run.key) \in SUBSET Nat
  BY <1>2, Running, PlanLength
<1>4. /\ o \in Orders(run.key) /\ prior \in Entry /\ prior # NoEntry
      /\ prior.status = "completed" /\ prior.handoff.run = run.n
  BY <1>2, <1>3 DEF PInv, IInv, TypeOK, SaveTells, Results
<1>5. entry \in Entry /\ entry.status = "failed"
  BY <1>4 DEF Entry
<1>6. /\ run'.results = [run.results EXCEPT ![o] = entry]
      /\ run'.order = o /\ run'.saving = "failed"
      /\ SameRun
  BY <1>2, <1>3, <1>4, RunFields DEF SaveThrowsInTry, Run, SameRun
<1>7. /\ files' \in FilesType /\ index' \in IndexType
      /\ \A f \in FileNames : files'[f] # NoCheckpoint => files'[f] = files[f]
  BY <1>2, BrokenWriteBelongs DEF PInv
<1>8. \A k \in Keys : index'[k] # NoIndexEntry => index'[k] = index[k]
  BY <1>2 DEF BrokenWrite, EmptyIndex
<1> HIDE DEF entry
<1>9. /\ PInv'
      /\ PhasesAhead' = PhasesAhead \ {o}
      /\ PhasesRun' = PhasesRun \cup {o}
      /\ computeCompletedPhases(run.results)' = computeCompletedPhases(run.results) \ {o}
  <2>1. /\ PInv'
        /\ PhasesAhead' = PhasesAhead \ {o}
        /\ PhasesRun' = PhasesRun \cup {o}
        /\ computeCompletedPhases(run.results)' =
             (computeCompletedPhases(run.results) \ {run.order})
               \cup (IF "failed" = "completed" THEN {run.order} ELSE {})
    BY <1>1, <1>2, <1>4, <1>5, <1>6, <1>7, <1>8, RecordedPipeline
  <2> QED BY <2>1
<1>10. o \in PhasesRun /\ o \notin PhasesAhead /\ o \in computeCompletedPhases(run.results)
       /\ \A p \in PhasesRun : p <= o
  BY <1>2, <1>3, <1>4, RunFields DEF PhasesRun, PhasesAhead, computeCompletedPhases
<1>11. PhasesAhead' = PhasesAhead /\ PhasesRun' = PhasesRun
  BY <1>9, <1>10
<1>12. /\ Now' = Pipeline!Moved(Now, Now.done \ {o}, Now.ran, Now.ahead)
       /\ RunPhases' = {Now'}
  BY <1>2, <1>6, <1>9, <1>11 DEF Now, SameRun, Pipeline!Moved, RunPhases
<1>13. Pipeline!Interrupted(Now)
  BY <1>2, <1>3, BrokenSaved DEF Now
<1>14. /\ Now.stage = "running" /\ o \in Now.ran \cap Now.done /\ o \in Now.ran
       /\ \A p \in Now.ran : p <= o
  BY <1>10 DEF Now
<1> HIDE DEF o
<1>15. Pipeline!Withdraw(Now, o)
  BY <1>12, <1>13, <1>14 DEF Pipeline!Withdraw
<1> QED BY <1>3, <1>9, <1>14, <1>15 DEF Pipeline!Next

\* Steps that touch no result and leave the same phases behind and ahead.
LEMMA ControlPipeline ==
  ASSUME PInv, IInv', pc \in {"phase", "file", "index"}, pc' # "idle", SameRun,
         run'.results = run.results, PhasesAhead' = PhasesAhead,
         \A f \in FileNames : files'[f] # NoCheckpoint => ProducedBy(files'[f].results, runs),
         \A k \in Keys : index'[k] # NoIndexEntry => index'[k].at <= runs,
         SaveTells', Written'
  PROVE  /\ PInv'
         /\ Now' = Now
         /\ pc' # "ended" => RunPhases' = {Now}
         /\ pc' = "ended" => RunPhases' = {Pipeline!Finished(Now)}
<1>1. Dated'
  BY DEF PInv, Dated, SameRun
<1>2. Settled' /\ Replayed' /\ SkipsCompletedPhases'
  BY DEF PInv, Settled, Replayed, SkipsCompletedPhases, SameRun
<1>3. PhasesRun' = PhasesRun
  BY DEF PhasesRun, SameRun
<1>4. Now' = Now
  BY <1>3 DEF Now, SameRun
<1>5. pc' # "ended" => RunPhases' = {Now'}
  BY DEF RunPhases, Now
<1>6. pc' = "ended" => RunPhases' = {Pipeline!Finished(Now')}
  BY DEF RunPhases, Now, Pipeline!Finished
<1> QED BY <1>1, <1>2, <1>4, <1>5, <1>6 DEF PInv

LEMMA LeavePipeline ==
  ASSUME PInv, LeaveLoop
  PROVE  PInv' /\ UNCHANGED <<SavedPhases, RunPhases>>
<1>1. IInv'
  BY Inductive DEF PInv, Next, Advance
<1>2. /\ pc = "phase" /\ pc' = "file" /\ run.order > Len(Phases[run.key])
      /\ files' = files /\ index' = index /\ runs' = runs
      /\ run' = [run EXCEPT !.saving = "final"]
  BY DEF LeaveLoop
<1>3. /\ RunPhases = {Now} /\ run.key \in Keys
      /\ run.order \in 1 .. Len(Phases[run.key]) + 1
      /\ Len(Phases[run.key]) \in Nat
      /\ Orders(run.key) = 1 .. Len(Phases[run.key])
  BY <1>2, Running, PlanLength
<1>4. /\ SameRun /\ run'.results = run.results /\ run'.order = run.order
      /\ run'.saving = "final"
  BY <1>2, RunFields DEF Run, SameRun
<1>5. PhasesAhead' = PhasesAhead
  BY <1>2, <1>3, <1>4 DEF PhasesAhead, SameRun
<1>6. SaveTells'
  BY <1>2, <1>3, <1>4 DEF SaveTells, SameRun
<1>7. Written'
  BY <1>2 DEF Written
<1>8. PInv' /\ RunPhases' = {Now}
  BY <1>1, <1>2, <1>4, <1>5, <1>6, <1>7, ControlPipeline DEF PInv, Dated
<1>9. UNCHANGED SavedPhases
  BY <1>2 DEF SavedPhases
<1> QED BY <1>3, <1>8, <1>9

LEMMA RunCheckpoint ==
  ASSUME PInv, pc \in {"phase", "file", "index", "ended"}
  PROVE  CheckpointOfRun \in Checkpoint /\ CheckpointOfRun # NoCheckpoint
<1>1. /\ run.key \in Keys /\ run.session \in Sessions
      /\ run.results \in Results(run.key)
      /\ run.ctx \in Context /\ run.cont \in BOOLEAN
  BY RunInProgress DEF PInv, IInv, TypeOK, Run
<1>2. CheckpointOfRun \in Checkpoint
  BY <1>1, ResultsAreSequences DEF CheckpointOfRun, Checkpoint
<1> QED BY <1>2, AbsenceAssumption

LEMMA SavePipeline ==
  ASSUME PInv, WriteCheckpoint
  PROVE  PInv' /\ Pipeline!Next
<1>1. IInv'
  BY Inductive DEF PInv, Next, Advance
<1>2. /\ pc = "file" /\ pc' = "index"
      /\ files' = [files EXCEPT ![CheckpointFile[run.session]] = CheckpointOfRun]
      /\ index' = index /\ run' = run /\ runs' = runs
  BY DEF WriteCheckpoint
<1> DEFINE f0 == CheckpointFile[run.session]
<1>3. /\ RunPhases = {Now} /\ run.key \in Keys /\ run.session \in Sessions
      /\ run.results \in Results(run.key) /\ f0 \in FileNames
      /\ run.ctx \in Context /\ run.cont \in BOOLEAN
      /\ files \in FilesType
  BY <1>2, Running, StoreAssumption, RunInProgress DEF PInv, IInv, TypeOK, Run, FilesType
<1>4. CheckpointOfRun # NoCheckpoint
  BY <1>2, RunCheckpoint
<1>5. SameRun /\ run'.results = run.results /\ PhasesAhead' = PhasesAhead
  BY <1>2 DEF SameRun, PhasesAhead
<1>6. SaveTells'
  BY <1>2 DEF PInv, SaveTells
<1>7. Written'
  BY <1>2, <1>3 DEF Written, CheckpointOfRun, FilesType
<1>8. \A f \in FileNames : files'[f] # NoCheckpoint => ProducedBy(files'[f].results, runs)
  <2>1. ProducedBy(CheckpointOfRun.results, runs)
    BY <1>2 DEF PInv, Dated, CheckpointOfRun
  <2> QED BY <1>2, <1>3, <2>1 DEF PInv, Dated, FilesType
<1>9. PInv' /\ RunPhases' = {Now}
  BY <1>1, <1>2, <1>5, <1>6, <1>7, <1>8, ControlPipeline DEF PInv, Dated
<1>10. SavedPhases' = [SavedPhases EXCEPT ![f0] = {Pipeline!Remembered(Now)}]
  <2>1. \A f \in FileNames : f # f0 => SavedPhases'[f] = SavedPhases[f]
    BY <1>2, <1>3 DEF SavedPhases, FilesType
  <2>2. SavedPhases'[f0] = {Pipeline!Remembered(Now)}
    BY <1>2, <1>3, <1>4 DEF SavedPhases, FilesType, Pipeline!Remembered, Now, CheckpointOfRun
  <2>3. /\ SavedPhases' = [f \in FileNames |-> SavedPhases'[f]]
        /\ SavedPhases = [f \in FileNames |-> SavedPhases[f]]
    BY DEF SavedPhases
  <2> QED BY <1>3, <2>1, <2>2, <2>3
<1>11. Now.session = run.session /\ Now.stage = "running"
  BY DEF Now
<1>12. Pipeline!Save(Now)
  BY <1>3, <1>9, <1>10, <1>11 DEF Pipeline!Save
<1> QED BY <1>3, <1>9, <1>12 DEF Pipeline!Next

\* A save keeps its own entry and makes none newer.
LEMMA NewestKept ==
  ASSUME NEW key \in Keys, NEW session \in Sessions, NEW n \in Nat, index \in IndexType,
         \A k \in Keys : index[k] # NoIndexEntry => index[k].at <= n
  PROVE  LET after == IndexAfterSave(index, key, session, n)
         IN  /\ after[key] = [session |-> session, at |-> n]
             /\ \A k \in Keys : after[k] # NoIndexEntry => after[k].at <= n
<1> DEFINE entry == [session |-> session, at |-> n]
           with  == [index EXCEPT ![key] = entry]
           newer(j) == {k \in Keys : with[k] # NoIndexEntry /\ with[k].at > with[j].at}
           after == [k \in Keys |->
                       IF with[k] # NoIndexEntry /\ Cardinality(newer(k)) < RetentionLimit
                       THEN with[k] ELSE NoIndexEntry]
<1>1. IndexAfterSave(index, key, session, n) = after
  BY DEF IndexAfterSave, normalizePlanningArtifactEntries
<1>2. entry \in IndexEntry /\ entry # NoIndexEntry /\ entry.at = n
  BY AbsenceAssumption DEF IndexEntry
<1> HIDE DEF entry
<1>3. /\ with[key] = entry
      /\ \A k \in Keys : with[k] # NoIndexEntry => with[k].at \in Nat /\ with[k].at <= n
  BY <1>2 DEF IndexType, IndexEntry
<1> HIDE DEF with
<1>4. newer(key) = {}
  <2>1. with[key].at = n
    BY <1>2, <1>3
  <2>2. \A k \in Keys : ~ (with[k] # NoIndexEntry /\ with[k].at > n)
    BY <1>3
  <2> QED BY <2>1, <2>2
<1>5. Cardinality(newer(key)) < RetentionLimit
  <2>1. Cardinality({}) < RetentionLimit
    BY FS_EmptySet, StoreAssumption
  <2> HIDE DEF newer
  <2> QED BY <1>4, <2>1
<1>6. after[key] = entry
  BY <1>2, <1>3, <1>5
<1>7. \A k \in Keys : after[k] # NoIndexEntry => after[k].at <= n
  BY <1>3
<1> QED BY <1>1, <1>6, <1>7 DEF entry

\* The index write moves the run on without a trace, or lets it return.
LEMMA IndexPipeline ==
  ASSUME PInv, WriteIndex
  PROVE  PInv' /\ [Pipeline!Next]_(Pipeline!pipeline)
<1>1. IInv'
  BY Inductive DEF PInv, Next, Advance
<1>2. /\ pc = "index" /\ files' = files /\ runs' = runs
      /\ index' = IndexAfterSave(index, run.key, run.session, run.n)
      /\ run.saving # "none"
  BY DEF WriteIndex, PInv, SaveTells
<1>3. /\ RunPhases = {Now} /\ run.key \in Keys /\ run.session \in Sessions
      /\ run.order \in 1 .. Len(Phases[run.key]) + 1 /\ run.order \in Nat
      /\ Len(Phases[run.key]) \in Nat /\ run.n = runs /\ runs \in Nat
      /\ Orders(run.key) = 1 .. Len(Phases[run.key])
      /\ run \in Run /\ index \in IndexType
  BY <1>2, Running, RunFields, PlanLength DEF PInv, IInv, TypeOK, IndexType
<1>4. /\ index'[run.key] = [session |-> run.session, at |-> run.n]
      /\ \A k \in Keys : index'[k] # NoIndexEntry => index'[k].at <= runs
  BY <1>2, <1>3, NewestKept DEF PInv, Dated
<1>5. \A f \in FileNames : files'[f] # NoCheckpoint => ProducedBy(files'[f].results, runs)
  BY <1>2 DEF PInv, Dated
<1>6. UNCHANGED SavedPhases
  BY <1>2 DEF SavedPhases
<1>7. CASE /\ run.saving = "completed" \/ (run.saving = "failed" /\ run.cont)
           /\ run' = [run EXCEPT !.order = @ + 1, !.saving = "none"]
           /\ pc' = "phase"
  <2>1. /\ SameRun /\ run'.results = run.results /\ run'.saving = "none"
        /\ run'.order = run.order + 1
    BY <1>2, <1>3, <1>7 DEF SameRun, Run
  <2>2. PhasesAhead' = PhasesAhead
    BY <1>2, <1>3, <2>1 DEF PhasesAhead, SameRun
  <2>3. SaveTells' /\ Written'
    BY <1>7, <2>1 DEF SaveTells, Written
  <2>4. PInv' /\ RunPhases' = {Now}
    BY <1>1, <1>2, <1>4, <1>5, <1>7, <2>1, <2>2, <2>3, ControlPipeline
  <2> QED BY <1>3, <1>6, <2>4 DEF Pipeline!pipeline
<1>8. CASE /\ run.saving = "failed" /\ ~ run.cont
           /\ run' = [run EXCEPT !.saving = "final"]
           /\ pc' = "file"
  <2>1. /\ SameRun /\ run'.results = run.results /\ run'.saving = "final"
        /\ run'.order = run.order
    BY <1>2, <1>3, <1>8 DEF SameRun, Run
  <2>2. PhasesAhead' = PhasesAhead
    BY <1>2, <2>1 DEF PhasesAhead, SameRun
  <2>3. /\ run.order \in Orders(run.key) /\ run.results[run.order] # NoEntry
        /\ run.results[run.order].status = "failed"
    BY <1>2, <1>8 DEF PInv, IInv, TypeOK, SaveTells
  <2>4. SaveTells' /\ Written'
    BY <1>8, <2>1, <2>3 DEF SaveTells, Written, SameRun
  <2>5. PInv' /\ RunPhases' = {Now}
    BY <1>1, <1>2, <1>4, <1>5, <1>8, <2>1, <2>2, <2>4, ControlPipeline
  <2> QED BY <1>3, <1>6, <2>5 DEF Pipeline!pipeline
<1>9. CASE run.saving = "final" /\ run' = run /\ pc' = "ended"
  <2>1. SameRun /\ run'.results = run.results /\ PhasesAhead' = PhasesAhead
    BY <1>2, <1>9 DEF SameRun, PhasesAhead
  <2>2. SaveTells'
    BY <1>2, <1>9 DEF PInv, SaveTells
  <2>3. Written'
    BY <1>2, <1>4, <1>9 DEF PInv, Written, CheckpointOfRun
  <2>4. PInv' /\ RunPhases' = {Pipeline!Finished(Now)}
    BY <1>1, <1>2, <1>4, <1>5, <1>9, <2>1, <2>2, <2>3, ControlPipeline
  <2>5. Now.ahead = {} \/ Now.ran \ Now.done # {}
    <3>1. CASE run.order = Len(Phases[run.key]) + 1
      BY <1>3, <3>1 DEF Now, PhasesAhead
    <3>2. CASE /\ run.order \in Orders(run.key)
               /\ run.results[run.order] # NoEntry
               /\ run.results[run.order].status = "failed"
      <4>1. run.order \in PhasesRun
        BY <1>2, <1>3, <3>2 DEF PhasesRun, PhasesAhead
      <4>2. run.order \notin computeCompletedPhases(run.results)
        BY <3>2 DEF computeCompletedPhases
      <4> QED BY <4>1, <4>2 DEF Now
    <3> QED BY <1>2, <1>9, <3>1, <3>2 DEF PInv, SaveTells
  <2>6. SavedPhases[CheckpointFile[run.session]] = {Pipeline!Remembered(Now)}
    <3>1. files[CheckpointFile[run.session]] = CheckpointOfRun
      BY <1>2 DEF PInv, Written
    <3>2. CheckpointOfRun # NoCheckpoint
      BY <1>2, RunCheckpoint DEF PInv
    <3>3. CheckpointFile[run.session] \in FileNames
      BY <1>3, StoreAssumption
    <3> QED BY <3>1, <3>2, <3>3
            DEF SavedPhases, Pipeline!Remembered, Now, CheckpointOfRun
  <2>7. Now.session = run.session /\ Now.stage = "running"
    BY DEF Now
  <2>8. Pipeline!Return(Now)
    BY <1>6, <2>4, <2>5, <2>6, <2>7 DEF Pipeline!Return
  <2> QED BY <1>3, <2>4, <2>8 DEF Pipeline!Next
<1> QED BY <1>7, <1>8, <1>9 DEF WriteIndex

\* A run that is killed leaves an interrupted save at most.
LEMMA AbandonPipeline ==
  ASSUME PInv, SaveThrows \/ Crash
  PROVE  PInv' /\ Pipeline!Next
<1>1. IInv'
  BY Inductive DEF PInv, Next
<1>2. /\ pc \in {"phase", "file", "index"} /\ pc' = "idle" /\ runs' = runs
      /\ BrokenWrite
  BY DEF SaveThrows, Crash
<1>3. RunPhases = {Now} /\ RunPhases' = {}
  BY <1>2, Running DEF RunPhases
<1>4. /\ \A f \in FileNames : files'[f] # NoCheckpoint => files'[f] = files[f]
      /\ \A k \in Keys : index'[k] # NoIndexEntry => index'[k] = index[k]
  BY <1>2, BrokenWriteBelongs DEF PInv, BrokenWrite, EmptyIndex
<1>5. PInv'
  BY <1>1, <1>2, <1>4, DatedDisk
     DEF PInv, Dated, SaveTells, Settled, Replayed, SkipsCompletedPhases, Written
<1>6. Now.session = run.session /\ Now.stage = "running"
  BY DEF Now
<1>7. Pipeline!Interrupted(Now)
  BY <1>2, <1>6, BrokenSaved
<1>8. Pipeline!Abandon(Now)
  BY <1>3, <1>6, <1>7 DEF Pipeline!Abandon
<1> QED BY <1>3, <1>5, <1>8 DEF Pipeline!Next

-----------------------------------------------------------------------------
(* The theorems.                                                           *)

LEMMA StepPipeline == PInv /\ [Next]_vars => PInv' /\ [Pipeline!Next]_(Pipeline!pipeline)
<1> SUFFICES ASSUME PInv, [Next]_vars
             PROVE  PInv' /\ [Pipeline!Next]_(Pipeline!pipeline)
  OBVIOUS
<1>1. CASE Start
  BY <1>1, StartPipeline DEF Pipeline!Next
<1>2. CASE ReusePhase
  BY <1>2, ReusePipeline
<1>3. CASE CompletePhase
  BY <1>3, CompletePipeline
<1>4. CASE FailPhase
  BY <1>4, FailPipeline
<1>5. CASE LeaveLoop
  BY <1>5, LeavePipeline DEF Pipeline!pipeline
<1>6. CASE WriteCheckpoint
  BY <1>6, SavePipeline
<1>7. CASE WriteIndex
  BY <1>7, IndexPipeline
<1>8. CASE SaveThrowsInTry
  BY <1>8, WithdrawPipeline
<1>9. CASE SaveThrows \/ Crash
  BY <1>9, AbandonPipeline
<1>10. CASE UNCHANGED vars
  <2>1. IInv'
    BY <1>10, Inductive DEF PInv
  <2>2. UNCHANGED <<files, index, pc, run, runs>>
    BY <1>10 DEF vars
  <2>3. UNCHANGED <<PhasesAhead, SavedPhases, RunPhases>>
    BY <2>2 DEF PhasesAhead, PhasesRun, SavedPhases, RunPhases
  <2>4. Dated' /\ SaveTells' /\ Settled' /\ Replayed' /\ SkipsCompletedPhases' /\ Written'
    BY <2>2, <2>3 DEF PInv, Dated, SaveTells, Settled, Replayed, SkipsCompletedPhases,
                      Written, CheckpointOfRun
  <2> QED BY <2>1, <2>3, <2>4 DEF PInv, Pipeline!pipeline
<1> QED BY <1>1, <1>2, <1>3, <1>4, <1>5, <1>6, <1>7, <1>8, <1>9, <1>10 DEF Next, Advance

LEMMA InitialPipeline == Init => Pipeline!Init
BY DEF Init, Pipeline!Init, SavedPhases, RunPhases

LEMMA AlwaysPInv == Spec => []PInv
BY PInitial, StepPipeline, PTL DEF Spec

\* The executor with its contexts, artifacts, index, throwing saves and crashes
\* implements the pipeline: phases are done once and in order, and what is done
\* is remembered before a run returns (execute, executeInternal,
\* saveCheckpoint).
THEOREM RefinesPipeline == Spec => ImplementsPipeline
BY PInitial, StepPipeline, InitialPipeline, PTL DEF Spec, ImplementsPipeline, Pipeline!Spec

\* What was completed where a run starts from, and is not reindexed, is never
\* run again (the prior check of executeInternal).
THEOREM CompletedIsSkipped == Spec => []SkipsCompletedPhases
<1>1. PInv => SkipsCompletedPhases
  BY DEF PInv
<1> QED BY <1>1, AlwaysPInv, PTL

\* A run that reindexes returns nothing an earlier run produced from the first
\* design phase on (applyReindexPolicy).
THEOREM ReindexIsComplete == Spec => []ReindexReplays
<1>1. PInv => ReindexReplays
  BY DEF PInv, Replayed, ReindexReplays, Returned
<1> QED BY <1>1, AlwaysPInv, PTL

LEMMA NothingNext ==
  ASSUME NEW key \in Keys, NEW results, computeCompletedPhases(results) = Orders(key)
  PROVE  nextPhaseOrderFromPlan(key, results) = Len(Phases[key]) + 1
<1>1. Len(Phases[key]) \in Nat /\ Orders(key) = 1 .. Len(Phases[key])
  BY PlanLength
<1> DEFINE last == Len(Phases[key]) + 1
           Fits(next) == /\ next \notin Orders(key)
                         /\ 1 .. next - 1 \subseteq Orders(key)
<1>2. last \in 1 .. Len(Phases[key]) + 1 /\ Fits(last)
  BY <1>1
<1>3. \A next \in 1 .. Len(Phases[key]) + 1 : Fits(next) => next = last
  BY <1>1
<1>4. (CHOOSE next \in 1 .. Len(Phases[key]) + 1 : Fits(next)) = last
  BY <1>2, <1>3
<1> QED BY <1>4 DEF nextPhaseOrderFromPlan

\* A run that reports no failure has completed every phase of its plan
\* (the exits of the loop of executeInternal, checkpointStatusFor).
THEOREM SuccessCompletes == Spec => []SuccessIsComplete
<1>1. ASSUME PInv, Succeeded
      PROVE  /\ computeCompletedPhases(run.results) = Orders(run.key)
             /\ checkpointStatusFor(run.key, run.results) = "completed"
  <2>1. /\ pc = "ended" /\ computeFailures(run.results) = {}
        /\ run.saving = "final"
    BY <1>1 DEF Succeeded, Returned, PInv, SaveTells
  <2>2. /\ run.key \in Keys /\ run.results \in Results(run.key)
        /\ DOMAIN run.results = Orders(run.key)
    BY <1>1, <2>1, RunInProgress, RunFields DEF PInv, IInv, TypeOK
  <2>3. run.order = Len(Phases[run.key]) + 1
    BY <1>1, <2>1, <2>2 DEF PInv, SaveTells, computeFailures
  <2>4. PhasesAhead = {}
    BY <2>1, <2>2, <2>3, PlanLength DEF PhasesAhead
  <2>5. \A o \in Orders(run.key) : run.results[o] # NoEntry
    BY <1>1, <2>1, <2>4 DEF PInv, Settled
  <2>6. \A o \in Orders(run.key) : run.results[o] \in Entry
    BY <2>2, <2>5 DEF Results
  <2>7. \A o \in Orders(run.key) : run.results[o].status = "completed"
    BY <2>1, <2>2, <2>5, <2>6 DEF Entry, computeFailures
  <2>8. computeCompletedPhases(run.results) = Orders(run.key)
    BY <2>2, <2>5, <2>7 DEF computeCompletedPhases
  <2>9. nextPhaseOrderFromPlan(run.key, run.results) = Len(Phases[run.key]) + 1
    BY <2>2, <2>8, NothingNext
  <2>10. Len(Phases[run.key]) + 1 \notin Orders(run.key)
    BY <2>2, PlanLength
  <2>11. checkpointStatusFor(run.key, run.results) = "completed"
    BY <2>1, <2>9, <2>10 DEF checkpointStatusFor
  <2> QED BY <2>8, <2>11
<1>2. PInv => SuccessIsComplete
  BY <1>1 DEF SuccessIsComplete
<1> QED BY <1>2, AlwaysPInv, PTL

\* What a run returns is on disk under its session, and is what the index
\* offers to other sessions with the plan (saveCheckpoint, save, loadReusable).
THEOREM ReturnIsDurable == Spec => []ReturnedIsDurable
<1>1. ASSUME PInv, Returned
      PROVE  /\ load(files, run.session) = CheckpointOfRun
             /\ loadReusable(files, index, run.key) = CheckpointOfRun
  <2>1. /\ files[CheckpointFile[run.session]] = CheckpointOfRun
        /\ index[run.key] = [session |-> run.session, at |-> run.n]
        /\ CheckpointOfRun # NoCheckpoint
    BY <1>1, RunCheckpoint DEF Returned, PInv, Written
  <2>2. index[run.key] \in IndexEntry
    <3>1. run.session \in Sessions /\ run.n = runs /\ runs \in Nat
      BY <1>1, RunInProgress DEF Returned, PInv, IInv, TypeOK, Dated
    <3> QED BY <2>1, <3>1 DEF IndexEntry
  <2>3. index[run.key] # NoIndexEntry /\ index[run.key].session = run.session
    BY <2>1, <2>2, AbsenceAssumption
  <2>4. load(files, run.session) = CheckpointOfRun /\ CheckpointOfRun.key = run.key
    BY <2>1 DEF load, CheckpointOfRun
  <2>5. Reusable(files, index, run.key)
    BY <2>1, <2>3, <2>4 DEF Reusable
  <2> QED BY <2>3, <2>4, <2>5 DEF loadReusable
<1>2. PInv => ReturnedIsDurable
  BY <1>1 DEF ReturnedIsDurable
<1> QED BY <1>2, AlwaysPInv, PTL


-----------------------------------------------------------------------------
(***************************************************************************)
(* Provenance. What a success tells of its results is true as soon as they *)
(* are recorded, and so are the counters, unless a phase has failed.       *)
(***************************************************************************)
Passed == Orders(run.key) \ PhasesAhead

Cached == {o \in Passed : run.results[o].source = "cache"}

\* The source of a completed result tells which run it comes from.
SourceTells(r, o) ==
  r.results[o].status = "completed" =>
    /\ r.results[o].source = "cache"     <=> r.results[o].handoff.run < r.n
    /\ r.results[o].source = "reindexed" <=> o >= r.start

Accounts ==
  pc # "idle" =>
    /\ \A o \in Passed : SourceTells(run, o)
    /\ (\A o \in Passed : run.results[o].status = "completed") =>
         /\ run.hits = Cardinality(Cached)
         /\ run.hits + run.misses = Cardinality(Passed)

LEMMA FinitePassed ==
  ASSUME PInv, pc # "idle"
  PROVE  /\ Passed \in SUBSET Orders(run.key)
         /\ IsFiniteSet(Passed) /\ IsFiniteSet(Cached)
         /\ Cardinality(Passed) \in Nat /\ Cardinality(Cached) \in Nat
<1>1. run.key \in Keys
  BY RunInProgress DEF PInv, IInv
<1>2. IsFiniteSet(Orders(run.key))
  BY <1>1, PlanLength, FS_Interval
<1>3. Passed \in SUBSET Orders(run.key) /\ Cached \in SUBSET Orders(run.key)
  BY DEF Passed, Cached
<1> QED BY <1>2, <1>3, FS_Subset, FS_CardinalityType

\* One more result is recorded: one taken over, or one of this run.
LEMMA AccountsGrow ==
  ASSUME PInv, Accounts, pc = "phase", pc' # "idle", SameRun,
         run.order \in Orders(run.key),
         PhasesAhead' = PhasesAhead \ {run.order},
         \A o \in Orders(run.key) : o # run.order => run'.results[o] = run.results[o],
         SourceTells(run', run.order),
         run'.results[run.order].status = "completed" =>
           \/ /\ run'.results[run.order].source = "cache"
              /\ run'.hits = run.hits + 1 /\ run'.misses = run.misses
           \/ /\ run'.results[run.order].source # "cache"
              /\ run'.hits = run.hits /\ run'.misses = run.misses + 1
  PROVE  Accounts'
<1> DEFINE o == run.order
<1>1. /\ run.saving = "none" /\ run.hits \in Nat /\ run.misses \in Nat /\ run.order \in Nat
      /\ Orders(run.key)' = Orders(run.key)
  BY RunInProgress DEF PInv, IInv, SaveTells, SameRun, Orders
<1>2. o \in PhasesAhead /\ o \notin Passed
  BY <1>1 DEF PhasesAhead, Passed
<1>3. Passed' = Passed \cup {o}
  BY <1>1, <1>2 DEF Passed
<1>4. \A p \in Passed : p # o /\ run'.results[p] = run.results[p]
  BY <1>2, FinitePassed
<1>5. \A p \in Passed' : SourceTells(run', p)
  <2>1. \A p \in Passed : SourceTells(run', p)
    BY <1>4 DEF Accounts, SourceTells, SameRun
  <2> QED BY <1>3, <2>1
<1>6. ASSUME \A p \in Passed' : run'.results[p].status = "completed"
      PROVE  /\ run'.hits = Cardinality(Cached)'
             /\ run'.hits + run'.misses = Cardinality(Passed)'
  <2>1. \A p \in Passed : run.results[p].status = "completed"
    BY <1>3, <1>4, <1>6
  <2>2. /\ run.hits = Cardinality(Cached)
        /\ run.hits + run.misses = Cardinality(Passed)
    BY <2>1 DEF Accounts
  <2>3. Cardinality(Passed)' = Cardinality(Passed) + 1
    BY <1>2, <1>3, FinitePassed, FS_AddElement
  <2>4. CASE run'.results[o].source = "cache"
    <3>1. Cached' = Cached \cup {o}
      BY <1>3, <1>4, <2>4 DEF Cached
    <3>2. o \notin Cached
      BY <1>2 DEF Cached
    <3>3. Cardinality(Cached)' = Cardinality(Cached) + 1
      BY <3>1, <3>2, FinitePassed, FS_AddElement
    <3> QED BY <1>1, <1>3, <1>6, <2>2, <2>3, <2>4, <3>3
  <2>5. CASE run'.results[o].source # "cache"
    <3>1. Cached' = Cached
      BY <1>3, <1>4, <2>5 DEF Cached
    <3> QED BY <1>1, <1>3, <1>6, <2>2, <2>3, <2>5, <3>1
  <2> QED BY <2>4, <2>5
<1> QED BY <1>5, <1>6 DEF Accounts

LEMMA AccountsReuse ==
  ASSUME PInv, Accounts, ReusePhase
  PROVE  Accounts'
<1> DEFINE o    == run.order
           done == computeCompletedPhases(run.results)
<1>1. /\ pc = "phase" /\ pc' = "phase" /\ o \in Orders(run.key) /\ o \in done /\ runs' = runs
  BY DEF ReusePhase, AtPhase
<1>2. /\ run.key \in Keys /\ run.results \in Results(run.key) /\ o \in Nat
      /\ run.results[o] \in Entry /\ run.results[o].handoff.run \in Nat
      /\ run.n = runs /\ runs \in Nat /\ Orders(run.key) \in SUBSET Nat
  BY <1>1, Running, PlanLength
<1>3. run.saving = "none" /\ run.hits \in Nat /\ run.start \in Nat
  BY <1>1, RunFields DEF PInv, SaveTells, Run
<1>4. o \in PhasesAhead
  BY <1>1, <1>2, <1>3 DEF PhasesAhead
<1>5. run.results[o].handoff.run < run.n
  BY <1>1, <1>4 DEF PInv, Dated
<1>6. ~ (o >= run.start)
  BY <1>1, <1>2, <1>5 DEF PInv, Replayed
<1>7. ~ Reindexed
  BY <1>6 DEF Reindexed
<1>8. /\ run'.results = [run.results EXCEPT ![o].source = "cache"]
      /\ run'.order = o + 1 /\ run'.saving = run.saving
      /\ run'.hits = run.hits + 1 /\ run'.misses = run.misses
      /\ SameRun
  BY <1>1, <1>7, RunFields DEF ReusePhase, Run, SameRun
<1>9. /\ \A p \in Orders(run.key) : p # o => run'.results[p] = run.results[p]
      /\ run'.results[o].source = "cache"
      /\ run'.results[o].handoff = run.results[o].handoff
  BY <1>1, <1>2, <1>8, RunFields DEF Entry
<1>10. PhasesAhead' = PhasesAhead \ {o}
  BY <1>2, <1>3, <1>8 DEF PhasesAhead, SameRun
<1>11. SourceTells(run', o)
  BY <1>2, <1>5, <1>6, <1>8, <1>9 DEF SourceTells, SameRun
<1> QED BY <1>1, <1>8, <1>9, <1>10, <1>11, AccountsGrow

LEMMA AccountsComplete ==
  ASSUME PInv, Accounts, CompletePhase
  PROVE  Accounts'
<1> DEFINE o == run.order
<1>1. /\ pc = "phase" /\ pc' = "file" /\ o \in Orders(run.key) /\ runs' = runs
  BY DEF CompletePhase, AtPhase
<1>2. PICK found \in Artifacts :
        run' = [run EXCEPT
                 !.results[o] = PhaseResult("completed", found),
                 !.ctx = updateContextFromArtifact(run.ctx, Agent,
                                                   PhaseHandoff, found),
                 !.misses = @ + 1,
                 !.saving = "completed"]
  BY DEF CompletePhase
<1> DEFINE entry == PhaseResult("completed", found)
<1>3. /\ entry.handoff.run = run.n
      /\ entry.source = IF Reindexed THEN "reindexed" ELSE "runtime"
  BY DEF PhaseResult, PhaseHandoff
<1>4. /\ o \in Nat /\ run.n \in Nat /\ run.saving = "none" /\ Orders(run.key) \in SUBSET Nat
  BY <1>1, Running, PlanLength DEF PInv, SaveTells
<1> HIDE DEF entry
<1>5. /\ run'.results = [run.results EXCEPT ![o] = entry]
      /\ run'.order = o /\ run'.saving = "completed"
      /\ run'.hits = run.hits /\ run'.misses = run.misses + 1
      /\ SameRun
  BY <1>1, <1>2, RunFields DEF Run, SameRun, entry
<1>6. /\ \A p \in Orders(run.key) : p # o => run'.results[p] = run.results[p]
      /\ run'.results[o] = entry
  BY <1>1, <1>5, RunFields
<1>7. PhasesAhead' = PhasesAhead \ {o}
  BY <1>4, <1>5 DEF PhasesAhead, SameRun
<1>8. SourceTells(run', o) /\ run'.results[o].source # "cache"
  BY <1>3, <1>4, <1>5, <1>6 DEF SourceTells, SameRun, Reindexed
<1> QED BY <1>1, <1>5, <1>6, <1>7, <1>8, AccountsGrow

LEMMA AccountsFail ==
  ASSUME PInv, Accounts, FailPhase
  PROVE  Accounts'
<1> DEFINE o     == run.order
           entry == IF HandoffValid(run.ctx) THEN PhaseResult("failed", {})
                                             ELSE NoHandoffResult
<1>1. /\ pc = "phase" /\ pc' = "file" /\ o \in Orders(run.key) /\ runs' = runs
      /\ run' = [run EXCEPT !.results[o] = entry, !.misses = @ + 1,
                            !.saving = "failed"]
  BY DEF FailPhase, AtPhase
<1>2. entry.status = "failed"
  BY DEF PhaseResult, NoHandoffResult
<1>3. /\ o \in Nat /\ run.saving = "none" /\ Orders(run.key) \in SUBSET Nat
  BY <1>1, Running, PlanLength DEF PInv, SaveTells
<1> HIDE DEF entry
<1>4. /\ run'.results = [run.results EXCEPT ![o] = entry]
      /\ run'.order = o /\ run'.saving = "failed"
      /\ SameRun
  BY <1>1, RunFields DEF Run, SameRun
<1>5. /\ \A p \in Orders(run.key) : p # o => run'.results[p] = run.results[p]
      /\ run'.results[o].status = "failed"
  BY <1>1, <1>2, <1>4, RunFields
<1>6. PhasesAhead' = PhasesAhead \ {o}
  BY <1>3, <1>4 DEF PhasesAhead, SameRun
<1>7. SourceTells(run', o)
  BY <1>5 DEF SourceTells
<1> QED BY <1>1, <1>4, <1>5, <1>6, <1>7, AccountsGrow

\* A save that throws withdraws a completed result: the counters are off from
\* here on, and the failure is there to tell.
LEMMA AccountsWithdraw ==
  ASSUME PInv, Accounts, SaveThrowsInTry
  PROVE  Accounts'
<1> DEFINE o == run.order
<1>1. /\ pc \in {"file", "index"} /\ pc' = "file" /\ run.saving = "completed" /\ runs' = runs
  BY DEF SaveThrowsInTry
<1>2. /\ o \in Orders(run.key) /\ run.results[o] \in Entry /\ o \in Nat
      /\ Orders(run.key) \in SUBSET Nat
  BY <1>1, Running, PlanLength DEF PInv, IInv, TypeOK, Results
<1>3. /\ run'.results = [run.results EXCEPT ![o].status = "failed", ![o].found = {}]
      /\ run'.order = o /\ run'.saving = "failed"
      /\ SameRun
  BY <1>1, RunFields DEF SaveThrowsInTry, Run, SameRun
<1>4. /\ \A p \in Orders(run.key) : p # o => run'.results[p] = run.results[p]
      /\ run'.results[o].status = "failed"
  BY <1>1, <1>2, <1>3, RunFields DEF Entry
<1>5. PhasesAhead' = PhasesAhead /\ o \notin PhasesAhead /\ Orders(run.key)' = Orders(run.key)
  BY <1>1, <1>2, <1>3 DEF PhasesAhead, SameRun, Orders
<1>6. Passed' = Passed /\ o \in Passed
  BY <1>2, <1>5 DEF Passed
<1>7. \A p \in Passed' : SourceTells(run', p)
  BY <1>3, <1>4, <1>6, FinitePassed, <1>1 DEF Accounts, SourceTells, SameRun
<1>8. ~ (\A p \in Passed' : run'.results[p].status = "completed")
  BY <1>4, <1>6
<1> QED BY <1>7, <1>8 DEF Accounts

\* Steps that neither record nor reach a result.
LEMMA AheadStays ==
  ASSUME PInv, LeaveLoop \/ WriteCheckpoint \/ WriteIndex
  PROVE  /\ pc \in {"phase", "file", "index"} /\ pc' # "idle"
         /\ SameRun /\ run'.results = run.results /\ run'.ctx = run.ctx
         /\ run'.cont = run.cont
         /\ PhasesAhead' = PhasesAhead /\ Passed' = Passed
<1>1. pc \in {"phase", "file", "index"} /\ pc' # "idle" /\ runs' = runs
  BY DEF LeaveLoop, WriteCheckpoint, WriteIndex
<1>2. /\ SameRun /\ run'.results = run.results /\ run'.ctx = run.ctx /\ run'.cont = run.cont
  BY <1>1, RunFields DEF LeaveLoop, WriteCheckpoint, WriteIndex, Run, SameRun
<1>3. PhasesAhead' = PhasesAhead
  <2>1. /\ run.order \in Nat /\ run.order \in 1 .. Len(Phases[run.key]) + 1
        /\ Len(Phases[run.key]) \in Nat
        /\ Orders(run.key) = 1 .. Len(Phases[run.key])
    BY <1>1, Running, PlanLength
  <2>2. CASE LeaveLoop
    <3>1. run.order > Len(Phases[run.key]) /\ run'.order = run.order
      BY <2>2, <1>1, RunFields DEF LeaveLoop, Run
    <3> QED BY <1>2, <2>1, <3>1 DEF PhasesAhead, SameRun
  <2>3. CASE WriteCheckpoint
    BY <2>3 DEF WriteCheckpoint, PhasesAhead
  <2>4. CASE WriteIndex
    <3>1. run.saving # "none"
      BY <2>4, <1>1 DEF WriteIndex, PInv, SaveTells
    <3>2. \/ run'.order = run.order /\ run'.saving # "none"
          \/ run'.order = run.order + 1 /\ run'.saving = "none"
      BY <2>4, <3>1, <1>1, RunFields DEF WriteIndex, Run
    <3> QED BY <1>2, <2>1, <3>1, <3>2 DEF PhasesAhead, SameRun
  <2> QED BY <2>2, <2>3, <2>4
<1>4. Passed' = Passed
  BY <1>2, <1>3 DEF Passed, SameRun, Orders
<1> QED BY <1>1, <1>2, <1>3, <1>4

LEMMA AccountsStay ==
  ASSUME PInv, Accounts, LeaveLoop \/ WriteCheckpoint \/ WriteIndex
  PROVE  Accounts'
<1>1. /\ pc # "idle" /\ pc' # "idle"
      /\ SameRun /\ run'.results = run.results /\ Passed' = Passed
  BY AheadStays
<1>2. run'.hits = run.hits /\ run'.misses = run.misses
  BY <1>1, RunFields DEF LeaveLoop, WriteCheckpoint, WriteIndex, Run
<1>3. Cached' = Cached
  BY <1>1 DEF Cached
<1>4. \A p \in Passed' : SourceTells(run', p)
  BY <1>1 DEF Accounts, SourceTells, SameRun
<1> QED BY <1>1, <1>2, <1>3, <1>4 DEF Accounts

\* Whichever way a run starts, it enters the loop.
LEMMA RunBegins ==
  ASSUME Start
  PROVE  \E session, key, eligible, ctx, cont, reindex :
           executeInternal(session, key, eligible, ctx, cont, reindex)
<1> DEFINE Begun == \E session, key, eligible, ctx, cont, reindex :
                      executeInternal(session, key, eligible, ctx, cont, reindex)
<1>1. ASSUME NEW session, NEW cont, NEW reindex,
             resumeFromCheckpoint(session, cont, reindex)
      PROVE  Begun
  BY <1>1, Zenon DEF resumeFromCheckpoint
<1>2. ASSUME NEW session, NEW key, NEW hints, NEW cache, NEW cont, NEW reindex,
             ExecuteFresh(session, key, hints, cache, cont, reindex)
      PROVE  Begun
  BY <1>2, Zenon DEF ExecuteFresh
<1>3. ASSUME NEW session, NEW key, NEW hints, NEW cont, NEW reindex,
             \/ ExecuteFromOwnCheckpoint(session, key, hints, cont, reindex)
             \/ ExecuteFromOtherSession(session, key, hints, cont, reindex)
      PROVE  Begun
  BY <1>3, Zenon DEF ExecuteFromOwnCheckpoint, ExecuteFromOtherSession
<1> QED BY <1>1, <1>2, <1>3, Zenon DEF Start

LEMMA AccountsBegin ==
  ASSUME PInv, Start
  PROVE  Accounts'
<1>1. /\ pc' = "phase" /\ run'.order = 1 /\ run'.saving = "none"
      /\ run'.hits = 0 /\ run'.misses = 0
  BY RunBegins DEF executeInternal
<1>2. PInv'
  BY StepPipeline DEF Next
<1>3. Orders(run.key)' \in SUBSET Nat /\ \A o \in Orders(run.key)' : o >= 1
  <2>1. run'.key \in Keys
    BY <1>1, <1>2 DEF PInv, IInv, TypeOK, Run
  <2>2. Orders(run'.key) = 1 .. Len(Phases[run'.key]) /\ Len(Phases[run'.key]) \in Nat
    BY <2>1, PlanLength
  <2> QED BY <2>2
<1>4. Passed' = {}
  BY <1>1, <1>3 DEF Passed, PhasesAhead
<1>5. Cached' = {}
  BY <1>4 DEF Cached
<1> QED BY <1>1, <1>4, <1>5, FS_EmptySet DEF Accounts

LEMMA AlwaysAccounts == Spec => [](PInv /\ Accounts)
<1>1. Init => PInv /\ Accounts
  BY PInitial DEF Init, Accounts
<1>2. PInv /\ Accounts /\ [Next]_vars => (PInv /\ Accounts)'
  <2> SUFFICES ASSUME PInv, Accounts, [Next]_vars
               PROVE  PInv' /\ Accounts'
    OBVIOUS
  <2>1. PInv'
    BY StepPipeline
  <2>2. CASE Next
    <3>1. CASE SaveThrows \/ Crash
      <4>1. pc' = "idle"
        BY <3>1 DEF SaveThrows, Crash
      <4> QED BY <2>1, <4>1 DEF Accounts
    <3>2. CASE Start
      BY <2>1, <3>2, AccountsBegin
    <3>3. CASE ReusePhase
      BY <2>1, <3>3, AccountsReuse
    <3>4. CASE CompletePhase
      BY <2>1, <3>4, AccountsComplete
    <3>5. CASE FailPhase
      BY <2>1, <3>5, AccountsFail
    <3>6. CASE SaveThrowsInTry
      BY <2>1, <3>6, AccountsWithdraw
    <3>7. CASE LeaveLoop \/ WriteCheckpoint \/ WriteIndex
      BY <2>1, <3>7, AccountsStay
    <3> QED BY <2>2, <3>1, <3>2, <3>3, <3>4, <3>5, <3>6, <3>7 DEF Next, Advance
  <2>3. CASE UNCHANGED vars
    <3>1. pc' = pc /\ run' = run
      BY <2>3 DEF vars
    <3>2. Passed' = Passed /\ Cached' = Cached
      BY <3>1 DEF Passed, Cached, PhasesAhead
    <3>3. \A p \in Passed : SourceTells(run, p) <=> SourceTells(run', p)
      BY <3>1 DEF SourceTells
    <3> QED BY <2>1, <3>1, <3>2, <3>3 DEF Accounts
  <2> QED BY <2>1, <2>2, <2>3
<1> QED BY <1>1, <1>2, PTL DEF Spec

\* A run that succeeds tells of each result whether it was taken over, run or
\* replayed, and its cache counters add up to the plan (cacheHits and
\* cacheMisses of executeInternal), also when earlier runs failed or died.
THEOREM SuccessIsHonest == Spec => []HonestProvenance
<1>1. ASSUME PInv, Accounts, Succeeded
      PROVE  HonestProvenance
  <2>1. /\ pc = "ended" /\ computeFailures(run.results) = {}
        /\ run.saving = "final"
    BY <1>1 DEF Succeeded, Returned, PInv, SaveTells
  <2>2. /\ run.key \in Keys /\ run.results \in Results(run.key)
        /\ DOMAIN run.results = Orders(run.key)
        /\ Len(Phases[run.key]) \in Nat
        /\ Orders(run.key) = 1 .. Len(Phases[run.key])
    BY <1>1, <2>1, RunInProgress, RunFields, PlanLength DEF PInv, IInv, TypeOK
  <2>3. run.order = Len(Phases[run.key]) + 1
    BY <1>1, <2>1, <2>2 DEF PInv, SaveTells, computeFailures
  <2>4. PhasesAhead = {} /\ Passed = Orders(run.key)
    BY <2>1, <2>2, <2>3 DEF PhasesAhead, Passed
  <2>5. \A o \in Orders(run.key) : run.results[o] # NoEntry
    BY <1>1, <2>1, <2>4 DEF PInv, Settled
  <2>6. \A o \in Orders(run.key) : run.results[o] \in Entry
    BY <2>2, <2>5 DEF Results
  <2>7. \A o \in Orders(run.key) : run.results[o].status = "completed"
    BY <2>1, <2>2, <2>5, <2>6 DEF Entry, computeFailures
  <2>8. Cardinality(Orders(run.key)) = Len(Phases[run.key])
    BY <2>2, FS_Interval
  <2> QED BY <1>1, <2>1, <2>4, <2>7, <2>8 DEF Accounts, SourceTells, Cached, HonestProvenance
<1>2. PInv /\ Accounts => HonestProvenance
  BY <1>1 DEF HonestProvenance
<1> QED BY <1>2, AlwaysAccounts, PTL


-----------------------------------------------------------------------------
(***************************************************************************)
(* Lineage, for plans that design first and whose runs stop at the first   *)
(* failure, without reindexing and until a save throws. What is completed  *)
(* is then a beginning of the plan, and the context of the run and of each *)
(* checkpoint leads to the last of it.                                     *)
(***************************************************************************)
Tip(results, S) ==
  IF S = {} THEN NoHandoff
  ELSE results[CHOOSE o \in S : \A d \in S : d <= o].handoff

\* The engine's plans are so (EnginePlansAreExecutable).
DesignComesFirst ==
  \A key \in Keys : \A o \in DesignOrders(key) : 1 .. o - 1 \subseteq DesignOrders(key)

Linked(key, results) ==
  /\ \A o \in computeCompletedPhases(results) : 1 .. o - 1 \subseteq computeCompletedPhases(results)
  /\ Chained(key, results)

\* Unless nothing of it is known yet, the context leads to the last of passed.
Leads(key, results, ctx, passed) ==
  LET done   == computeCompletedPhases(results)
      design == DesignOrders(key)
  IN  /\ passed # {} \/ done = {} => ctx.parent = Tip(results, passed)
      /\ passed \cap design # {} \/ done \cap design = {} =>
           ctx.analysis = Tip(results, passed \cap design)

FailsFast(key) == TRUE \notin ContinueOptions[key]

FileLinked(c) ==
  FailsFast(c.key) =>
    /\ ~ c.cont
    /\ Linked(c.key, c.results)
    /\ Leads(c.key, c.results, c.ctx, computeCompletedPhases(c.results))

RunLinked ==
  pc # "idle" /\ FailsFast(run.key) =>
    LET done == computeCompletedPhases(run.results)
    IN  /\ ~ run.cont
        /\ Linked(run.key, run.results)
        /\ pc # "phase" => done \cap PhasesAhead = {}
        /\ run.saving \in {"none", "completed"} => Passed \subseteq done
        /\ Leads(run.key, run.results, run.ctx, done \ PhasesAhead)

Lineage ==
  faults = 0 =>
    /\ \A f \in FileNames : files[f] # NoCheckpoint => FileLinked(files[f])
    /\ RunLinked

LEMMA TipOf ==
  ASSUME NEW results, NEW S \in SUBSET Nat, NEW m \in S, \A d \in S : d <= m
  PROVE  Tip(results, S) = results[m].handoff
<1>1. \A o \in S : (\A d \in S : d <= o) => o = m
  OBVIOUS
<1>2. (CHOOSE o \in S : \A d \in S : d <= o) = m
  BY <1>1
<1> QED BY <1>2 DEF Tip

LEMMA TipSame ==
  ASSUME NEW key \in Keys, NEW S \in SUBSET Orders(key), NEW r1, NEW r2,
         \A o \in S : r2[o].handoff = r1[o].handoff
  PROVE  Tip(r2, S) = Tip(r1, S)
<1>1. CASE S = {}
  BY <1>1 DEF Tip
<1>2. CASE S # {}
  <2>0. S \in SUBSET (1 .. Len(Phases[key])) /\ Len(Phases[key]) \in Nat
    BY PlanLength
  <2>1. S \in SUBSET Nat
    BY <2>0
  <2>2. PICK m \in S : \A d \in S : d <= m
    BY <1>2, <2>0, GreatestOrder
  <2> QED BY <2>1, <2>2, TipOf
<1> QED BY <1>1, <1>2

LEMMA ChainedMeans ==
  ASSUME NEW key, NEW results
  PROVE  Chained(key, results) <=>
           \A o \in computeCompletedPhases(results) :
             LET before == {d \in computeCompletedPhases(results) : d < o}
             IN  /\ results[o].parent = Tip(results, before)
                 /\ results[o].basis = Tip(results, before \cap DesignOrders(key))
BY DEF Chained, Tip

\* What is linked does not depend on the sources of results, nor on failures.
LEMMA StaysLinked ==
  ASSUME NEW key \in Keys, NEW r1 \in Results(key), NEW r2,
         Linked(key, r1), computeCompletedPhases(r2) = computeCompletedPhases(r1),
         \A o \in computeCompletedPhases(r1) :
           /\ r2[o].handoff = r1[o].handoff
           /\ r2[o].parent = r1[o].parent
           /\ r2[o].basis = r1[o].basis
  PROVE  Linked(key, r2)
<1> DEFINE done == computeCompletedPhases(r1)
           design == DesignOrders(key)
<1>1. done \in SUBSET Orders(key)
  BY CompletedResult
<1>2. \A S \in SUBSET done : Tip(r2, S) = Tip(r1, S)
  BY <1>1, TipSame
<1>3. ASSUME NEW o \in done
      PROVE  LET before == {d \in done : d < o}
             IN  /\ r2[o].parent = Tip(r2, before)
                 /\ r2[o].basis = Tip(r2, before \cap design)
  <2> DEFINE before == {d \in done : d < o}
  <2>1. /\ r1[o].parent = Tip(r1, before)
        /\ r1[o].basis = Tip(r1, before \cap design)
    BY ChainedMeans DEF Linked
  <2>2. before \in SUBSET done /\ before \cap design \in SUBSET done
    OBVIOUS
  <2> HIDE DEF before, done
  <2>3. Tip(r2, before) = Tip(r1, before) /\ Tip(r2, before \cap design) = Tip(r1, before \cap design)
    BY <1>2, <2>2
  <2>4. r2[o].parent = Tip(r2, before) /\ r2[o].basis = Tip(r2, before \cap design)
    BY <2>1, <2>3 DEF done
  <2> QED BY <2>4 DEF before
<1>4. Chained(key, r2)
  BY <1>3, ChainedMeans
<1> QED BY <1>4 DEF Linked

LEMMA StillLeads ==
  ASSUME NEW key \in Keys, NEW r1 \in Results(key), NEW r2, NEW ctx1, NEW ctx2,
         NEW passed \in SUBSET computeCompletedPhases(r1),
         Leads(key, r1, ctx1, passed),
         computeCompletedPhases(r2) = computeCompletedPhases(r1),
         \A o \in computeCompletedPhases(r1) : r2[o].handoff = r1[o].handoff,
         ctx2.parent = ctx1.parent, ctx2.analysis = ctx1.analysis
  PROVE  Leads(key, r2, ctx2, passed)
<1>1. passed \in SUBSET Orders(key) /\ passed \cap DesignOrders(key) \in SUBSET Orders(key)
  BY CompletedResult
<1>2. /\ Tip(r2, passed) = Tip(r1, passed)
      /\ Tip(r2, passed \cap DesignOrders(key)) = Tip(r1, passed \cap DesignOrders(key))
  BY <1>1, TipSame
<1> QED BY <1>2 DEF Leads

\* What is completed ends before a phase that is not.
LEMMA BeforeFrontier ==
  ASSUME NEW key \in Keys, NEW results \in Results(key), Linked(key, results),
         NEW o \in Orders(key), o \notin computeCompletedPhases(results)
  PROVE  \A d \in computeCompletedPhases(results) : d < o
<1>1. Orders(key) \in SUBSET Nat /\ \A p \in Orders(key) : p >= 1
  BY PlanLength
<1>2. computeCompletedPhases(results) \in SUBSET Orders(key)
  BY CompletedResult
<1>3. \A d \in computeCompletedPhases(results) : ~ (o \in 1 .. d - 1) /\ d # o
  BY DEF Linked
<1> QED BY <1>1, <1>2, <1>3

\* A phase completed with the context that leads to what is completed.
LEMMA OneMoreLinked ==
  ASSUME NEW key \in Keys, NEW r1 \in Results(key), NEW r2,
         Linked(key, r1), NEW o \in Orders(key),
         computeCompletedPhases(r1) = 1 .. o - 1,
         computeCompletedPhases(r2) = 1 .. o,
         \A d \in 1 .. o - 1 : r2[d] = r1[d],
         r2[o].parent = Tip(r1, 1 .. o - 1),
         r2[o].basis = Tip(r1, (1 .. o - 1) \cap DesignOrders(key))
  PROVE  Linked(key, r2)
<1> DEFINE design == DesignOrders(key)
<1>1. o \in Nat /\ o >= 1 /\ 1 .. o - 1 \in SUBSET Orders(key)
  BY PlanLength
<1>2. \A S \in SUBSET (1 .. o - 1) : Tip(r2, S) = Tip(r1, S)
  BY <1>1, TipSame
<1>3. ASSUME NEW p \in 1 .. o
      PROVE  /\ r2[p].parent = Tip(r2, {d \in 1 .. o : d < p})
             /\ r2[p].basis = Tip(r2, {d \in 1 .. o : d < p} \cap design)
  <2>1. {d \in 1 .. o : d < p} = {d \in 1 .. o - 1 : d < p}
    BY <1>1
  <2> DEFINE before == {d \in 1 .. o - 1 : d < p}
  <2>2. before \in SUBSET (1 .. o - 1) /\ before \cap design \in SUBSET (1 .. o - 1)
    OBVIOUS
  <2>3. r2[p].parent = Tip(r1, before) /\ r2[p].basis = Tip(r1, before \cap design)
    <3>1. CASE p = o
      <4>1. before = 1 .. o - 1
        BY <1>1, <3>1
      <4> HIDE DEF before
      <4> QED BY <3>1, <4>1
    <3>2. CASE p # o
      <4>1. p \in 1 .. o - 1
        BY <1>1, <3>2
      <4>2. \A x \in 1 .. o - 1 :
              LET b == {d \in 1 .. o - 1 : d < x}
              IN  /\ r1[x].parent = Tip(r1, b)
                  /\ r1[x].basis = Tip(r1, b \cap design)
        BY ChainedMeans DEF Linked
      <4> QED BY <4>1, <4>2
    <3> QED BY <3>1, <3>2
  <2> HIDE DEF before
  <2>4. Tip(r2, before) = Tip(r1, before) /\ Tip(r2, before \cap design) = Tip(r1, before \cap design)
    BY <1>2, <2>2
  <2> QED BY <2>1, <2>3, <2>4 DEF before
<1>4. Chained(key, r2)
  BY <1>3, ChainedMeans
<1>5. \A p \in 1 .. o : 1 .. p - 1 \subseteq 1 .. o
  BY <1>1
<1> QED BY <1>4, <1>5 DEF Linked

-----------------------------------------------------------------------------
(* The steps of a run whose plan fails fast.                               *)

\* What RunLinked says while a run is under way.
LEMMA LinkedRun ==
  ASSUME PInv, RunLinked, pc \in {"phase", "file", "index"}, FailsFast(run.key)
  PROVE  LET done == computeCompletedPhases(run.results)
         IN  /\ run.key \in Keys /\ run.results \in Results(run.key)
             /\ run.order \in Nat /\ Orders(run.key) = 1 .. Len(Phases[run.key])
             /\ Len(Phases[run.key]) \in Nat
             /\ done \in SUBSET Orders(run.key)
             /\ ~ run.cont /\ Linked(run.key, run.results)
             /\ pc # "phase" => done \cap PhasesAhead = {}
             /\ run.saving \in {"none", "completed"} => Passed \subseteq done
             /\ Leads(run.key, run.results, run.ctx, done \ PhasesAhead)
BY Running, PlanLength, CompletedResult DEF RunLinked

\* At a phase that is not completed the context leads to all that is.
LEMMA Frontier ==
  ASSUME PInv, RunLinked, AtPhase, FailsFast(run.key),
         run.order \notin computeCompletedPhases(run.results)
  PROVE  /\ computeCompletedPhases(run.results) = 1 .. run.order - 1
         /\ computeCompletedPhases(run.results) \cap PhasesAhead = {}
         /\ Linked(run.key, run.results)
         /\ run.ctx.parent = Tip(run.results, 1 .. run.order - 1)
         /\ run.ctx.analysis = Tip(run.results, (1 .. run.order - 1) \cap DesignOrders(run.key))
<1> DEFINE done == computeCompletedPhases(run.results)
           o    == run.order
<1>1. pc = "phase" /\ o \in Orders(run.key) /\ run.saving = "none"
  BY DEF AtPhase, PInv, SaveTells
<1>2. /\ run.key \in Keys /\ run.results \in Results(run.key)
      /\ o \in Nat /\ Orders(run.key) = 1 .. Len(Phases[run.key])
      /\ Len(Phases[run.key]) \in Nat
      /\ done \in SUBSET Orders(run.key)
      /\ Linked(run.key, run.results)
      /\ Passed \subseteq done
      /\ Leads(run.key, run.results, run.ctx, done \ PhasesAhead)
  BY <1>1, LinkedRun
<1>3. \A d \in done : d < o
  BY <1>1, <1>2, BeforeFrontier
<1>4. PhasesAhead = {p \in Orders(run.key) : p >= o} /\ Passed = 1 .. o - 1
  BY <1>1, <1>2 DEF PhasesAhead, Passed
<1>5. done = 1 .. o - 1 /\ done \cap PhasesAhead = {} /\ done \ PhasesAhead = done
  <2>1. done \subseteq 1 .. o - 1
    BY <1>2, <1>3
  <2>2. (1 .. o - 1) \cap PhasesAhead = {}
    BY <1>2, <1>4
  <2> HIDE DEF done
  <2> QED BY <1>2, <1>4, <2>1, <2>2
<1>6. Leads(run.key, run.results, run.ctx, 1 .. o - 1)
  BY <1>2, <1>5
<1>7. /\ run.ctx.parent = Tip(run.results, 1 .. o - 1)
      /\ run.ctx.analysis = Tip(run.results, (1 .. o - 1) \cap DesignOrders(run.key))
  BY <1>5, <1>6, Zenon DEF Leads
<1> QED BY <1>2, <1>5, <1>7

LEMMA LineageComplete ==
  ASSUME PInv, RunLinked, CompletePhase
  PROVE  RunLinked'
<1> DEFINE o    == run.order
           done == computeCompletedPhases(run.results)
<1>1. /\ AtPhase /\ pc = "phase" /\ pc' = "file" /\ o \in Orders(run.key)
      /\ o \notin done /\ runs' = runs
  BY DEF CompletePhase, AtPhase
<1>2. PICK found \in Artifacts :
        run' = [run EXCEPT
                 !.results[o] = PhaseResult("completed", found),
                 !.ctx = updateContextFromArtifact(run.ctx, Agent,
                                                   PhaseHandoff, found),
                 !.misses = @ + 1,
                 !.saving = "completed"]
  BY DEF CompletePhase
<1> DEFINE entry == PhaseResult("completed", found)
           ctx   == updateContextFromArtifact(run.ctx, Agent, PhaseHandoff, found)
<1>3. /\ entry.status = "completed" /\ entry.handoff = PhaseHandoff
      /\ entry.parent = run.ctx.parent /\ entry.basis = run.ctx.analysis
  BY DEF PhaseResult
<1>4. /\ ctx.parent = PhaseHandoff
      /\ ctx.analysis = IF Agent = "scout" THEN PhaseHandoff ELSE run.ctx.analysis
  BY DEF updateContextFromArtifact
<1>5. entry \in Entry
  BY <1>1, PhaseResultType DEF Artifacts, PInv, IInv
<1> HIDE DEF entry, ctx
<1>6. /\ run'.results = [run.results EXCEPT ![o] = entry] /\ run'.ctx = ctx
      /\ run'.order = o /\ run'.saving = "completed" /\ run'.cont = run.cont
      /\ SameRun
  BY <1>1, <1>2, RunFields DEF Run, SameRun, entry, ctx
<1> SUFFICES ASSUME FailsFast(run.key)
             PROVE  /\ ~ run'.cont
                    /\ Linked(run.key, run'.results)
                    /\ computeCompletedPhases(run'.results) \cap PhasesAhead' = {}
                    /\ Passed' \subseteq computeCompletedPhases(run'.results)
                    /\ Leads(run.key, run'.results, run'.ctx,
                             computeCompletedPhases(run'.results) \ PhasesAhead')
  BY <1>1, <1>6 DEF RunLinked, SameRun
<1>7. /\ run.key \in Keys /\ run.results \in Results(run.key)
      /\ o \in Nat /\ o >= 1 /\ Orders(run.key) = 1 .. Len(Phases[run.key])
      /\ Len(Phases[run.key]) \in Nat /\ ~ run.cont
      /\ DOMAIN run.results = Orders(run.key)
  BY <1>1, LinkedRun, RunFields
<1>8. /\ done = 1 .. o - 1
      /\ Linked(run.key, run.results)
      /\ run.ctx.parent = Tip(run.results, 1 .. o - 1)
      /\ run.ctx.analysis = Tip(run.results, (1 .. o - 1) \cap DesignOrders(run.key))
  BY <1>1, Frontier
<1> DEFINE r2 == run'.results
<1>9. /\ r2[o] = entry /\ DOMAIN r2 = Orders(run.key)
      /\ \A d \in Orders(run.key) : d # o => r2[d] = run.results[d]
  BY <1>1, <1>6, <1>7
<1>10. computeCompletedPhases(r2) = 1 .. o
  <2>1. computeCompletedPhases(r2) = done \cup {o}
    BY <1>1, <1>3, <1>5, <1>7, <1>9, EntryAssumption DEF computeCompletedPhases
  <2>2. (1 .. o - 1) \cup {o} = 1 .. o
    BY <1>7
  <2> QED BY <1>8, <2>1, <2>2
<1>11. \A d \in 1 .. o - 1 : r2[d] = run.results[d]
  BY <1>1, <1>7, <1>9
<1> HIDE DEF r2, done
<1>12. Linked(run.key, r2)
  BY <1>1, <1>3, <1>7, <1>8, <1>9, <1>10, <1>11, OneMoreLinked DEF done
<1>13. PhasesAhead' = {p \in Orders(run.key) : p > o} /\ Passed' = 1 .. o
  <2>1. PhasesAhead' = {p \in Orders(run.key) : p > o}
    BY <1>1, <1>6, <1>7 DEF PhasesAhead, SameRun
  <2>2. Orders(run'.key) \ {p \in Orders(run.key) : p > o} = 1 .. o
    BY <1>1, <1>6, <1>7 DEF SameRun
  <2> QED BY <2>1, <2>2 DEF Passed
<1>14. (1 .. o) \cap PhasesAhead' = {} /\ (1 .. o) \ PhasesAhead' = 1 .. o
  BY <1>7, <1>13
<1> DEFINE design == DesignOrders(run.key)
<1>15. Tip(r2, 1 .. o) = PhaseHandoff
  <2>1. Tip(r2, 1 .. o) = r2[o].handoff
    BY <1>7, TipOf
  <2> QED BY <1>3, <1>9, <2>1
<1>16. ctx.analysis = Tip(r2, (1 .. o) \cap design)
  <2>1. o \in design <=> Agent = "scout"
    BY <1>1 DEF DesignOrders, Agent
  <2>2. CASE o \in design
    <3>1. Tip(r2, (1 .. o) \cap design) = r2[o].handoff
      BY <1>7, <2>2, TipOf
    <3> QED BY <1>3, <1>4, <1>9, <2>1, <2>2, <3>1
  <2>3. CASE o \notin design
    <3>1. (1 .. o) \cap design = (1 .. o - 1) \cap design
      BY <1>7, <2>3
    <3>2. Tip(r2, (1 .. o - 1) \cap design) = Tip(run.results, (1 .. o - 1) \cap design)
      <4>1. (1 .. o - 1) \cap design \in SUBSET Orders(run.key)
        BY DEF DesignOrders
      <4> HIDE DEF design
      <4> QED BY <1>7, <1>11, <4>1, TipSame
    <3> QED BY <1>4, <1>8, <2>1, <2>3, <3>1, <3>2
  <2> QED BY <2>2, <2>3
<1>17. Leads(run.key, r2, ctx, 1 .. o)
  BY <1>4, <1>15, <1>16 DEF Leads
<1> QED BY <1>6, <1>7, <1>10, <1>12, <1>13, <1>14, <1>17 DEF r2

LEMMA LineageFail ==
  ASSUME PInv, RunLinked, FailPhase
  PROVE  RunLinked'
<1> DEFINE o     == run.order
           done  == computeCompletedPhases(run.results)
           entry == IF HandoffValid(run.ctx) THEN PhaseResult("failed", {})
                                             ELSE NoHandoffResult
<1>1. /\ AtPhase /\ pc = "phase" /\ pc' = "file" /\ o \in Orders(run.key)
      /\ o \notin done /\ runs' = runs
      /\ run' = [run EXCEPT !.results[o] = entry, !.misses = @ + 1,
                            !.saving = "failed"]
  BY DEF FailPhase, AtPhase
<1>2. entry.status = "failed"
  BY DEF PhaseResult, NoHandoffResult
<1> HIDE DEF entry
<1>3. /\ run'.results = [run.results EXCEPT ![o] = entry] /\ run'.ctx = run.ctx
      /\ run'.order = o /\ run'.saving = "failed" /\ run'.cont = run.cont
      /\ SameRun
  BY <1>1, RunFields DEF Run, SameRun
<1> SUFFICES ASSUME FailsFast(run.key)
             PROVE  /\ ~ run'.cont
                    /\ Linked(run.key, run'.results)
                    /\ computeCompletedPhases(run'.results) \cap PhasesAhead' = {}
                    /\ Leads(run.key, run'.results, run'.ctx,
                             computeCompletedPhases(run'.results) \ PhasesAhead')
  BY <1>1, <1>3 DEF RunLinked, SameRun
<1>4. /\ run.key \in Keys /\ run.results \in Results(run.key)
      /\ o \in Nat /\ Orders(run.key) = 1 .. Len(Phases[run.key])
      /\ ~ run.cont /\ Linked(run.key, run.results)
      /\ done \in SUBSET Orders(run.key)
      /\ Leads(run.key, run.results, run.ctx, done \ PhasesAhead)
      /\ DOMAIN run.results = Orders(run.key)
  BY <1>1, LinkedRun, RunFields
<1>5. done \cap PhasesAhead = {}
  BY <1>1, Frontier
<1> DEFINE r2 == run'.results
<1>6. /\ r2[o] = entry /\ DOMAIN r2 = Orders(run.key)
      /\ \A d \in Orders(run.key) : d # o => r2[d] = run.results[d]
  BY <1>1, <1>3, <1>4
<1>7. computeCompletedPhases(r2) = done
  BY <1>1, <1>2, <1>4, <1>6 DEF computeCompletedPhases
<1>8. \A d \in done : r2[d] = run.results[d]
  BY <1>1, <1>4, <1>6
<1>9. PhasesAhead' \subseteq PhasesAhead
  BY <1>1, <1>3, <1>4 DEF PhasesAhead, SameRun
<1>10. done \cap PhasesAhead' = {} /\ done \ PhasesAhead' = done /\ done \ PhasesAhead = done
  BY <1>5, <1>9
<1> HIDE DEF r2
<1>11. Linked(run.key, r2)
  BY <1>4, <1>7, <1>8, StaysLinked
<1>12. Leads(run.key, r2, run'.ctx, done)
  BY <1>3, <1>4, <1>7, <1>8, <1>10, StillLeads
<1> QED BY <1>3, <1>4, <1>7, <1>10, <1>11, <1>12 DEF r2

LEMMA LineageReuse ==
  ASSUME PInv, RunLinked, ReusePhase
  PROVE  RunLinked'
<1> DEFINE o    == run.order
           done == computeCompletedPhases(run.results)
           how  == IF Reindexed THEN "reindexed" ELSE "cache"
           prior == run.results[o]
           ctx  == updateContextFromArtifact(run.ctx, Agent, prior.handoff, prior.found)
<1>1. /\ pc = "phase" /\ pc' = "phase" /\ o \in Orders(run.key) /\ o \in done /\ runs' = runs
      /\ run' = [run EXCEPT !.results[o].source = how, !.ctx = ctx,
                            !.hits = @ + 1, !.order = @ + 1]
  BY DEF ReusePhase, AtPhase
<1>2. /\ ctx.parent = prior.handoff
      /\ ctx.analysis = IF Agent = "scout" THEN prior.handoff ELSE run.ctx.analysis
  BY DEF updateContextFromArtifact
<1> HIDE DEF how, ctx
<1>3. /\ run'.results = [run.results EXCEPT ![o].source = how] /\ run'.ctx = ctx
      /\ run'.order = o + 1 /\ run'.saving = run.saving /\ run'.cont = run.cont
      /\ SameRun
  BY <1>1, RunFields DEF Run, SameRun
<1> SUFFICES ASSUME FailsFast(run.key)
             PROVE  /\ ~ run'.cont
                    /\ Linked(run.key, run'.results)
                    /\ Passed' \subseteq computeCompletedPhases(run'.results)
                    /\ Leads(run.key, run'.results, run'.ctx,
                             computeCompletedPhases(run'.results) \ PhasesAhead')
  BY <1>1, <1>3 DEF RunLinked, SameRun
<1>4. run.saving = "none"
  BY <1>1 DEF PInv, SaveTells
<1>5. /\ run.key \in Keys /\ run.results \in Results(run.key)
      /\ o \in Nat /\ Orders(run.key) = 1 .. Len(Phases[run.key])
      /\ Len(Phases[run.key]) \in Nat
      /\ ~ run.cont /\ Linked(run.key, run.results)
      /\ done \in SUBSET Orders(run.key)
      /\ Passed \subseteq done
      /\ Leads(run.key, run.results, run.ctx, done \ PhasesAhead)
      /\ DOMAIN run.results = Orders(run.key)
  BY <1>1, <1>4, LinkedRun, RunFields
<1> DEFINE r2     == run'.results
           design == DesignOrders(run.key)
           passed == done \ PhasesAhead
<1>6. prior \in Entry
  BY <1>1, <1>5, CompletedResult
<1>7. /\ DOMAIN r2 = Orders(run.key)
      /\ \A d \in Orders(run.key) : d # o => r2[d] = run.results[d]
      /\ r2[o] = [prior EXCEPT !.source = how]
  BY <1>1, <1>3, <1>5
<1>8. [prior EXCEPT !.source = how] \in Entry
  BY <1>6 DEF Entry, how
<1>9. /\ r2[o].status = prior.status /\ r2[o].handoff = prior.handoff
      /\ r2[o].parent = prior.parent /\ r2[o].basis = prior.basis
      /\ r2[o] # NoEntry /\ prior # NoEntry
  <2>1. /\ [prior EXCEPT !.source = how].status = prior.status
        /\ [prior EXCEPT !.source = how].handoff = prior.handoff
        /\ [prior EXCEPT !.source = how].parent = prior.parent
        /\ [prior EXCEPT !.source = how].basis = prior.basis
    BY <1>6 DEF Entry
  <2> QED BY <1>6, <1>7, <1>8, <2>1, EntryAssumption
<1>10. computeCompletedPhases(r2) = done
  BY <1>1, <1>5, <1>7, <1>9 DEF computeCompletedPhases
<1>11. \A d \in done : /\ r2[d].handoff = run.results[d].handoff
                       /\ r2[d].parent = run.results[d].parent
                       /\ r2[d].basis = run.results[d].basis
  BY <1>5, <1>7, <1>9
<1> HIDE DEF r2, prior
<1>12. Linked(run.key, r2)
  BY <1>5, <1>10, <1>11, StaysLinked
<1>13. /\ PhasesAhead = {p \in Orders(run.key) : p >= o}
       /\ PhasesAhead' = {p \in Orders(run.key) : p >= o + 1}
  BY <1>3, <1>4, <1>5 DEF PhasesAhead, SameRun
<1>14. Passed' = Passed \cup {o}
  BY <1>1, <1>3, <1>5, <1>13 DEF Passed, SameRun
<1>15. /\ done \ PhasesAhead' = passed \cup {o}
       /\ \A d \in passed \cup {o} : d <= o
       /\ passed \cup {o} \in SUBSET Nat
  BY <1>1, <1>5, <1>13
<1>16. passed \in SUBSET done /\ passed \cap design \in SUBSET Orders(run.key)
  BY <1>5
<1> HIDE DEF passed, done
<1>17. Leads(run.key, r2, run.ctx, passed)
  BY <1>5, <1>10, <1>11, <1>16, StillLeads DEF passed, done
<1>18. Tip(r2, passed \cup {o}) = prior.handoff
  <2>1. Tip(r2, passed \cup {o}) = r2[o].handoff
    BY <1>15, TipOf
  <2> QED BY <1>9, <2>1
<1>19. \/ (passed \cup {o}) \cap design # {}
       \/ done \cap design = {}
       => ctx.analysis = Tip(r2, (passed \cup {o}) \cap design)
  <2>1. o \in design <=> Agent = "scout"
    BY <1>1 DEF DesignOrders, Agent
  <2>2. CASE o \in design
    <3>1. Tip(r2, (passed \cup {o}) \cap design) = r2[o].handoff
      BY <1>15, <2>2, TipOf
    <3> QED BY <1>2, <1>9, <2>1, <2>2, <3>1
  <2>3. CASE o \notin design
    <3>1. (passed \cup {o}) \cap design = passed \cap design
      BY <2>3
    <3>2. \/ passed \cap design # {}
          \/ done \cap design = {}
          => run.ctx.analysis = Tip(r2, passed \cap design)
      BY <1>10, <1>17 DEF Leads, done
    <3> QED BY <1>2, <2>1, <2>3, <3>1, <3>2
  <2> QED BY <2>2, <2>3
<1>20. Leads(run.key, r2, ctx, passed \cup {o})
  BY <1>2, <1>10, <1>18, <1>19 DEF Leads, done
<1>21. Passed' \subseteq done
  BY <1>1, <1>5, <1>14 DEF done
<1> QED BY <1>3, <1>5, <1>10, <1>12, <1>15, <1>20, <1>21 DEF r2, done

LEMMA LineageStays ==
  ASSUME PInv, RunLinked, LeaveLoop \/ WriteCheckpoint \/ WriteIndex
  PROVE  RunLinked'
<1> DEFINE done == computeCompletedPhases(run.results)
<1>1. /\ pc \in {"phase", "file", "index"} /\ pc' # "idle"
      /\ SameRun /\ run'.results = run.results /\ run'.ctx = run.ctx
      /\ run'.cont = run.cont
      /\ PhasesAhead' = PhasesAhead /\ Passed' = Passed
  BY AheadStays
<1> SUFFICES ASSUME FailsFast(run.key)
             PROVE  /\ ~ run'.cont
                    /\ Linked(run.key, run'.results)
                    /\ pc' # "phase" => done \cap PhasesAhead' = {}
                    /\ run'.saving \in {"none", "completed"} => Passed' \subseteq done
                    /\ Leads(run.key, run'.results, run'.ctx, done \ PhasesAhead')
  BY <1>1 DEF RunLinked, SameRun
<1>2. /\ ~ run.cont /\ Linked(run.key, run.results)
      /\ pc # "phase" => done \cap PhasesAhead = {}
      /\ run.saving \in {"none", "completed"} => Passed \subseteq done
      /\ Leads(run.key, run.results, run.ctx, done \ PhasesAhead)
  BY <1>1, LinkedRun
<1>3. pc' # "phase" => done \cap PhasesAhead = {}
  <2>1. CASE LeaveLoop
    <3>1. run.order > Len(Phases[run.key])
      BY <2>1 DEF LeaveLoop
    <3>2. PhasesAhead = {}
      BY <1>1, <3>1, Running, PlanLength DEF PhasesAhead
    <3> QED BY <3>2
  <2>2. CASE WriteCheckpoint \/ WriteIndex
    BY <1>2, <2>2 DEF WriteCheckpoint, WriteIndex
  <2> QED BY <2>1, <2>2
<1>4. run'.saving \in {"none", "completed"} => run.saving \in {"none", "completed"}
  BY <1>1, <1>2, RunFields DEF LeaveLoop, WriteCheckpoint, WriteIndex, Run
<1> QED BY <1>1, <1>2, <1>3, <1>4

\* What is written then is the checkpoint of a linked run.
LEMMA LinkedCheckpoint ==
  ASSUME PInv, RunLinked, pc = "file"
  PROVE  FileLinked(CheckpointOfRun)
<1> DEFINE done == computeCompletedPhases(run.results)
<1> SUFFICES ASSUME FailsFast(run.key)
             PROVE  /\ ~ run.cont
                    /\ Linked(run.key, run.results)
                    /\ Leads(run.key, run.results, run.ctx, done)
  BY DEF FileLinked, CheckpointOfRun
<1>1. /\ ~ run.cont /\ Linked(run.key, run.results)
      /\ done \cap PhasesAhead = {}
      /\ Leads(run.key, run.results, run.ctx, done \ PhasesAhead)
  BY LinkedRun
<1>2. done \ PhasesAhead = done
  BY <1>1
<1> QED BY <1>1, <1>2

\* A run that starts from linked results, with a context of nobody if they are none.
LEMMA LineageBegins ==
  ASSUME NEW session, NEW key \in Keys, NEW eligible \in Results(key), NEW ctx,
         NEW cont \in BOOLEAN,
         executeInternal(session, key, eligible, ctx, cont, FALSE),
         FailsFast(key) =>
           LET done == computeCompletedPhases(eligible)
           IN  /\ ~ cont
               /\ Linked(key, eligible)
               /\ done = {} => ctx.parent = NoHandoff
               /\ done \cap DesignOrders(key) = {} => ctx.analysis = NoHandoff
  PROVE  RunLinked'
<1> DEFINE start == reindexStart(key, FALSE)
           kept  == applyReindexPolicy(eligible, start)
           done  == computeCompletedPhases(eligible)
<1>1. start = Len(Phases[key]) + 1 /\ Len(Phases[key]) \in Nat
      /\ Orders(key) = 1 .. Len(Phases[key])
  BY PlanLength DEF reindexStart
<1>2. done \in SUBSET Orders(key)
  BY CompletedResult
<1>3. /\ run'.key = key /\ run'.results = kept /\ run'.ctx = ctx /\ run'.cont = cont
      /\ run'.order = 1 /\ run'.saving = "none" /\ pc' = "phase"
  BY DEF executeInternal
<1> HIDE DEF start, kept
<1>4. computeCompletedPhases(kept) = done /\ \A o \in done : kept[o] = eligible[o]
  <2>1. start \in Nat
    BY <1>1
  <2>2. /\ computeCompletedPhases(kept) = {o \in done : o < start}
        /\ \A o \in computeCompletedPhases(kept) : kept[o] = eligible[o]
    BY <2>1, KeptPhases DEF kept
  <2>3. \A o \in done : o < start
    BY <1>1, <1>2
  <2> QED BY <2>2, <2>3
<1>5. PhasesAhead' = Orders(key) /\ Passed' = {}
  <2>1. PhasesAhead' = Orders(key)
    BY <1>1, <1>3 DEF PhasesAhead
  <2> QED BY <1>3, <2>1 DEF Passed
<1> SUFFICES ASSUME FailsFast(key)
             PROVE  /\ ~ cont
                    /\ Linked(key, kept)
                    /\ Leads(key, kept, ctx, computeCompletedPhases(kept) \ Orders(key))
  BY <1>3, <1>5 DEF RunLinked
<1>6. Linked(key, kept)
  BY <1>4, StaysLinked
<1>7. computeCompletedPhases(kept) \ Orders(key) = {}
  BY <1>2, <1>4
<1>8. Leads(key, kept, ctx, {})
  BY <1>4 DEF Leads, Tip
<1> QED BY <1>6, <1>7, <1>8

LEMMA EmptyLinked ==
  ASSUME NEW key \in Keys
  PROVE  Linked(key, NoResults(key))
BY EmptyResults DEF Linked, Chained

\* The design phases of a linked checkpoint are linked, as they come first.
LEMMA DesignLinked ==
  ASSUME DesignComesFirst, NEW key \in Keys, NEW results \in Results(key), Linked(key, results)
  PROVE  Linked(key, selectCrossSessionPlanningPhases(key, results))
<1> DEFINE eligible == selectCrossSessionPlanningPhases(key, results)
           done     == computeCompletedPhases(results)
           design   == DesignOrders(key)
           some     == done \cap design
<1>1. done \in SUBSET Orders(key) /\ Orders(key) \in SUBSET Nat /\ \A o \in Orders(key) : o >= 1
  BY CompletedResult, PlanLength
<1>2. computeCompletedPhases(eligible) = some /\ \A o \in some : eligible[o] = results[o]
  BY SelectedPhases
<1>3. \A o \in some : 1 .. o - 1 \subseteq done /\ 1 .. o - 1 \subseteq design
  BY DEF Linked, DesignComesFirst
<1>4. \A o \in some : {d \in some : d < o} = {d \in done : d < o}
  <2> SUFFICES ASSUME NEW o \in some, NEW d \in done, d < o
               PROVE  d \in design
    OBVIOUS
  <2>1. d \in 1 .. o - 1
    BY <1>1
  <2> QED BY <1>3, <2>1
<1>5. \A S \in SUBSET some : Tip(eligible, S) = Tip(results, S)
  <2>1. some \in SUBSET Orders(key)
    BY <1>1
  <2> HIDE DEF some, eligible
  <2> QED BY <1>2, <2>1, TipSame
<1>6. ASSUME NEW o \in some
      PROVE  LET before == {d \in some : d < o}
             IN  /\ eligible[o].parent = Tip(eligible, before)
                 /\ eligible[o].basis = Tip(eligible, before \cap design)
  <2> DEFINE before == {d \in some : d < o}
  <2>1. before \in SUBSET some /\ before \cap design \in SUBSET some
    OBVIOUS
  <2>2. /\ results[o].parent = Tip(results, {d \in done : d < o})
        /\ results[o].basis = Tip(results, {d \in done : d < o} \cap design)
    BY ChainedMeans DEF Linked
  <2>3. before = {d \in done : d < o}
    BY <1>4
  <2> HIDE DEF before, some, eligible
  <2>4. /\ Tip(eligible, before) = Tip(results, before)
        /\ Tip(eligible, before \cap design) = Tip(results, before \cap design)
    BY <1>5, <2>1
  <2>5. eligible[o] = results[o]
    BY <1>2, <1>6
  <2>6. /\ eligible[o].parent = Tip(eligible, before)
        /\ eligible[o].basis = Tip(eligible, before \cap design)
    BY <2>2, <2>3, <2>4, <2>5
  <2> QED BY <2>6 DEF before
<1> HIDE DEF eligible
<1>7. Chained(key, eligible)
  BY <1>2, <1>6, ChainedMeans
<1>8. \A o \in some : 1 .. o - 1 \subseteq some
  BY <1>3
<1> QED BY <1>2, <1>7, <1>8 DEF Linked, eligible

LEMMA LineageStarts ==
  ASSUME PInv, Start, ReindexOptions = {FALSE}, DesignComesFirst,
         \A f \in FileNames : files[f] # NoCheckpoint => FileLinked(files[f])
  PROVE  RunLinked'
<1> USE DEF PInv
<1>0. files \in FilesType /\ index \in IndexType
  BY DEF IInv, TypeOK, FilesType, IndexType
<1>1. PICK session \in Sessions, reindex \in ReindexOptions :
        \/ \E cont \in BOOLEAN : resumeFromCheckpoint(session, cont, reindex)
        \/ \E key \in Keys, hints \in SUBSET Paths : \E cont \in ContinueOptions[key] :
             \/ \E cache \in CacheOptions :
                  ExecuteFresh(session, key, hints, cache, cont, reindex)
             \/ ExecuteFromOwnCheckpoint(session, key, hints, cont, reindex)
             \/ ExecuteFromOtherSession(session, key, hints, cont, reindex)
  BY DEF Start
<1>2. reindex = FALSE
  OBVIOUS
\* What a checkpoint of a plan that fails fast leads to.
<1>3. ASSUME NEW c \in Checkpoint, FileLinked(c), FailsFast(c.key)
      PROVE  LET done == computeCompletedPhases(c.results)
             IN  /\ ~ c.cont
                 /\ Linked(c.key, c.results)
                 /\ done = {} => c.ctx.parent = NoHandoff
                 /\ done \cap DesignOrders(c.key) = {} => c.ctx.analysis = NoHandoff
  BY <1>3 DEF FileLinked, Leads, Tip
<1>4. ASSUME NEW cont \in BOOLEAN, resumeFromCheckpoint(session, cont, reindex)
      PROVE  RunLinked'
  <2> DEFINE c == load(files, session)
  <2>1. PICK f \in FileNames : c = files[f] /\ c # NoCheckpoint
    BY <1>4, StoreAssumption DEF resumeFromCheckpoint, load
  <2>2. c \in Checkpoint /\ FileLinked(c)
    BY <1>0, <2>1 DEF FilesType
  <2>3. /\ executeInternal(c.session, c.key, c.results, c.ctx, cont, FALSE)
        /\ cont \in ContinueOptions[c.key] \cup {c.cont}
    BY <1>2, <1>4 DEF resumeFromCheckpoint
  <2> HIDE DEF c
  <2>4. c.key \in Keys /\ c.results \in Results(c.key)
    BY <2>2, CheckpointFields
  <2>5. FailsFast(c.key) => ~ cont
    BY <1>3, <2>2, <2>3 DEF FailsFast
  <2> QED BY <1>3, <2>2, <2>3, <2>4, <2>5, LineageBegins
<1>5. ASSUME NEW key \in Keys, NEW hints \in SUBSET Paths,
             NEW cont \in ContinueOptions[key], NEW cache \in CacheOptions,
             ExecuteFresh(session, key, hints, cache, cont, reindex)
      PROVE  RunLinked'
  <2>1. cont \in BOOLEAN /\ (FailsFast(key) => ~ cont)
    BY RequestAssumption DEF FailsFast
  <2>2. executeInternal(session, key, NoResults(key), RequestContext(hints), cont, FALSE)
    BY <1>2, <1>5 DEF ExecuteFresh
  <2>3. /\ RequestContext(hints).parent = NoHandoff
        /\ RequestContext(hints).analysis = NoHandoff
    BY DEF RequestContext
  <2> QED BY <2>1, <2>2, <2>3, EmptyResults, EmptyLinked, LineageBegins
<1>6. ASSUME NEW key \in Keys, NEW hints \in SUBSET Paths,
             NEW cont \in ContinueOptions[key],
             ExecuteFromOwnCheckpoint(session, key, hints, cont, reindex)
      PROVE  RunLinked'
  <2> DEFINE c   == resolveReusableCheckpoint(session, key, hints)
             ctx == [c.ctx EXCEPT !.paths = @ \cup hints]
  <2>1. c # NoCheckpoint
    BY <1>6 DEF ExecuteFromOwnCheckpoint
  <2>2. /\ c \in Checkpoint /\ c.key = key
        /\ \E f \in FileNames : files[f] = c /\ files[f] # NoCheckpoint
    BY <1>0, <2>1, ResolvedCheckpoint
  <2>3. cont \in BOOLEAN /\ (FailsFast(key) => ~ cont)
    BY RequestAssumption DEF FailsFast
  <2>4. executeInternal(session, key, c.results, ctx, cont, FALSE)
    BY <1>2, <1>6 DEF ExecuteFromOwnCheckpoint
  <2> HIDE DEF c
  <2>5. c.results \in Results(key) /\ c.ctx \in Context /\ FileLinked(c)
    BY <2>2, CheckpointFields
  <2>6. ctx.parent = c.ctx.parent /\ ctx.analysis = c.ctx.analysis
    BY <2>5 DEF Context
  <2> HIDE DEF ctx
  <2> QED BY <1>3, <2>2, <2>3, <2>4, <2>5, <2>6, LineageBegins
<1>7. ASSUME NEW key \in Keys, NEW hints \in SUBSET Paths,
             NEW cont \in ContinueOptions[key],
             ExecuteFromOtherSession(session, key, hints, cont, reindex)
      PROVE  RunLinked'
  <2> DEFINE c        == resolveReusableCheckpoint(session, key, hints)
             eligible == selectCrossSessionPlanningPhases(key, c.results)
             kept     == applyReindexPolicy(eligible, reindexStart(key, FALSE))
             ctx      == rebuildContextFromPhaseArtifacts(kept, hints)
             done     == computeCompletedPhases(eligible)
  <2>1. c # NoCheckpoint
    BY <1>7 DEF ExecuteFromOtherSession
  <2>2. /\ c \in Checkpoint /\ c.key = key
        /\ \E f \in FileNames : files[f] = c /\ files[f] # NoCheckpoint
    BY <1>0, <2>1, ResolvedCheckpoint
  <2>3. cont \in BOOLEAN /\ (FailsFast(key) => ~ cont)
    BY RequestAssumption DEF FailsFast
  <2>4. executeInternal(session, key, eligible, ctx, cont, FALSE)
    BY <1>2, <1>7 DEF ExecuteFromOtherSession
  <2> HIDE DEF c
  <2>5. c.results \in Results(key) /\ FileLinked(c)
    BY <2>2, CheckpointFields
  <2>6. eligible \in Results(key)
    BY <2>5 DEF selectCrossSessionPlanningPhases, Results
  <2>7. done = computeCompletedPhases(c.results) \cap DesignOrders(key)
    BY <2>5, SelectedPhases
  <2>8. FailsFast(key) => Linked(key, eligible)
    BY <2>2, <2>5, DesignLinked DEF FileLinked
  <2> HIDE DEF eligible
  <2>9. done = {} => ctx.parent = NoHandoff /\ ctx.analysis = NoHandoff
    <3>1. reindexStart(key, FALSE) \in Nat
      BY ReindexStartType
    <3>2. computeCompletedPhases(kept) = {o \in done : o < reindexStart(key, FALSE)}
      BY <2>6, <3>1, KeptPhases
    <3>3. done = {} => computeCompletedPhases(kept) = {}
      BY <3>2
    <3> HIDE DEF kept
    <3> QED BY <3>3 DEF rebuildContextFromPhaseArtifacts
  <2>10. done \cap DesignOrders(key) = done
    BY <2>7
  <2> HIDE DEF ctx
  <2> QED BY <2>3, <2>4, <2>6, <2>8, <2>9, <2>10, LineageBegins
<1> QED BY <1>1, <1>4, <1>5, <1>6, <1>7

LEMMA LineageStep ==
  ASSUME ReindexOptions = {FALSE}, DesignComesFirst, PInv, Lineage, [Next]_vars
  PROVE  Lineage'
<1> SUFFICES ASSUME faults' = 0
             PROVE  /\ \A f \in FileNames : files'[f] # NoCheckpoint => FileLinked(files'[f])
                    /\ RunLinked'
  BY DEF Lineage
<1>1. faults = 0 /\ ~ SaveThrowsInTry /\ ~ SaveThrows
  <2>1. faults \in Nat
    BY RequestAssumption DEF PInv, IInv, TypeOK
  <2>2. faults' = faults \/ faults' = faults + 1
    <3>1. Start => faults' = faults
      BY RunBegins DEF executeInternal
    <3> QED BY <3>1 DEF Next, Advance, vars, ReusePhase, CompletePhase, FailPhase, LeaveLoop,
                        WriteCheckpoint, WriteIndex, SaveThrowsInTry, SaveThrows, Crash
  <2>3. faults = 0
    BY <2>1, <2>2
  <2> QED BY <2>3 DEF SaveThrowsInTry, SaveThrows
<1>2. RunLinked /\ \A f \in FileNames : files[f] # NoCheckpoint => FileLinked(files[f])
  BY <1>1 DEF Lineage
<1>3. CASE files' = files
  <2>1. RunLinked'
    <3>1. CASE Start
      BY <1>2, <3>1, LineageStarts
    <3>2. CASE ReusePhase
      BY <1>2, <3>2, LineageReuse
    <3>3. CASE CompletePhase
      BY <1>2, <3>3, LineageComplete
    <3>4. CASE FailPhase
      BY <1>2, <3>4, LineageFail
    <3>5. CASE LeaveLoop \/ WriteCheckpoint \/ WriteIndex
      BY <1>2, <3>5, LineageStays
    <3>6. CASE Crash
      BY <3>6 DEF Crash, RunLinked
    <3>7. CASE UNCHANGED vars
      <4>1. pc' = pc /\ run' = run
        BY <3>7 DEF vars
      <4>2. PhasesAhead' = PhasesAhead /\ Passed' = Passed
        BY <4>1 DEF PhasesAhead, Passed
      <4> QED BY <1>2, <4>1, <4>2 DEF RunLinked
    <3> QED BY <1>1, <3>1, <3>2, <3>3, <3>4, <3>5, <3>6, <3>7 DEF Next, Advance
  <2> QED BY <1>2, <1>3, <2>1
<1>4. CASE WriteCheckpoint
  <2>1. RunLinked'
    BY <1>2, <1>4, LineageStays
  <2>2. FileLinked(CheckpointOfRun)
    BY <1>2, <1>4, LinkedCheckpoint DEF WriteCheckpoint
  <2>3. \A f \in FileNames : files'[f] = files[f] \/ files'[f] = CheckpointOfRun
    BY <1>4 DEF WriteCheckpoint, PInv, IInv, TypeOK
  <2> QED BY <1>2, <2>1, <2>2, <2>3
<1>5. CASE Crash
  <2>1. \A f \in FileNames : files'[f] # NoCheckpoint => files'[f] = files[f]
    BY <1>5, BrokenWriteBelongs DEF Crash, PInv
  <2>2. RunLinked'
    BY <1>5 DEF Crash, RunLinked
  <2> QED BY <1>2, <2>1, <2>2
<1>6. files' = files \/ WriteCheckpoint \/ Crash
  <2>1. Start => files' = files
    BY RunBegins DEF executeInternal
  <2> QED BY <1>1, <2>1 DEF Next, Advance, vars, ReusePhase, CompletePhase, FailPhase,
                            LeaveLoop, WriteIndex
<1> QED BY <1>3, <1>4, <1>5, <1>6

\* Without reindexing and until a save throws, the results of a plan that
\* designs first and whose runs stop at the first failure form one chain,
\* whatever crashed and whoever resumed or took over what (the parent handoff
\* and the analysis that executeInternal hands on).
THEOREM LineageIsContinuous ==
  ASSUME ReindexOptions = {FALSE}, DesignComesFirst
  PROVE  Spec => []LineageContinuity
<1>1. Init => Lineage
  BY DEF Init, Lineage, RunLinked
<1>2. PInv /\ Lineage /\ [Next]_vars => Lineage'
  BY LineageStep
<1>3. Lineage => LineageContinuity
  BY DEF Lineage, LineageContinuity, FileLinked, FailsFast, Linked
<1> QED BY <1>1, <1>2, <1>3, AlwaysPInv, PTL DEF Spec


\* Plans made by the engine design first, so that the theorem above is about all
\* of them (plan, STATIC_PHASES, QUICK_PHASES and PHASE_METADATA).
THEOREM EngineDesignsFirst ==
  ASSUME \A key \in Keys : \E config \in Config : \E request :
           IsRequest(request) /\ Phases[key] = AgentsOf(plan(config, request).phases)
  PROVE  DesignComesFirst
<1> SUFFICES ASSUME NEW key \in Keys, NEW o \in DesignOrders(key), NEW p \in 1 .. o - 1
             PROVE  p \in DesignOrders(key)
  BY DEF DesignComesFirst
<1>1. PICK phases \in {StaticPhases, QuickPhases} : Phases[key] = AgentsOf(phases)
  BY PlannedPhases
<1>2. o \in DOMAIN phases /\ AgentOf(phases[o]) = "scout"
  BY <1>1 DEF DesignOrders, Orders, AgentsOf, StaticPhases, QuickPhases
<1>3. p \in DOMAIN phases /\ AgentOf(phases[p]) = "scout"
  <2>1. CASE phases = StaticPhases
    BY <1>2, <2>1 DEF StaticPhases, AgentOf
  <2>2. CASE phases = QuickPhases
    BY <1>2, <2>2 DEF QuickPhases, AgentOf
  <2> QED BY <2>1, <2>2
<1>4. Len(Phases[key]) = Len(phases) /\ DOMAIN phases = 1 .. Len(phases)
  BY <1>1 DEF AgentsOf, StaticPhases, QuickPhases
<1> QED BY <1>1, <1>3, <1>4 DEF DesignOrders, Orders, AgentsOf

=============================================================================
