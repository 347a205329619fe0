--------------------------- MODULE CheckpointStore ---------------------------
(***************************************************************************)
(* src/workflow/checkpoint-store.ts: the checkpoint files and the index of *)
(* planning artifacts, as functions of their contents. A file that is      *)
(* missing, is not JSON or does not satisfy the schema loads as undefined, *)
(* here NoCheckpoint; an unreadable index loads as the empty index.        *)
(*                                                                         *)
(* save puts its entry first and drops every other entry of the same cache *)
(* key, and loadReusable only drops entries, so the index holds at most    *)
(* one entry per key and is modelled as a partial function on Keys. The    *)
(* number of the run that wrote an entry stands for its updatedAt.         *)
(***************************************************************************)
EXTENDS WorkflowPlan

CONSTANTS
  FileNames,       \* names of checkpoint files
  CheckpointFile,  \* toCheckpointFileName: not injective, "a.b" and "a:b" meet
  RetentionLimit,  \* planningArtifactRetentionLimit, at least 1
  NoCheckpoint,    \* what load returns for an absent or unreadable file
  NoIndexEntry     \* no index entry for a key

ASSUME StoreAssumption ==
  /\ CheckpointFile \in [Sessions -> FileNames]
  /\ RetentionLimit \in Nat \ {0}

IndexEntry == [session : Sessions, at : Nat]

Checkpoint ==
  {c \in [session : Sessions, key : Keys, cont : BOOLEAN,
          results : AnyResults, ctx : Context] : c.results \in Results(c.key)}

ASSUME AbsenceAssumption ==
  /\ NoCheckpoint \notin Checkpoint
  /\ NoIndexEntry \notin IndexEntry

EmptyIndex == [key \in Keys |-> NoIndexEntry]

load(files, session) == files[CheckpointFile[session]]

\* The planning-artifact cache key of a checkpoint is the key of its plan.
Reusable(files, index, key) ==
  /\ index[key] # NoIndexEntry
  /\ load(files, index[key].session) # NoCheckpoint
  /\ load(files, index[key].session).key = key

loadReusable(files, index, key) ==
  IF Reusable(files, index, key) THEN load(files, index[key].session)
                                 ELSE NoCheckpoint

\* loadReusable drops the entries it found to be stale.
IndexAfterLoad(files, index, key) ==
  IF Reusable(files, index, key) THEN index
                                 ELSE [index EXCEPT ![key] = NoIndexEntry]

\* Only the RetentionLimit most recent entries are kept.
normalizePlanningArtifactEntries(index) ==
  LET newer(key) == {k \in Keys : /\ index[k] # NoIndexEntry
                                  /\ index[k].at > index[key].at}
  IN  [key \in Keys |->
         IF index[key] # NoIndexEntry /\ Cardinality(newer(key)) < RetentionLimit
         THEN index[key] ELSE NoIndexEntry]

IndexAfterSave(index, key, session, at) ==
  normalizePlanningArtifactEntries(
    [index EXCEPT ![key] = [session |-> session, at |-> at]])

=============================================================================
