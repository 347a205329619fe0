---------------------------- MODULE PlanningIndex ----------------------------
(***************************************************************************)
(* FileD3WorkflowCheckpointStore (src/workflow/checkpoint-store.ts) used   *)
(* by several processes on one workflow root: save writes the checkpoint   *)
(* and then reads, changes and writes planning-artifacts/index.json;       *)
(* loadReusable reads the index, loads what it names, and writes the index *)
(* again without what it found to be stale. Nothing locks either file, and *)
(* a write empties the file before it fills it.                            *)
(*                                                                         *)
(* Here the index is the list of entries that is in the file, in its       *)
(* order, where CheckpointStore has at most one entry for each plan and no *)
(* order; IndexIsSound says that nothing is lost by that.                 *)
(*                                                                         *)
(* A file that is missing, or that a write has emptied, loads as           *)
(* undefined, here NoCheckpoint; an index like that reads as empty.        *)
(*                                                                         *)
(* Bounds of the model: MaxCalls calls in all, and a clock that shows      *)
(* 0 .. MaxTime.                                                           *)
(***************************************************************************)
EXTENDS Ordering

CONSTANTS
  Processes,
  Sessions,
  Keys,            \* cache keys: the identities of plans
  FileNames,
  CheckpointFile,  \* toCheckpointFileName
  RetentionLimit,
  NoCheckpoint,
  NoCall,          \* a process that is in neither save nor loadReusable
  MaxCalls,
  MaxTime

ASSUME IndexAssumption ==
  /\ CheckpointFile \in [Sessions -> FileNames]
  /\ RetentionLimit \in Nat \ {0}
  /\ MaxCalls \in Nat
  /\ MaxTime \in Nat

VARIABLES
  files,    \* the checkpoint files
  index,    \* the entries of the index file
  call,     \* call[p]: the call the process is in
  now,      \* the clock all processes read
  calls,    \* how many calls have begun
  written,  \* history: what has been written whole into a checkpoint file
  kept,     \* history: the index if calls did not disturb one another
  exposed   \* history: whether they did, or one was interrupted

vars == <<files, index, call, now, calls, written, kept, exposed>>

\* What tells checkpoints, and index entries, apart.
Entry == [key : Keys, session : Sessions, at : 0 .. MaxTime]

\* entry: what save writes, or the plan loadReusable looks for. read: the
\* index as the call read it. left: the matches loadReusable has
\* not loaded yet, stale: the sessions of those it could not use. overtaken
\* is history: another process has begun to write the index since.
Call ==
  [op        : {"save", "lookup"},
   pc        : {"empty file", "fill file", "read", "load", "empty index", "fill index"},
   entry     : Entry \cup [key : Keys],
   read      : Seq(Entry),
   left      : Seq(Entry),
   stale     : SUBSET Sessions,
   overtaken : BOOLEAN]

ASSUME AbsenceAssumption == NoCheckpoint \notin Entry /\ NoCall \notin Call

TypeOK ==
  /\ files \in [FileNames -> Entry \cup {NoCheckpoint}]
  /\ index \in Seq(Entry)
  /\ call \in [Processes -> Call \cup {NoCall}]
  /\ \A p \in Processes : call[p] # NoCall =>
       /\ call[p].op = "save" <=> call[p].entry \in Entry
       /\ call[p].pc \in {"empty file", "fill file"} => call[p].op = "save"
       /\ call[p].pc = "load" => call[p].op = "lookup" /\ call[p].left # <<>>
       /\ call[p].op = "lookup" /\ call[p].pc \in {"empty index", "fill index"} =>
            call[p].left = <<>> /\ call[p].stale # {}
  /\ now \in 0 .. MaxTime
  /\ calls \in 0 .. MaxCalls
  /\ written \subseteq Entry
  /\ kept \in Seq(Entry)
  /\ exposed \in BOOLEAN

Init ==
  /\ files = [f \in FileNames |-> NoCheckpoint]
  /\ index = <<>>
  /\ call = [p \in Processes |-> NoCall]
  /\ now = 0
  /\ calls = 0
  /\ written = {}
  /\ kept = <<>>
  /\ exposed = FALSE

-----------------------------------------------------------------------------
(* The entries of an index.                                                *)

\* The entries at the positions that ahead orders.
Arranged(entries, ahead) ==
  LET place == InOrder(ahead) IN [n \in DOMAIN place |-> entries[place[n]]]

\* The entries at some positions, in the order they are in.
Listed(entries, positions) ==
  Arranged(entries, [i \in positions |-> {j \in positions : j < i}])

OfOtherPlans(entries, key) ==
  Listed(entries, {i \in DOMAIN entries : entries[i].key # key})

\* Array.sort is stable.
NewestFirst(entries) ==
  Arranged(entries, [i \in DOMAIN entries |->
    {j \in DOMAIN entries : \/ entries[j].at > entries[i].at
                            \/ entries[j].at = entries[i].at /\ j < i}])

SameSubject(d, e) == d.key = e.key /\ d.session = e.session

\* The first entry of each plan and session.
Deduplicated(entries) ==
  Listed(entries, {i \in DOMAIN entries :
                     \A j \in 1 .. i - 1 : ~ SameSubject(entries[j], entries[i])})

\* Mutant: the limit is off by one.
normalizePlanningArtifactEntries_OneMore(entries) ==
  slice(Deduplicated(NewestFirst(entries)), RetentionLimit + 1)

normalizePlanningArtifactEntries(entries) ==
  slice(Deduplicated(NewestFirst(entries)), RetentionLimit)

\* Reading normalizes too.
readPlanningArtifactIndex == normalizePlanningArtifactEntries(index)

\* What save writes: its entry instead of all others of the plan.
IndexWith(e, entries) ==
  normalizePlanningArtifactEntries(<<e>> \o OfOtherPlans(entries, e.key))

\* Mutant: the entries other plans have of the stale sessions go too.
IndexWithout_OtherPlans(key, stale, entries) ==
  normalizePlanningArtifactEntries(
    Listed(entries, {i \in DOMAIN entries : entries[i].session \notin stale}))

\* What loadReusable writes: the index without the stale entries of the plan.
IndexWithout(key, stale, entries) ==
  normalizePlanningArtifactEntries(
    Listed(entries, {i \in DOMAIN entries :
                       entries[i].key = key => entries[i].session \notin stale}))

\* The entries of a plan, the most recent one first.
Matches(entries, key) ==
  NewestFirst(Listed(entries, {i \in DOMAIN entries : entries[i].key = key}))

-----------------------------------------------------------------------------
(* The calls.                                                              *)

At(p, pc) == call[p] # NoCall /\ call[p].pc = pc

Others(p) == Processes \ {p}

Begin(p, op, pc, entry) ==
  /\ call[p] = NoCall
  /\ calls < MaxCalls
  /\ calls' = calls + 1
  /\ call' = [call EXCEPT ![p] = [op |-> op, pc |-> pc, entry |-> entry,
                                  read |-> <<>>, left |-> <<>>, stale |-> {},
                                  overtaken |-> FALSE]]
  /\ UNCHANGED <<files, index, now, written, kept, exposed>>

\* Mutant: the index is written without the file.
BeginSave_IndexFirst(p) ==
  \E key \in Keys, session \in Sessions :
    Begin(p, "save", "read", [key |-> key, session |-> session, at |-> now])

\* save of a checkpoint that satisfies its schema; any other throws before it
\* touches a file. Its updatedAt is the time of the call.
BeginSave(p) ==
  \E key \in Keys, session \in Sessions :
    Begin(p, "save", "empty file", [key |-> key, session |-> session, at |-> now])

EmptyFile(p) ==
  /\ At(p, "empty file")
  /\ files' = [files EXCEPT ![CheckpointFile[call[p].entry.session]] = NoCheckpoint]
  /\ call' = [call EXCEPT ![p] = [call[p] EXCEPT !.pc = "fill file"]]
  /\ UNCHANGED <<index, now, calls, written, kept, exposed>>

FillFile(p) ==
  /\ At(p, "fill file")
  /\ files' = [files EXCEPT ![CheckpointFile[call[p].entry.session]] = call[p].entry]
  /\ written' = written \cup {call[p].entry}
  /\ call' = [call EXCEPT ![p] = [call[p] EXCEPT !.pc = "read"]]
  /\ UNCHANGED <<index, now, calls, kept, exposed>>

\* Whether a read of the index now finds it in the middle of a write.
Torn(p) == \E q \in Others(p) : At(q, "fill index")

ReadIndexToSave(p) ==
  /\ At(p, "read")
  /\ call[p].op = "save"
  /\ call' = [call EXCEPT ![p] = [call[p] EXCEPT !.pc = "empty index",
                                                 !.read = readPlanningArtifactIndex]]
  /\ exposed' = (exposed \/ Torn(p))
  /\ UNCHANGED <<files, index, now, calls, written, kept>>

BeginLookup(p) == \E key \in Keys : Begin(p, "lookup", "read", [key |-> key])

\* The matches are tried from the most recent one on. Without a match the
\* index is not written.
ReadIndexToLookUp(p) ==
  /\ At(p, "read")
  /\ call[p].op = "lookup"
  /\ LET found == Matches(readPlanningArtifactIndex, call[p].entry.key)
     IN  call' = [call EXCEPT ![p] =
                    IF found = <<>> THEN NoCall
                    ELSE [call[p] EXCEPT !.pc = "load", !.left = found,
                                         !.read = readPlanningArtifactIndex]]
  /\ UNCHANGED <<files, index, now, calls, written, kept, exposed>>

Loaded(p) == files[CheckpointFile[Head(call[p].left).session]]

Usable(p) == Loaded(p) # NoCheckpoint /\ Loaded(p).key = call[p].entry.key

\* Mutant: the index is written after every hit.
LoadUsable_Writes(p) ==
  /\ At(p, "load")
  /\ Usable(p)
  /\ call' = [call EXCEPT ![p] = [call[p] EXCEPT !.pc = "empty index", !.left = <<>>]]
  /\ UNCHANGED <<files, index, now, calls, written, kept, exposed>>

\* The checkpoint is returned; the index is written only if others were stale.
LoadUsable(p) ==
  /\ At(p, "load")
  /\ Usable(p)
  /\ call' = [call EXCEPT ![p] =
                IF call[p].stale = {} THEN NoCall
                ELSE [call[p] EXCEPT !.pc = "empty index", !.left = <<>>]]
  /\ UNCHANGED <<files, index, now, calls, written, kept, exposed>>

LoadStale(p) ==
  /\ At(p, "load")
  /\ ~ Usable(p)
  /\ call' = [call EXCEPT ![p] = [call[p] EXCEPT
                !.stale = call[p].stale \cup {Head(call[p].left).session},
                !.left = Tail(call[p].left),
                !.pc = IF Len(call[p].left) = 1 THEN "empty index" ELSE "load"]]
  /\ UNCHANGED <<files, index, now, calls, written, kept, exposed>>

EmptyIndex(p) ==
  /\ At(p, "empty index")
  /\ index' = <<>>
  /\ call' = [q \in Processes |->
                IF q = p THEN [call[p] EXCEPT !.pc = "fill index"]
                ELSE IF call[q] = NoCall THEN NoCall
                ELSE [call[q] EXCEPT !.overtaken =
                        call[q].overtaken \/ call[q].pc \in {"load", "empty index"}]]
  /\ exposed' = (exposed \/ call[p].overtaken)
  /\ UNCHANGED <<files, now, calls, written, kept>>

\* An entry goes before those that are not newer.
Inserted(e, entries) ==
  LET newer == Cardinality({i \in DOMAIN entries : entries[i].at > e.at})
  IN  SubSeq(entries, 1, newer) \o <<e>> \o SubSeq(entries, newer + 1, Len(entries))

\* kept is what the calls would make of the index one after the other.
KeptAfter(c) ==
  LET e     == c.entry
      other == OfOtherPlans(kept, e.key)
  IN  IF c.op = "lookup" THEN other ELSE slice(Inserted(e, other), RetentionLimit)

FillIndex(p) ==
  /\ At(p, "fill index")
  /\ index' = IF call[p].op = "save"
              THEN IndexWith(call[p].entry, call[p].read)
              ELSE IndexWithout(call[p].entry.key, call[p].stale, call[p].read)
  /\ kept' = KeptAfter(call[p])
  /\ call' = [call EXCEPT ![p] = NoCall]
  /\ UNCHANGED <<files, now, calls, written, exposed>>

\* The process dies, or a write throws: the files stay as they are.
Interrupt(p) ==
  /\ call[p] # NoCall
  /\ call' = [call EXCEPT ![p] = NoCall]
  /\ exposed' = (exposed \/ call[p].pc = "fill index")
  /\ UNCHANGED <<files, index, now, calls, written, kept>>

Tick ==
  /\ now < MaxTime
  /\ now' = now + 1
  /\ UNCHANGED <<files, index, call, calls, written, kept, exposed>>

Next ==
  \/ Tick
  \/ \E p \in Processes :
       \/ BeginSave(p)
       \/ EmptyFile(p)
       \/ FillFile(p)
       \/ ReadIndexToSave(p)
       \/ BeginLookup(p)
       \/ ReadIndexToLookUp(p)
       \/ LoadUsable(p)
       \/ LoadStale(p)
       \/ EmptyIndex(p)
       \/ FillIndex(p)
       \/ Interrupt(p)

Spec == Init /\ [][Next]_vars

-----------------------------------------------------------------------------

\* Newest first, within the limit, and one entry for each plan: loadReusable
\* never needs the second match it is prepared for.
IndexIsNormal ==
  /\ Len(index) <= RetentionLimit
  /\ \A i, j \in DOMAIN index : i < j =>
       index[i].at >= index[j].at /\ index[i].key # index[j].key

\* Every entry tells of a checkpoint of that session, plan and time that has
\* been written whole.
EntriesAreBacked == \A i \in DOMAIN index : index[i] \in written

\* However the writes of several processes meet, and whatever is interrupted,
\* the index on disk is normal and backed by checkpoints (the order of the two
\* writes of save, normalizePlanningArtifactEntries).
IndexIsSound == IndexIsNormal /\ EntriesAreBacked

\* The index forgets a plan only for a reason: unless a write of it was
\* interrupted, read halfway, or made from a read that another write has
\* overtaken, it holds for each plan what was saved last, but for the plans
\* past the limit and those a lookup has found without their checkpoint (save
\* and loadReusable from their reads to their writes).
LossNeedsARace ==
  (~ exposed /\ \A p \in Processes : ~ At(p, "fill index")) => index = kept

=============================================================================
