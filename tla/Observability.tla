--------------------------- MODULE Observability ---------------------------
(***************************************************************************)
(* What Agent P records about itself, in JSONL streams that any number of  *)
(* processes append to and prune: the hooks with their audit buffer        *)
(* (src/src/hooks), the telemetry of sessions and of tokens                *)
(* (src/src/telemetry), the progress reports, the patterns and the skill   *)
(* activations (src/src/evals), and the order in which a command writes    *)
(* them.                                                                   *)
(*                                                                         *)
(* A path is a stream and the name of a file in it. A line stands for the  *)
(* number of the command that wrote it, its timestamp and its outcome.     *)
(* Time is counted in days. Bounds of the model: MaxOps, MaxPrunes,        *)
(* MaxCommands, MaxTime, MaxFaults.                                        *)
(***************************************************************************)
EXTENDS HookPolicy, Sequences, FiniteSets, Functions

CONSTANTS
  Procs,         \* processes, each running one command at a time
  Sessions,      \* session ids a hook accepts (sessionIdSchema)
  SafeSessions,  \* those that sanitizePathIdentifier accepts as well
  Skill,         \* the name of a skill
  Ages,          \* values of maxAgeDays
  AuditLimit,    \* maxEntries of the audit buffer
  MaxOps,        \* bound: hooks and recorded runs
  MaxPrunes,     \* bound: prunes
  MaxCommands,   \* bound: these and failures, all together
  MaxTime,       \* bound: the last day
  MaxFaults,     \* bound: failed writes and crashes
  NoFile

Days == 0 .. MaxTime

ASSUME ObservabilityAssumption ==
  /\ SafeSessions \subseteq Sessions
  /\ Ages \subseteq Nat
  /\ AuditLimit \in Nat \ {0}
  /\ {MaxOps, MaxPrunes, MaxCommands, MaxTime, MaxFaults} \subseteq Nat

SessionStreams == {"tokens", "sessions", "progress"}
DayStreams     == {"daily", "metrics", "patterns"}
Streams        == SessionStreams \cup DayStreams \cup {"skills"}

Paths == (SessionStreams \X Sessions) \cup (DayStreams \X Days)
           \cup {<<"skills", Skill>>}

\* The directories that debug prune goes through, in its order.
PrunedStreams == <<"tokens", "daily", "progress", "skills">>

Recorders == {"post_tool_use", "agent_run", "search_run", "skill"}
Hooks     == {"hook", "post_tool_use"}
Kinds     == Recorders \cup Hooks

Outcomes == PreDecisions \cup {"block", "skipped", "executed", "hits", "error",
                               "completed", "failed", "withheld"}

\* Mutant: the cost event after the run.
recordAgentExecution_CostLast(s, day) ==
  << <<"sessions", s>>, <<"metrics", day>>, <<"tokens", s>>, <<"daily", day>>, <<"progress", s>> >>

\* The cost event before the run in recordAgentRun, the report after both.
recordAgentExecution(s, day) ==
  << <<"tokens", s>>, <<"daily", day>>, <<"sessions", s>>, <<"metrics", day>>, <<"progress", s>> >>

\* The files a command appends to, in the order of its calls: after the audit of
\* PostToolUseHook.execute come its telemetry and then its pattern.
Targets(kind, s, day) ==
  CASE kind = "post_tool_use" -> << <<"sessions", s>>, <<"metrics", day>>, <<"patterns", day>> >>
    [] kind = "agent_run"     -> recordAgentExecution(s, day)
    [] kind = "search_run"    -> << <<"sessions", s>>, <<"metrics", day>> >>
    [] kind = "skill"         -> << <<"skills", Skill>> >>
    [] OTHER                  -> << >>

VARIABLES
  files,      \* contents of every path, or NoFile
  run,        \* the command each process is running
  audit,      \* the InMemoryHookAuditSink of each process
  now,
  prunes,     \* how often debug prune was started
  ops,        \* history: the hooks and recorded runs so far
  exposed,    \* history: lines that a torn line, a prune or a crash may have cost
  faults

vars == <<files, run, audit, now, prunes, ops, exposed, faults>>

Lines == [op : 1 .. MaxOps, ts : Days, what : Outcomes]

\* A file, whether its last line has no end, and the processes that have it open
\* to write. Who opened a file that was removed since is not among them.
File == [lines : Seq(Lines), torn : BOOLEAN, open : SUBSET Procs]

ASSUME FileAssumption == NoFile \notin File

Event == [op : 1 .. MaxOps, what : Outcomes]

Op == [proc : Procs, kind : Kinds, ts : Days, what : Outcomes,
       status : {"running", "done", "threw", "killed"}]

Idle == [kind |-> "idle", op |-> 0, session |-> Skill, what |-> "skipped", ts |-> 0, todo |-> << >>,
         age |-> 0, dirs |-> << >>, cutoff |-> 0, listed |-> {}, read |-> {}, kept |-> << >>,
         opened |-> FALSE]

Commands ==
  [kind : Kinds \cup {"prune", "idle"}, op : 0 .. MaxOps,
   session : Sessions \cup {Skill}, what : Outcomes, ts : Days, todo : Seq(Paths),
   age : Ages \cup {0}, dirs : Seq(Streams), cutoff : Int, listed : SUBSET Paths,
   read : SUBSET Paths, kept : Seq(Lines), opened : BOOLEAN]

TypeOK ==
  /\ files \in [Paths -> File \cup {NoFile}]
  /\ run \in [Procs -> Commands]
  /\ audit \in [Procs -> Seq(Event)]
  /\ \A p \in Procs : Len(audit[p]) <= AuditLimit
  /\ now \in Days
  /\ prunes \in 0 .. MaxPrunes
  /\ ops \in Seq(Op)
  /\ Len(ops) <= MaxOps
  /\ exposed \subseteq (1 .. MaxOps) \X Paths
  /\ faults \in 0 .. MaxFaults

Init ==
  /\ files = [q \in Paths |-> NoFile]
  /\ run = [p \in Procs |-> Idle]
  /\ audit = [p \in Procs |-> << >>]
  /\ now = 0
  /\ prunes = 0
  /\ ops = << >>
  /\ exposed = {}
  /\ faults = 0

-----------------------------------------------------------------------------
(* Commands.                                                               *)

Begin(p, kind, what, status) ==
  /\ run[p] = Idle
  /\ Len(ops) < MaxOps /\ Len(ops) + prunes + faults < MaxCommands
  /\ ops' = Append(ops, [proc |-> p, kind |-> kind, ts |-> now,
                         what |-> what, status |-> status])

End(p, status) ==
  /\ run' = [run EXCEPT ![p] = Idle]
  /\ ops' = IF run[p].op = 0 THEN ops ELSE [ops EXCEPT ![run[p].op].status = status]

\* Mutant: the buffer keeps its oldest events.
write_KeepsOldest(buffer, event) ==
  IF Len(buffer) < AuditLimit THEN Append(buffer, event) ELSE buffer

\* Mutant: the buffer has no limit.
write_Grows(buffer, event) == Append(buffer, event)

\* InMemoryHookAuditSink.write: the oldest event makes room.
write(buffer, event) ==
  IF Len(buffer) < AuditLimit THEN Append(buffer, event)
                              ELSE Append(Tail(buffer), event)

Audited(p, what) ==
  audit' = [audit EXCEPT ![p] = write(@, [op |-> Len(ops) + 1, what |-> what])]

\* What the hooks may decide; a disabled hook is skipped, and a notification that
\* the policy does not allow is withheld.
PreOutcomes ==
  {"skipped"} \cup {evaluatePreToolUse(policy, tool, text, mode, blocked) :
                      policy \in Policies, tool \in Tools, text \in SUBSET Patterns,
                      mode \in {"enforce", "dry-run"}, blocked \in SUBSET Patterns}

PostOutcomes ==
  {"skipped"} \cup {evaluatePostToolUse(policy, tool, response, blocks) :
                      policy \in Policies, tool \in Tools,
                      response \in SUBSET Patterns, blocks \in SUBSET Patterns}

StopOutcomes ==
  {"skipped"} \cup {evaluateStop(policy, active, signalled) :
                      policy \in Policies, active \in BOOLEAN, signalled \in BOOLEAN}

NotificationOutcomes ==
  {"skipped"} \cup {IF evaluateNotification(policy, text) THEN "executed" ELSE "withheld" :
                      policy \in Policies, text \in SUBSET Patterns}

\* A hook that records nothing but its audit event returns at once.
PreToolUse(p) ==
  /\ \E what \in PreOutcomes :
       /\ Begin(p, "hook", what, "done")
       /\ Audited(p, what)
  /\ UNCHANGED <<files, run, now, prunes, exposed, faults>>

SessionStart(p) ==
  /\ \E what \in {"executed", "skipped"} :
       /\ Begin(p, "hook", what, "done")
       /\ Audited(p, what)
  /\ UNCHANGED <<files, run, now, prunes, exposed, faults>>

Stop(p) ==
  /\ \E what \in StopOutcomes :
       /\ Begin(p, "hook", what, "done")
       /\ Audited(p, what)
  /\ UNCHANGED <<files, run, now, prunes, exposed, faults>>

Notification(p) ==
  /\ \E what \in NotificationOutcomes :
       /\ Begin(p, "hook", what, "done")
       /\ Audited(p, what)
  /\ UNCHANGED <<files, run, now, prunes, exposed, faults>>

Recording(kind, s, what, op) ==
  [Idle EXCEPT !.kind = kind, !.op = op, !.session = s, !.what = what,
               !.ts = now, !.todo = Targets(kind, s, now)]

StartRecording(p, kind, s, what) ==
  /\ Begin(p, kind, what, "running")
  /\ run' = [run EXCEPT ![p] = Recording(kind, s, what, Len(ops) + 1)]

PostToolUse(p) ==
  /\ \E s \in Sessions, what \in PostOutcomes :
       /\ StartRecording(p, "post_tool_use", s, what)
       /\ Audited(p, what)
  /\ UNCHANGED <<files, now, prunes, exposed, faults>>

RecordAgentRun(p) ==
  /\ \E s \in Sessions : StartRecording(p, "agent_run", s, "completed")
  /\ UNCHANGED <<files, audit, now, prunes, exposed, faults>>

RecordSearchRun(p) ==
  /\ \E s \in Sessions, what \in {"hits", "error"} : StartRecording(p, "search_run", s, what)
  /\ UNCHANGED <<files, audit, now, prunes, exposed, faults>>

RecordActivation(p) ==
  /\ StartRecording(p, "skill", Skill, "completed")
  /\ UNCHANGED <<files, audit, now, prunes, exposed, faults>>

-----------------------------------------------------------------------------
(* Files. appendFileSync and writeFileSync open a file, write and close it;*)
(* another process may come in between.                                    *)

\* A file is created when it is opened and there is none.
Opened(file, p) ==
  [(IF file = NoFile THEN [lines |-> << >>, torn |-> FALSE, open |-> {}] ELSE file)
     EXCEPT !.open = @ \cup {p}]

Closed(file, p) == [file EXCEPT !.open = @ \ {p}]

\* p has the file of that name open. When another process has removed it since,
\* what p writes is lost.
Holds(p, q) == files[q] # NoFile /\ p \in files[q].open

\* What is appended to a line without an end is lost with it.
Appended(file, line) ==
  IF file.torn THEN [file EXCEPT !.torn = FALSE] ELSE [file EXCEPT !.lines = Append(@, line)]

\* Lines are written at the beginning of a file, where others may have written
\* since it was truncated: some of the last lines of theirs may lie beyond.
Overwritten(file, lines, torn) ==
  {[file EXCEPT !.lines = lines, !.torn = t] : t \in torn}
    \cup {[file EXCEPT !.lines = lines \o SubSeq(@, n, Len(@))] :
            n \in IF lines = << >> THEN DOMAIN file.lines ELSE DOMAIN file.lines \ {1}}

\* The lines that prunes have truncated off a file and are about to write back.
Pending(q) ==
  IF files[q] = NoFile THEN {} ELSE UNION {Range(run[r].kept) : r \in files[q].open}

Exposing(lines, q) == exposed' = exposed \cup {<<l.op, q>> : l \in lines}

-----------------------------------------------------------------------------
(* Appending.                                                              *)

Writing(p) == run[p].kind \in Recorders /\ run[p].todo # << >>

\* sessionFilePath: a name that sanitizePathIdentifier rejects makes it throw.
Named(q) == q[1] \in SessionStreams => q[2] \in SafeSessions

OpenToAppend(p) ==
  LET q == Head(run[p].todo)
  IN  /\ Writing(p)
      /\ ~ run[p].opened
      /\ Named(q)
      /\ files' = [files EXCEPT ![q] = Opened(@, p)]
      /\ run' = [run EXCEPT ![p].opened = TRUE]
      /\ UNCHANGED <<audit, now, prunes, ops, exposed, faults>>

\* A line may be lost that is written behind a torn one, while a prune works on
\* what it has read of the file, or after a prune has removed the file.
Exposed(p, q) ==
  \/ ~ Holds(p, q)
  \/ files[q].torn
  \/ \E r \in Procs : q \in run[r].read

AppendLine(p) ==
  LET q    == Head(run[p].todo)
      line == [op |-> run[p].op, what |-> run[p].what,
               ts |-> IF q[1] = "progress" THEN now ELSE run[p].ts]
  IN  /\ Writing(p)
      /\ run[p].opened
      /\ files' = IF Holds(p, q)
                    THEN [files EXCEPT ![q] = Closed(Appended(@, line), p)]
                    ELSE files
      /\ Exposing(IF Exposed(p, q) THEN {line} ELSE {}, q)
      /\ IF Len(run[p].todo) = 1
           THEN End(p, "done")
           ELSE /\ run' = [run EXCEPT ![p] = [run[p] EXCEPT !.todo = Tail(@), !.opened = FALSE]]
                /\ UNCHANGED ops
      /\ UNCHANGED <<audit, now, prunes, faults>>

\* Mutant: a run whose recording throws is recorded again, as failed.
Throw_RecordsAgain(p) ==
  IF run[p].kind \in {"search_run", "agent_run"} /\ run[p].what \in {"hits", "completed"}
    THEN /\ run' = [run EXCEPT ![p] =
                      Recording(run[p].kind, run[p].session,
                                IF run[p].kind = "agent_run" THEN "failed" ELSE "error",
                                run[p].op)]
         /\ ops' = [ops EXCEPT ![run[p].op].what =
                      IF run[p].kind = "agent_run" THEN "failed" ELSE "error"]
    ELSE End(p, "threw")

\* The recorder throws. SearchEngine.query records hits inside its try, so it
\* records the search again, as an error; the agent commands do not, as they set
\* success before they record.
Throw(p) ==
  IF run[p].kind = "search_run" /\ run[p].what = "hits"
    THEN /\ run' = [run EXCEPT ![p] = Recording("search_run", run[p].session,
                                                "error", run[p].op)]
         /\ ops' = [ops EXCEPT ![run[p].op].what = "error"]
    ELSE End(p, "threw")

RefuseName(p) ==
  /\ Writing(p)
  /\ ~ run[p].opened
  /\ ~ Named(Head(run[p].todo))
  /\ Throw(p)
  /\ UNCHANGED <<files, audit, now, prunes, exposed, faults>>

\* A process stops before it has written the file it has open, or in the middle:
\* a line without an end is left, or the first of the lines to be written back.
BreaksOff(p) ==
  \/ /\ \A q \in Paths : ~ Holds(p, q)
     /\ UNCHANGED <<files, exposed>>
  \/ \E q \in Paths, torn \in BOOLEAN :
       /\ Holds(p, q) /\ Writing(p)
       /\ files' = [files EXCEPT ![q] = [Closed(files[q], p) EXCEPT !.torn = @ \/ torn]]
       /\ UNCHANGED exposed
  \/ \E q \in Paths, n \in 0 .. Len(run[p].kept) - 1 :
       /\ Holds(p, q)
       /\ \E file \in Overwritten(files[q], SubSeq(run[p].kept, 1, n), BOOLEAN) :
            files' = [files EXCEPT ![q] = Closed(file, p)]
       /\ Exposing(Range(run[p].kept), q)

AppendFails(p) ==
  /\ Writing(p)
  /\ Named(Head(run[p].todo))
  /\ faults < MaxFaults /\ Len(ops) + prunes + faults < MaxCommands
  /\ faults' = faults + 1
  /\ BreaksOff(p)
  /\ Throw(p)
  /\ UNCHANGED <<audit, now, prunes>>

-----------------------------------------------------------------------------
(* debug prune.                                                            *)

StartPrune(p) ==
  /\ run[p] = Idle
  /\ prunes < MaxPrunes /\ Len(ops) + prunes + faults < MaxCommands
  /\ prunes' = prunes + 1
  /\ \E age \in Ages :
       run' = [run EXCEPT ![p] = [Idle EXCEPT !.kind = "prune", !.age = age,
                                              !.dirs = PrunedStreams]]
  /\ UNCHANGED <<files, audit, now, ops, exposed, faults>>

Pruning(p) == run[p].kind = "prune"

\* The directory is listed. The two token streams share one cutoff.
ListDir(p) ==
  LET stream == Head(run[p].dirs)
      cutoff == IF stream = "daily" THEN run[p].cutoff ELSE now - run[p].age
  IN  /\ Pruning(p)
      /\ run[p].dirs # << >> /\ run[p].listed = {} /\ run[p].read = {}
      /\ run' = [run EXCEPT ![p] = [run[p] EXCEPT
                   !.dirs = Tail(@), !.cutoff = cutoff,
                   !.listed = {q \in Paths : q[1] = stream /\ files[q] # NoFile}]]
      /\ UNCHANGED <<files, audit, now, prunes, ops, exposed, faults>>

\* Mutant: a line as old as the cutoff goes too.
Retained_Younger(lines, cutoff) == SelectSeq(lines, LAMBDA l : l.ts > cutoff)

\* The lines that a prune keeps: kept[i] of the first i.
Retained(lines, cutoff) ==
  LET kept[i \in 0 .. Len(lines)] ==
        IF i = 0 THEN <<>>
        ELSE IF lines[i].ts >= cutoff THEN Append(kept[i - 1], lines[i])
        ELSE kept[i - 1]
  IN  kept[Len(lines)]

\* A file is read; if there is nothing in it, or something to drop, it will be
\* removed or rewritten, and with it what others have truncated off it.
ReadFile(p) ==
  /\ Pruning(p)
  /\ run[p].read = {}
  /\ \E q \in run[p].listed :
       LET lines   == IF files[q] = NoFile THEN << >> ELSE files[q].lines
           kept    == Retained(lines, run[p].cutoff)
           changes == lines = << >> \/ kept # lines
       IN  /\ run' = [run EXCEPT ![p] = [run[p] EXCEPT
                        !.listed = @ \ {q}, !.read = IF changes THEN {q} ELSE {},
                        !.kept = IF changes THEN kept ELSE << >>]]
           /\ Exposing(IF changes THEN Pending(q) ELSE {}, q)
  /\ UNCHANGED <<files, audit, now, prunes, ops, faults>>

\* The prune is through with the file it has read.
ReadNext(p) ==
  run' = [run EXCEPT ![p] = [@ EXCEPT !.read = {}, !.kept = << >>, !.opened = FALSE]]

UnlinkFile(p) ==
  /\ Pruning(p)
  /\ run[p].kept = << >>
  /\ \E q \in run[p].read :
       /\ files[q] # NoFile
       /\ files' = [files EXCEPT ![q] = NoFile]
  /\ ReadNext(p)
  /\ UNCHANGED <<audit, now, prunes, ops, exposed, faults>>

\* Another prune has removed the file: unlinkSync throws, and the streams that
\* follow are not pruned.
UnlinkThrows(p) ==
  /\ Pruning(p)
  /\ run[p].kept = << >>
  /\ \E q \in run[p].read : files[q] = NoFile
  /\ End(p, "threw")
  /\ UNCHANGED <<files, audit, now, prunes, exposed, faults>>

\* writeFileSync first opens the file, which empties it.
TruncateFile(p) ==
  /\ Pruning(p)
  /\ run[p].kept # << >>
  /\ ~ run[p].opened
  /\ \E q \in run[p].read :
       files' = [files EXCEPT ![q] = [Opened(@, p) EXCEPT !.lines = << >>, !.torn = FALSE]]
  /\ run' = [run EXCEPT ![p].opened = TRUE]
  /\ UNCHANGED <<audit, now, prunes, ops, exposed, faults>>

RewriteFile(p) ==
  /\ Pruning(p)
  /\ run[p].opened
  /\ \E q \in run[p].read :
       \/ /\ Holds(p, q)
          /\ \E file \in Overwritten(files[q], run[p].kept, {FALSE, files[q].torn}) :
               files' = [files EXCEPT ![q] = Closed(file, p)]
       \/ /\ ~ Holds(p, q)
          /\ UNCHANGED files
  /\ ReadNext(p)
  /\ UNCHANGED <<audit, now, prunes, ops, exposed, faults>>

PruneFails(p) ==
  /\ Pruning(p)
  /\ faults < MaxFaults /\ Len(ops) + prunes + faults < MaxCommands
  /\ faults' = faults + 1
  /\ BreaksOff(p)
  /\ End(p, "threw")
  /\ UNCHANGED <<audit, now, prunes>>

FinishPrune(p) ==
  /\ Pruning(p)
  /\ run[p].dirs = << >> /\ run[p].listed = {} /\ run[p].read = {}
  /\ End(p, "done")
  /\ UNCHANGED <<files, audit, now, prunes, exposed, faults>>

-----------------------------------------------------------------------------
(* The world.                                                              *)

\* The process exits, or its buffer is cleared (hooks:audit-log --clear).
Exit(p) ==
  /\ run[p] = Idle
  /\ audit[p] # << >>
  /\ audit' = [audit EXCEPT ![p] = << >>]
  /\ UNCHANGED <<files, run, now, prunes, ops, exposed, faults>>

Crash(p) ==
  /\ run[p] # Idle
  /\ faults < MaxFaults /\ Len(ops) + prunes + faults < MaxCommands
  /\ faults' = faults + 1
  /\ BreaksOff(p)
  /\ End(p, "killed")
  /\ audit' = [audit EXCEPT ![p] = << >>]
  /\ UNCHANGED <<now, prunes>>

Midnight ==
  /\ now < MaxTime
  /\ now' = now + 1
  /\ UNCHANGED <<files, run, audit, prunes, ops, exposed, faults>>

Next ==
  \/ \E p \in Procs :
       \/ PreToolUse(p) \/ SessionStart(p) \/ Stop(p) \/ Notification(p) \/ PostToolUse(p)
       \/ RecordAgentRun(p) \/ RecordSearchRun(p) \/ RecordActivation(p)
       \/ OpenToAppend(p) \/ AppendLine(p) \/ RefuseName(p) \/ AppendFails(p)
       \/ StartPrune(p) \/ ListDir(p) \/ ReadFile(p) \/ UnlinkFile(p) \/ UnlinkThrows(p)
       \/ TruncateFile(p) \/ RewriteFile(p) \/ PruneFails(p) \/ FinishPrune(p)
       \/ Exit(p) \/ Crash(p)
  \/ Midnight

Spec == Init /\ [][Next]_vars

-----------------------------------------------------------------------------
(* What the records promise.                                               *)

\* The order in which a command's lines are due.
StreamsOf(kind) ==
  CASE kind = "post_tool_use" -> <<"sessions", "metrics", "patterns">>
    [] kind = "agent_run"     -> <<"tokens", "daily", "sessions", "metrics", "progress">>
    [] kind = "search_run"    -> <<"sessions", "metrics">>
    [] kind = "skill"         -> <<"skills">>
    [] OTHER                  -> << >>

\* The lines of a file, and those about to be written back to it.
LinesIn(q) == Pending(q) \cup IF files[q] = NoFile THEN {} ELSE Range(files[q].lines)

\* A stream tells that a command had this outcome.
Told(n, what, stream) ==
  \E q \in Paths : q[1] = stream /\ \E l \in LinesIn(q) : l.op = n /\ l.what = what

\* A command's line in a stream may be missing because it is older than some
\* prune may keep, or was exposed.
Excused(n, stream) ==
  \/ /\ prunes > 0 /\ stream \in Range(PrunedStreams)
     /\ \E age \in Ages : ops[n].ts < now - age
  \/ \E e \in exposed : e[1] = n /\ e[2][1] = stream

\* A command whose recording went through has its outcome in every stream it
\* belongs to. Whatever other processes append, prune or damage, a line is only lost
\* by age, or if it was exposed: appended behind a torn line, or to a file that some
\* prune has read and will rewrite or remove, or removes meanwhile; truncated off its
\* file by one prune when another one reads that file; or to be written back by a
\* prune that fails or is killed. While its prune has it to write back, a line counts
\* as there.
RecordedInFull ==
  \A n \in DOMAIN ops :
    ops[n].status = "done" =>
      \A i \in DOMAIN StreamsOf(ops[n].kind) :
        LET stream == StreamsOf(ops[n].kind)[i]
        IN  Told(n, ops[n].what, stream) \/ Excused(n, stream)

\* However a command ended, what a line tells of it, the streams that come before
\* the line's tell as well: a run that is counted has its cost recorded, and a learned
\* pattern comes from a recorded tool use.
RecordedInOrder ==
  \A q \in Paths : \A l \in LinesIn(q) :
    LET streams == StreamsOf(ops[l.op].kind)
    IN  \A i, j \in DOMAIN streams :
          i < j /\ q[1] = streams[j] => Told(l.op, l.what, streams[i]) \/ Excused(l.op, streams[i])

\* No line contradicts the outcome of its command, but for a search whose hits
\* could not be recorded in full and which ended as an error.
NoContradiction ==
  \A q \in Paths : files[q] # NoFile =>
    \A l \in Range(files[q].lines) :
      \/ l.what = ops[l.op].what
      \/ ops[l.op].kind = "search_run" /\ l.what = "hits"

\* The audit buffer of a process holds its latest decisions, none missing in
\* between, also those whose recorder threw and whose caller never saw them.
AuditRemembers ==
  \A p \in Procs :
    LET decided == {n \in DOMAIN ops : ops[n].proc = p /\ ops[n].kind \in Hooks}
        event(i) == audit[p][i]
    IN  /\ \A i \in DOMAIN audit[p] :
             event(i).op \in decided /\ event(i).what = ops[event(i).op].what
        /\ \A i, j \in DOMAIN audit[p] : i < j => event(i).op < event(j).op
        /\ \A n \in decided : audit[p] # << >> /\ event(1).op <= n =>
             \E i \in DOMAIN audit[p] : event(i).op = n

=============================================================================
