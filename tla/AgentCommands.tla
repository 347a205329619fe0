--------------------------- MODULE AgentCommands ---------------------------
(***************************************************************************)
(* One agents: command of the command line (src/src/cli/commands/          *)
(* agents.ts), from the handoff of the expert to what is recorded and      *)
(* printed. The scout's command runs a search, and the search runs ripgrep *)
(* in a child process that prints, fails and ends in its own time.         *)
(***************************************************************************)
EXTENDS SearchRanking, AgentAnswers

CONSTANTS
  Commands,           \* what users ask, see Command
  ScoutPhases,        \* the most phases of a workflow that the scout runs
  MaxRecorderFaults   \* bound on the records that cannot be written

Agents == {"scout", "builder", "tester", "reviewer", "verifier"}

\* What is wrong with a command: its handoff is not accepted by the schema, its
\* query not by the search (which takes half as many characters), its session
\* id is no file name, or its review severity is none.
Flaws == {"handoff", "query", "session", "severity"}

Command ==
  [kind    : Agents \cup {"quality", "workflow"},
   flaws   : SUBSET Flaws,
   query   : SUBSET Terms,
   matches : SUBSET Lines,     \* the lines that contain the query
   named   : SUBSET Files,
   domains : SUBSET Domains,
   remembered : SUBSET Files,  \* those that the session's memory mentions
   dangers : SUBSET Dangers,
   trust   : TrustInput,
   stages  : SUBSET {"tester", "reviewer", "verifier"}]  \* of the quality path

ASSUME CommandAssumption ==
  /\ Commands \subseteq Command
  /\ ScoutPhases \in Nat
  /\ MaxRecorderFaults \in Nat
  /\ \A c \in Commands : \A h \in c.matches : c.query \subseteq h.text

VARIABLES
  pc,       \* where the handler is
  command,  \* what was asked
  child,    \* ripgrep: its search, its state, the files it has read, the matches it printed
  response, \* the answer of the search
  success,  \* the handler's flag of that name
  todo,     \* what the handler has still to record, in order
  records,  \* history: the runs in the file of the session
  answer,   \* the files the scout recommends
  outcome,  \* how the command ended
  faults    \* number of records that could not be written

vars == <<pc, command, child, response, success, todo, records, answer, outcome, faults>>

NoResponse == [total |-> 0, score |-> <<>>, hits |-> <<>>]

\* A run as it is recorded: of the session, and of the day unless that file
\* cannot be written. The searches of a command are told apart by their number.
Entry(who, ok) == [who |-> who, ok |-> ok, nr |-> 0, daily |-> TRUE]

SearchEntry(nr, ok) == [Entry("search", ok) EXCEPT !.nr = nr]

Child(nr, state) == [nr |-> nr, state |-> state, read |-> {}, printed |-> <<>>]

Init ==
  /\ pc = "idle"
  /\ command \in Commands
  /\ child = Child(0, "none")
  /\ response = NoResponse
  /\ success = FALSE
  /\ todo = <<>>
  /\ records = <<>>
  /\ answer = <<>>
  /\ outcome = "none"
  /\ faults = 0

-----------------------------------------------------------------------------
(***************************************************************************)
(* The handlers. The flag is set once the agent has answered; the finally  *)
(* block records a failure of both agents only where it is not set.        *)
(***************************************************************************)
\* The stages of the quality path that are asked for, in their order.
composeQualityPath(stages) ==
  LET when(stage) == IF stage \in stages THEN <<stage>> ELSE <<>>
  IN  when("tester") \o when("reviewer") \o when("verifier")

createHandoff(c) ==
  [query |-> c.dangers, analysis |-> {}, risks |-> FALSE, files |-> c.named # {}]

\* Services are resolved and the handoff is made before the try block.
Begin ==
  /\ pc = "idle"
  /\ pc' = "agent"
  /\ UNCHANGED <<command, child, response, success, todo, records, answer, outcome, faults>>

Answered(entries) ==
  /\ success' = TRUE
  /\ todo' = entries
  /\ pc' = "record"

Failed ==
  /\ todo' = <<Entry("expert", FALSE), Entry(command.kind, FALSE)>>
  /\ pc' = "record"
  /\ UNCHANGED success

EndCommand(how) ==
  /\ outcome' = how
  /\ pc' = "done"
  /\ todo' = <<>>

\* As AgentRejects, with the handoff validated before the try block.
AgentRejects_OutsideTry ==
  /\ pc = "agent"
  /\ command.kind \in Agents
  /\ "handoff" \in command.flaws
  /\ EndCommand("threw")
  /\ UNCHANGED <<command, child, response, success, records, answer, faults>>

\* validateAgentHandoffPayload, inside the try block; the verifier's evidence
\* is parsed by the verifier.
AgentRejects ==
  /\ pc = "agent"
  /\ command.kind \in Agents
  /\ \/ "handoff" \in command.flaws
     \/ command.kind = "verifier" /\ "severity" \in command.flaws
  /\ Failed
  /\ UNCHANGED <<command, child, response, records, answer, outcome, faults>>

\* Builder, tester and reviewer record that they have answered, the verifier
\* whether its gate passes.
AgentReplies ==
  /\ pc = "agent"
  /\ command.kind \in Agents \ {"scout"}
  /\ "handoff" \notin command.flaws
  /\ command.kind = "verifier" => "severity" \notin command.flaws
  /\ Answered(<<Entry("expert", TRUE),
               Entry(command.kind,
                     command.kind = "verifier" =>
                       gateDecision(createHandoff(command), command.trust) = "pass")>>)
  /\ UNCHANGED <<command, child, response, records, answer, outcome, faults>>

\* agents:quality records every stage of the path, a skipped one as failed.
\* It has no try block: a handoff that is not accepted leaves no record.
QualityAnswers ==
  /\ pc = "agent"
  /\ command.kind = "quality"
  /\ "handoff" \notin command.flaws
  /\ \E executed \in SUBSET command.stages :
       LET steps == composeQualityPath(command.stages)
       IN  Answered(<<Entry("expert", executed # {})>>
                      \o [i \in DOMAIN steps |-> Entry(steps[i], steps[i] \in executed)])
  /\ UNCHANGED <<command, child, response, records, answer, outcome, faults>>

\* agents:workflow records the expert, with the status of the execution: it is
\* not completed when a phase of the scout has failed, and may fail otherwise.
\* It only plans, resumes or runs; its phases are in Workflow.
WorkflowAnswers ==
  /\ pc = "agent"
  /\ command.kind = "workflow"
  /\ \E completed \in BOOLEAN :
       /\ todo # <<>> => ~completed
       /\ Answered(<<Entry("expert", completed)>>)
  /\ UNCHANGED <<command, child, response, records, answer, outcome, faults>>

\* The path refuses a handoff; planning, resuming or executing throws.
HandlerThrows ==
  /\ pc = "agent"
  /\ \/ command.kind = "quality" /\ "handoff" \in command.flaws
     \/ command.kind = "workflow"
  /\ EndCommand("threw")
  /\ UNCHANGED <<command, child, response, success, records, answer, faults>>

-----------------------------------------------------------------------------
(***************************************************************************)
(* The scout: SearchEngine.query, and the child process of stage 1. In a   *)
(* workflow it searches in each of its phases that is run.                 *)
(***************************************************************************)
SearchRuns ==
  /\ "handoff" \notin command.flaws
  /\ \/ command.kind = "scout"
     \/ command.kind = "workflow" /\ child.nr < ScoutPhases

SearchRejects ==
  /\ pc = "agent"
  /\ SearchRuns
  /\ "query" \in command.flaws
  /\ child' = Child(child.nr + 1, "none")
  /\ pc' = "searchFailed"
  /\ UNCHANGED <<command, response, success, todo, records, answer, outcome, faults>>

SpawnRipgrep ==
  /\ pc = "agent"
  /\ SearchRuns
  /\ "query" \notin command.flaws
  /\ child' = Child(child.nr + 1, "running")
  /\ pc' = "search"
  /\ UNCHANGED <<command, response, success, todo, records, answer, outcome, faults>>

MatchingFiles == {h.file : h \in command.matches}

\* ripgrep prints the matches of one file after another, in any order.
RipgrepPrints(file) ==
  /\ child.state = "running"
  /\ file \in MatchingFiles \ child.read
  /\ child' = [child EXCEPT !.read = @ \cup {file},
                            !.printed = @ \o parseRipgrepJsonOutput(file, command.matches)]
  /\ UNCHANGED <<pc, command, response, success, todo, records, answer, outcome, faults>>

\* The error event of a child that does not start: the query is rejected.
RipgrepError ==
  /\ pc = "search"
  /\ child.state = "running"
  /\ child.read = {}
  /\ child' = [child EXCEPT !.state = "failed"]
  /\ pc' = "searchFailed"
  /\ UNCHANGED <<command, response, success, todo, records, answer, outcome, faults>>

\* Once it has read every file, ripgrep exits with 0 or 1; with 2 when it could
\* not read one, whatever else it printed; with null when a signal ends it.
ExitCodes ==
  {"2", "null"} \cup
    IF child.state = "running" /\ MatchingFiles \subseteq child.read
      THEN {IF command.matches = {} THEN "1" ELSE "0"} ELSE {}

\* As accepted, with what ripgrep printed before it could not read a file.
accepted_Partial(code) == code \in {"0", "1", "2"}

accepted(code) == code \in {"0", "1"}

\* As RipgrepCloses, waiting for a code that a signal never gives.
RipgrepCloses_IgnoresSignals(code, parses) ==
  /\ child.state \in {"running", "failed"}
  /\ code \in ExitCodes
  /\ child' = [child EXCEPT !.state = "closed"]
  /\ IF pc # "search" \/ code = "null"
       THEN UNCHANGED <<pc, response>>
       ELSE IF accepted(code) /\ parses
         THEN /\ response' = runSearchPipeline(child.printed, command.query)
              /\ pc' = "searchDone"
         ELSE /\ pc' = "searchFailed"
              /\ UNCHANGED response
  /\ UNCHANGED <<command, success, todo, records, answer, outcome, faults>>

\* The close event. It settles the query unless the error event has, or the
\* process is gone; output that is no JSON rejects it.
RipgrepCloses(code, parses) ==
  /\ child.state \in {"running", "failed"}
  /\ code \in ExitCodes
  /\ child' = [child EXCEPT !.state = "closed"]
  /\ IF pc # "search"
       THEN UNCHANGED <<pc, response>>
       ELSE IF accepted(code) /\ parses
         THEN /\ response' = runSearchPipeline(child.printed, command.query)
              /\ pc' = "searchDone"
         ELSE /\ pc' = "searchFailed"
              /\ UNCHANGED response
  /\ UNCHANGED <<command, success, todo, records, answer, outcome, faults>>

\* A record is refused for a session id that is no file name.
Records == "session" \notin command.flaws

\* The run is appended to the file of the session and then to that of the day;
\* what throws first leaves nothing, what throws second leaves the session's.
CannotRecord(entry) ==
  /\ \/ "session" \in command.flaws /\ UNCHANGED records
     \/ /\ faults < MaxRecorderFaults
        /\ \/ UNCHANGED records
           \/ Records /\ records' = Append(records, [entry EXCEPT !.daily = FALSE])
  /\ faults' = faults + 1

\* SearchEngine.query records its run: a success inside the try block, so that
\* a record which throws is followed by one of an error.
RecordSearch ==
  /\ pc = "searchDone"
  /\ Records
  /\ records' = Append(records, SearchEntry(child.nr, TRUE))
  /\ pc' = "analyze"
  /\ UNCHANGED <<command, child, response, success, todo, answer, outcome, faults>>

\* As RecordSearchThrows, with the exception of the recorder swallowed.
RecordSearchThrows_Swallowed ==
  /\ pc = "searchDone"
  /\ CannotRecord(SearchEntry(child.nr, TRUE))
  /\ pc' = "analyze"
  /\ UNCHANGED <<command, child, response, success, todo, answer, outcome>>

RecordSearchThrows ==
  /\ pc = "searchDone"
  /\ CannotRecord(SearchEntry(child.nr, TRUE))
  /\ pc' = "searchFailed"
  /\ UNCHANGED <<command, child, response, success, todo, answer, outcome>>

\* As ScoutThrows, with a failed phase forgotten by the execution that goes on.
ScoutThrows_Forgotten ==
  IF command.kind = "scout" THEN Failed
  ELSE pc' = "agent" /\ UNCHANGED <<todo, success>>

\* The scout throws. Its own command records that; the executor of a workflow
\* catches it, and the execution, stopped or not, is one that failed.
ScoutThrows ==
  IF command.kind = "scout" THEN Failed
  ELSE /\ pc' = "agent"
       /\ todo' = <<Entry("expert", FALSE)>>
       /\ UNCHANGED success

\* Either way the query is rejected, and so is the scout.
RecordSearchError ==
  /\ pc = "searchFailed"
  /\ \/ /\ Records
        /\ records' = Append(records, SearchEntry(child.nr, FALSE))
        /\ UNCHANGED faults
     \/ CannotRecord(SearchEntry(child.nr, FALSE))
  /\ ScoutThrows
  /\ UNCHANGED <<command, child, response, answer, outcome>>

\* ScoutSubagent.analyze goes on with the memory of the session.
ScoutReplies ==
  /\ pc = "analyze"
  /\ IF command.kind = "scout"
       THEN /\ answer' = rankFileSignals(response, command)
            /\ Answered(<<Entry("expert", TRUE), Entry("scout", TRUE)>>)
       ELSE /\ pc' = "agent"
            /\ UNCHANGED <<answer, success, todo>>
  /\ UNCHANGED <<command, child, response, records, outcome, faults>>

MemoryThrows ==
  /\ pc = "analyze"
  /\ ScoutThrows
  /\ UNCHANGED <<command, child, response, records, answer, outcome, faults>>

-----------------------------------------------------------------------------
(***************************************************************************)
(* Recording, printing, and being killed on the way.                       *)
(***************************************************************************)
RecordAgent ==
  /\ pc = "record"
  /\ todo # <<>>
  /\ Records
  /\ records' = Append(records, Head(todo))
  /\ todo' = Tail(todo)
  /\ UNCHANGED <<pc, command, child, response, success, answer, outcome, faults>>

\* As RecordAgentThrows, with the flag set after the records are written: the
\* finally block records a failure of what has been recorded as a success.
RecordAgentThrows_FlagLate ==
  /\ pc = "record"
  /\ todo # <<>>
  /\ CannotRecord(Head(todo))
  /\ success' = FALSE
  /\ IF success
       THEN /\ todo' = <<Entry("expert", FALSE), Entry(command.kind, FALSE)>>
            /\ UNCHANGED <<pc, outcome>>
       ELSE EndCommand("threw")
  /\ UNCHANGED <<command, child, response, answer>>

\* The finally block finds the flag set, or is where it throws: nothing more is
\* recorded.
RecordAgentThrows ==
  /\ pc = "record"
  /\ todo # <<>>
  /\ CannotRecord(Head(todo))
  /\ EndCommand("threw")
  /\ UNCHANGED <<command, child, response, success, answer>>

\* The answer is printed last; without one the exception leaves the handler.
Finish ==
  /\ pc = "record"
  /\ todo = <<>>
  /\ EndCommand(IF success THEN "printed" ELSE "threw")
  /\ UNCHANGED <<command, child, response, success, records, answer, faults>>

Kill ==
  /\ pc \notin {"idle", "done"}
  /\ EndCommand("killed")
  /\ UNCHANGED <<command, child, response, success, records, answer, faults>>

Handler ==
  \/ Begin \/ AgentRejects \/ AgentReplies \/ QualityAnswers \/ WorkflowAnswers
  \/ HandlerThrows \/ SearchRejects \/ SpawnRipgrep
  \/ RecordSearch \/ RecordSearchThrows \/ RecordSearchError
  \/ ScoutReplies \/ MemoryThrows
  \/ RecordAgent \/ RecordAgentThrows \/ Finish

RipgrepReads == \E file \in Files : RipgrepPrints(file)

RipgrepEnds == \E code \in ExitCodes, parses \in BOOLEAN : RipgrepCloses(code, parses)

Next == Handler \/ RipgrepReads \/ RipgrepError \/ RipgrepEnds \/ Kill

Spec == Init /\ [][Next]_vars

\* One thread runs the handler to its end. ripgrep is taken to end: it reads
\* finitely many files, and the code sets it no limit.
FairSpec == Spec /\ WF_vars(Handler) /\ WF_vars(RipgrepEnds)

-----------------------------------------------------------------------------
(***************************************************************************)
(* Properties.                                                             *)
(***************************************************************************)
Who == {"expert", "search"} \cup Agents

Verdict == [who : Who, ok : BOOLEAN, nr : Nat, daily : BOOLEAN]

TypeOK ==
  /\ pc \in {"idle", "agent", "search", "searchDone", "searchFailed", "analyze", "record", "done"}
  /\ command \in Commands
  /\ child.nr \in Nat
  /\ child.state \in {"none", "running", "failed", "closed"}
  /\ child.read \subseteq MatchingFiles
  /\ child.printed \in Seq(command.matches)
  /\ response.total \in 0 .. Limit
  /\ response.hits \in Seq(command.matches)
  /\ success \in BOOLEAN
  /\ todo \in Seq(Verdict)
  /\ records \in Seq(Verdict)
  /\ answer \in Seq(Files)
  /\ Len(answer) <= TopFileLimit
  /\ outcome \in {"none", "printed", "threw", "killed"}
  /\ faults \in Nat

Recorded(who, ok) == \E i \in DOMAIN records : records[i].who = who /\ records[i].ok = ok

\* The matches that can be named, which is what an exhaustive search would find.
Found == {h \in command.matches : h.file \in Nameable}

\* A search that is recorded as a success has all its matches, or as many as its
\* limit: what ripgrep printed before it failed, was killed or could not read a
\* file is never an answer (RipgrepSearchStage.searchSanitized).
SearchIsWhole ==
  Recorded("search", TRUE) => response.total = least(Limit, Cardinality(Found))

\* When all matches fit into the limit, which files the scout recommends, and in
\* which order, does not depend on the order they were printed in: a file's
\* place is the number of files that beat it, judged on the hits that few others
\* outrank (runSearchPipeline, ScoutSubagent.analyze).
AnswerIgnoresArrival ==
  (outcome = "printed" /\ command.kind = "scout" /\ Cardinality(Found) <= Limit) =>
    LET score == bm25Score(Found, command.query)
        outranking(h) == {g \in Found : compareHits(score, CodeUnitOrder, g, h)}
        kept  == {h \in Found : Cardinality(outranking(h)) < least(Limit, Bm25Limit)}
        files == {h.file : h \in kept} \cup command.named
        blended == blendedScore(Found, command.query)
        signals == [f \in files |-> FileSignals(kept, blended, command, f)]
        place(f) == 1 + Cardinality({g \in files : Beats(signals, g, f)})
    IN  /\ Len(answer) = least(TopFileLimit, Cardinality(files))
        /\ \A f \in files : place(f) <= TopFileLimit => answer[place(f)] = f

\* No agent has two verdicts in the file of a session. A search has two when
\* its success reached that file and not the day's: the error of the recorder
\* follows it as the search's own (the success flags of agents.ts, recordSearchRun
\* in the try and the catch block of SearchEngine.query).
OneVerdict ==
  \A i, j \in DOMAIN records :
    (/\ records[i].who = records[j].who /\ records[i].nr = records[j].nr
     /\ records[i].ok /\ ~records[j].ok) =>
      records[i].who = "search" /\ ~records[i].daily /\ i < j

\* An agent is recorded as a success only after the expert was, and the scout
\* only after its search was; and the expert only if no search of the command
\* is recorded as an error, in any phase of a workflow. So it is also when the
\* process is killed in between.
SuccessIsBacked ==
  \A i \in DOMAIN records :
    LET before(who) == \E j \in 1 .. i - 1 : records[j].who = who /\ records[j].ok
    IN  /\ records[i].ok /\ records[i].who \in Agents =>
             before("expert") /\ (command.kind = "scout" => before("search"))
        /\ records[i].ok /\ records[i].who = "expert" => ~Recorded("search", FALSE)

\* What is recorded of a command is true of it: nobody has two verdicts but a
\* search whose record broke off, and no success is recorded of an agent without
\* what it rests on (the success flags and the order of the recorders in
\* agents.ts and api.ts, the status of an execution in executor.ts).
RecordsAreTrue == OneVerdict /\ SuccessIsBacked

\* A command of one agent that throws leaves a failure of the expert and of the
\* agent, unless the recorders themselves throw (the finally blocks).
ThrowIsRecorded ==
  (outcome = "threw" /\ command.kind \in Agents /\ faults = 0) =>
    Recorded("expert", FALSE) /\ Recorded(command.kind, FALSE)

\* Every command ends, also when ripgrep does not start, fails or is killed.
CommandEnds == (pc # "idle") ~> (pc = "done")

=============================================================================
