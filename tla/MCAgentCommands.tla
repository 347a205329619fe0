-------------------------- MODULE MCAgentCommands --------------------------
(***************************************************************************)
(* A small workspace for AgentCommands: four files, one of which has no    *)
(* name in text, and more matches for one query than a search takes.       *)
(***************************************************************************)
EXTENDS AgentCommands

CONSTANTS fa, fb, fc, fx, rare, common, backend

SomeLine(f, n, text, tokens) == [file |-> f, line |-> n, text |-> text, tokens |-> tokens]

MatchLines ==
  {SomeLine(fa, 1, {common}, {common}),
   SomeLine(fa, 2, {common}, {}),
   SomeLine(fb, 1, {common, rare}, {common, rare}),
   SomeLine(fb, 2, {common, rare}, {rare}),
   SomeLine(fc, 1, {common, rare}, {common}),
   SomeLine(fx, 1, {common, rare}, {common, rare})}

SomePathTokens == [f \in Files |-> IF f = fc THEN {rare} ELSE {}]

SomeFileDomains == [f \in Files |-> IF f = fb THEN {} ELSE {backend}]

\* The two orders of paths disagree: one looks at case.
SomeCodeUnitOrder == [f \in Files |-> CASE f = fa -> 3 [] f = fb -> 1 [] f = fc -> 2 [] OTHER -> 4]
SomeLocaleOrder   == [f \in Files |-> CASE f = fa -> 1 [] f = fb -> 3 [] f = fc -> 2 [] OTHER -> 4]

\* bm25Idf in hundredths, for up to four candidates.
LogIdf == <<<<29>>, <<69, 18>>, <<98, 47, 13>>, <<120, 69, 36, 11>>>>

\* The evidence of a verifier: none, all of it, and with a severity.
Evidence ==
  {[rates |-> [r \in {} |-> 0], severity |-> "none"]} \cup
  {[rates |-> [r \in {"testPassRate", "completeness", "evidenceQuality"} |-> 10],
    severity |-> s] : s \in {"low", "medium", "high"}} \cup
  {[rates |-> [r \in Rates |-> IF r = "coverage" THEN n ELSE 10], severity |-> "medium"] :
     n \in {0, 5, 8}}

Task(kind, flaws, query, matches, named, remembered, dangers, trust, stages) ==
  [kind |-> kind, flaws |-> flaws, query |-> query, matches |-> matches, named |-> named,
   domains |-> {backend}, remembered |-> remembered, dangers |-> dangers, trust |-> trust, stages |-> stages]

NoEvidence == CHOOSE e \in Evidence : e.rates = [r \in {} |-> 0]

ScoutTasks ==
  {Task("scout", flaws, query, {h \in MatchLines : query \subseteq h.text}, named, remembered, {}, NoEvidence, {}) :
     flaws \in {{}, {"handoff"}, {"query"}, {"session"}},
     query \in {{rare}, {common}, {common, rare}}, named \in {{}, {fa}},
     remembered \in {{}, {fc}}}

OtherTasks ==
  {Task(kind, flaws, {}, {}, {}, {}, {}, NoEvidence, {}) :
     kind \in {"builder", "tester", "reviewer"},
     flaws \in {{}, {"handoff"}, {"session"}}}
  \cup
  {Task("workflow", flaws, {rare}, {h \in MatchLines : rare \in h.text}, {}, {}, {}, NoEvidence, {}) :
     flaws \in {{}, {"handoff"}, {"query"}, {"session"}}}
  \cup
  {Task("verifier", flaws, {}, {}, {}, {}, dangers, trust, {}) :
     flaws \in {{}, {"severity"}}, dangers \in {{}, {"destructive_command"}}, trust \in Evidence}
  \cup
  {Task("quality", flaws, {}, {}, {}, {}, {}, NoEvidence, stages) :
     flaws \in {{}, {"handoff"}}, stages \in SUBSET {"tester", "reviewer", "verifier"}}

SomeTasks == ScoutTasks \cup OtherTasks

\* The theorems of AgentCommands_proofs, evaluated on this evidence.
ASSUME GateIsSound ==
  LET handoffs == [query : {{}, {"prompt_injection"}}, analysis : {{}, {"destructive_command"}},
                   risks : {FALSE}, files : {TRUE}]
  IN  GateIsMonotone(handoffs, Evidence) /\ PassMeansNoCritical(handoffs, Evidence)

=============================================================================
