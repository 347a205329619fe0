-------------------------- MODULE MCObservability --------------------------
(***************************************************************************)
(* Small instances of Observability: one tool with a category, one without.*)
(* The skills whose activations it records are those of Skills.            *)
(***************************************************************************)
EXTENDS Observability, Skills, TLC

CONSTANTS p1, p2, s1, s2, bash, other, secret, force

Categories == [t \in {bash, other} |-> IF t = bash THEN "shell" ELSE "unknown"]

\* The profiles, and overrides of a category and of a tool.
SomePolicies ==
  {[base |-> ProfileDefaults(profile, {bash}, {secret}),
    categoryOverrides |-> category, toolOverrides |-> tool] :
     profile \in {"strict", "balanced", "permissive"},
     category \in {NoOverride, [c \in {"shell"} |-> [risky |-> FALSE, strictMode |-> TRUE]]},
     tool \in {NoOverride, [t \in {bash} |-> [escalationThreshold |-> 1,
                                              preToolUseDefaultDecision |-> "deny"]]}}

\* The theorem on HookPolicy in Observability_proofs, evaluated on these policies.
ASSUME PoliciesAreMonotone == RiskNeverLoosens

Symmetry == Permutations(Procs)

\* A prune goes through no file but those of agent runs and activations. A fourth
\* event is only of interest where a file may have a line to drop and one to keep.
Focus ==
  /\ prunes > 0 => \A n \in DOMAIN ops : ops[n].kind \in {"agent_run", "skill"}
  /\ Len(ops) + prunes + faults = MaxCommands /\ Len(ops) = 2 => ops[1].ts < ops[2].ts

-----------------------------------------------------------------------------
(* Texts that differ in case, in white space, or in nothing that is kept,  *)
(* and manifests of one or two skills.                                     *)

SomeTexts == {"", " ", "ts", "TS", "ts ", "del", "qa"}

Sanitizing == [x \in SomeTexts |-> IF x \in {" ", "del"} THEN "" ELSE IF x = "ts " THEN "ts" ELSE x]

Trimming == [x \in SomeTexts |-> IF x = " " THEN "" ELSE IF x = "ts " THEN "ts" ELSE x]

Folding == [x \in SomeTexts |-> IF x = "TS" THEN "ts" ELSE x]

Comparing == [x \in SomeTexts |-> Folding[Sanitizing[x]]]

Alphabetical == [x \in SomeTexts |-> IF x = "qa" THEN 1 ELSE IF x \in {"", " ", "del"} THEN 0 ELSE 2]

SomeSource == [triggers |-> <<"TS", "qa", "ts ">>, activation |-> "manual",
               priority |-> "high", contextLoad |-> Missing]

RawSkills ==
  [id : {"ts", "TS", "qa"}, name : {"qa"}, domains : {<<"qa">>},
   triggers : {Missing, <<"del">>, <<"ts", "ts ", "TS">>}, activation : {Missing},
   priority : {"low", Missing}, contextLoad : {Missing},
   allowedAgents : {Missing, <<>>, <<"ts ", "qa">>, <<"TS", "ts ">>, <<" ">>},
   frontmatter : {Missing, SomeSource, Invalid}, legacy : {Missing, [SomeSource EXCEPT !.priority = Missing]}]

Manifests == {<<s>> : s \in RawSkills} \cup
             {<<s, t>> : s \in {s \in RawSkills : s.legacy = Missing /\ s.frontmatter # Invalid},
                         t \in {t \in RawSkills : t.frontmatter = Missing /\ t.priority = "low"
                                                    /\ t.allowedAgents # <<>>}}

SkillRequests ==
  [query : {{}, {"qa"}}, filePaths : {{}, {{"ts"}, {"TS", "qa"}}}, domains : {{}, {"qa"}},
   includeManual : {TRUE}, limit : {Missing, 0}, agentId : {Missing, "TS", "qa"}]

\* The theorems on Skills in Observability_proofs, evaluated on these.
ASSUME ManifestsAreSound ==
  /\ NoTriggerTwice({m \in Manifests : Len(m) = 1 /\ SourcesParse(m)})
  /\ RestrictionsHold(Manifests, {r \in SkillRequests : r.limit = Missing /\ r.query = {}})
  /\ SuggestionsCanBeLoaded(Manifests, {r \in SkillRequests : r.limit = 0 /\ r.query # {}})
  /\ MoreContextScoresNoLess({m \in Manifests : Len(m) = 1 /\ SourcesParse(m)}, SkillRequests)

\* Both outcomes of loading occur, and the manifest is found where it was built.
ASSUME ManifestsLoadOrThrow ==
  LET found(m) == [path \in {"source", "dist"} |-> IF path = "dist" THEN m ELSE Missing]
      outcome(m) == loadSkillManifest(found(m), Missing)
  IN  /\ \E m \in Manifests : Len(m) = 2 /\ outcome(m) = Definitions(m)
      /\ \E m \in Manifests : Len(m) = 2 /\ SourcesParse(m) /\ outcome(m) = Invalid

=============================================================================
