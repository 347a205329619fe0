------------------------------- MODULE Skills -------------------------------
(***************************************************************************)
(* From a skill manifest and the trigger sources it names to the skills    *)
(* that are suggested and loaded (src/src/skills/loader.ts, schema.ts,     *)
(* validator.ts, registry.ts, activation.ts). Nothing here keeps state but *)
(* the registry, which is filled once.                                     *)
(*                                                                         *)
(* Texts are told apart by what is made of them: trimmed, sanitized,       *)
(* folded to lower case, or normalized for a comparison. The query and each*)
(* path of a request are the set of the triggers that match them. Names    *)
(* and descriptions are treated alike, so there is one of them. What lists *)
(* look like on paper decides which of two texts that differ in case is    *)
(* kept; past that, triggers and domains are sets.                         *)
(***************************************************************************)
EXTENDS Integers, Sequences, FiniteSets

CONSTANTS
  Texts,
  Empty,        \* the empty text
  Trimmed,      \* Trimmed[t]: String.trim, also by the schema
  Sanitized,    \* sanitizeSkillText: control characters, white space, ends
  Folded,       \* toLowerCase
  Plain,        \* normalizeText of activation.ts
  BadTriggers,  \* folded texts too long, or with control characters, for a
  BadAgents,    \* trigger, or for the identifier of an agent
  Collation,    \* the place of a text by localeCompare
  Missing,      \* a field, or a file, that is not there
  Invalid       \* a field, or a file, that cannot be parsed

ASSUME TextAssumption ==
  /\ Empty \in Texts /\ Missing # Invalid
  /\ \A change \in {Trimmed, Sanitized, Folded, Plain} : change \in [Texts -> Texts]
  /\ Collation \in [Texts -> Nat]
  /\ \A t \in Texts :
       /\ Trimmed[Trimmed[t]] = Trimmed[t]
       /\ Trimmed[Sanitized[t]] = Sanitized[t]
       /\ Folded[t] = Empty <=> t = Empty

Optional(S) == S \cup {Missing}

Activations == {"auto", "manual"}

Priorities == {"low", "medium", "high"}

ContextLoads == {"minimal", "standard", "full"}

\* The lists of a SKILL.md front matter, or of a triggers.json, one after the
\* other: keywords, intents, patterns of files and of contents.
Source ==
  [triggers : Seq(Texts), activation : Optional(Activations),
   priority : Optional(Priorities), contextLoad : Optional(ContextLoads)]

\* A skill as the manifest has it. Missing stands for null as well, but for the
\* list of agents, where null is Invalid.
RawSkill ==
  [id            : Optional(Texts),
   name          : Optional(Texts),
   domains       : Optional(Seq(Texts)),
   triggers      : Optional(Seq(Texts)),
   activation    : Optional(Activations) \cup {Invalid},
   priority      : Optional(Priorities) \cup {Invalid},
   contextLoad   : Optional(ContextLoads) \cup {Invalid},
   allowedAgents : Optional(Seq(Texts)) \cup {Invalid},
   frontmatter   : Optional(Source) \cup {Invalid},
   legacy        : Optional(Source) \cup {Invalid}]

-----------------------------------------------------------------------------
(* Loading.                                                                *)

\* uniqueStrings: of the texts that differ in case only the first is kept.
uniqueStrings(list) ==
  {list[i] : i \in {i \in DOMAIN list :
                      \A j \in DOMAIN list : j < i => Folded[list[j]] # Folded[list[i]]}}

\* A text of which nothing is left is dropped, whatever the others are.
sanitizeStringList(list) ==
  uniqueStrings([i \in DOMAIN list |-> Sanitized[list[i]]]) \ {Empty}

\* A source that is not there, or that is no record, gives nothing.
SourceTriggers(source) ==
  IF source = Missing THEN {} ELSE sanitizeStringList(source.triggers)

\* The manifest's own triggers count when there are any, also when none of
\* them is left after sanitizing.
HydratedTriggers(skill) ==
  IF skill.triggers # Missing /\ skill.triggers # <<>>
  THEN sanitizeStringList(skill.triggers)
  ELSE IF SourceTriggers(skill.frontmatter) # {} THEN SourceTriggers(skill.frontmatter)
  ELSE SourceTriggers(skill.legacy)

Setting(source, field) == IF source = Missing THEN Missing ELSE source[field]

Otherwise(value, default) == IF value = Missing THEN default ELSE value

\* The manifest first, then the front matter, then triggers.json, then the
\* default of the schema.
Hydrated(skill, field, default) ==
  Otherwise(skill[field],
    Otherwise(Setting(skill.frontmatter, field),
      Otherwise(Setting(skill.legacy, field), default)))

Blank(text) == Trimmed[text] = Empty

\* skillDefinitionSchema on a hydrated skill.
Parses(skill) ==
  /\ skill.id # Missing /\ ~ Blank(skill.id)
  /\ skill.name # Missing /\ Sanitized[skill.name] # Empty
  /\ skill.domains # Missing /\ sanitizeStringList(skill.domains) # {}
  /\ HydratedTriggers(skill) # {}
  /\ Hydrated(skill, "activation", "auto") # Invalid
  /\ Hydrated(skill, "priority", "medium") # Invalid
  /\ Hydrated(skill, "contextLoad", "minimal") # Invalid
  /\ skill.allowedAgents # Invalid
  /\ skill.allowedAgents # Missing =>
       skill.allowedAgents # <<>> /\ \A i \in DOMAIN skill.allowedAgents : ~ Blank(skill.allowedAgents[i])

\* The skill that results. A skill for everybody has no list of agents.
Definition(skill) ==
  [id            |-> Trimmed[skill.id],
   domains       |-> sanitizeStringList(skill.domains),
   triggers      |-> HydratedTriggers(skill),
   activation    |-> Hydrated(skill, "activation", "auto"),
   priority      |-> Hydrated(skill, "priority", "medium"),
   allowedAgents |-> IF skill.allowedAgents = Missing THEN <<>>
                     ELSE [i \in DOMAIN skill.allowedAgents |-> Trimmed[skill.allowedAgents[i]]]]

\* normalize of validator.ts.
normalize(text) == Folded[Trimmed[text]]

AreDistinct(list) ==
  \A i, j \in DOMAIN list : i # j => normalize(list[i]) # normalize(list[j])

DuplicateTriggers(skill) ==
  \E s, t \in skill.triggers : s # t /\ normalize(s) = normalize(t)

validateSkillManifest(skills) ==
  /\ AreDistinct([i \in DOMAIN skills |-> skills[i].id])
  /\ \A i \in DOMAIN skills :
       /\ ~ DuplicateTriggers(skills[i])
       /\ \A t \in skills[i].triggers : normalize(t) \notin BadTriggers \cup {Empty}
       /\ AreDistinct(skills[i].allowedAgents)
       /\ \A k \in DOMAIN skills[i].allowedAgents :
            normalize(skills[i].allowedAgents[k]) \notin BadAgents \cup {Empty}

\* The manifest that is named, or that of the sources, or the one that was built.
resolveSkillManifestPath(files, named) ==
  IF named # Missing THEN named
  ELSE IF files["source"] = Missing /\ files["dist"] # Missing THEN "dist" ELSE "source"

\* A source that cannot be read or parsed refuses the manifest, also where the
\* manifest has triggers of its own.
SourcesParse(manifest) ==
  \A i \in DOMAIN manifest : manifest[i].frontmatter # Invalid /\ manifest[i].legacy # Invalid

Definitions(manifest) == [i \in DOMAIN manifest |-> Definition(manifest[i])]

Loads(manifest) ==
  /\ SourcesParse(manifest)
  /\ \A i \in DOMAIN manifest : Parses(manifest[i])
  /\ validateSkillManifest(Definitions(manifest))

\* The skills, or Invalid when loadSkillManifest throws.
loadSkillManifest(files, named) ==
  LET manifest == files[resolveSkillManifestPath(files, named)]
  IN  IF manifest \in {Missing, Invalid} THEN Invalid
      ELSE IF Loads(manifest) THEN Definitions(manifest)
      ELSE Invalid

\* SkillRegistry.fromManifest: a name that is taken throws.
Registers(skills) == \A i, j \in DOMAIN skills : i # j => skills[i].id # skills[j].id

-----------------------------------------------------------------------------
(* Activation.                                                             *)

\* limit is Missing or a whole number.
IsSkillRequest(request) ==
  /\ DOMAIN request = {"query", "filePaths", "domains", "includeManual", "limit", "agentId"}
  /\ request.query \subseteq Texts /\ request.domains \subseteq Texts
  /\ request.filePaths \subseteq SUBSET Texts
  /\ request.includeManual \in BOOLEAN
  /\ request.limit \in Optional(Int)
  /\ request.agentId \in Optional(Texts)

\* A skill without a list, or with an empty one, is for everybody; a caller
\* without a name is nobody.
isAllowedForAgent(skill, agentId) ==
  \/ skill.allowedAgents = <<>>
  \/ /\ agentId \notin {Missing, Empty}
     /\ \E k \in DOMAIN skill.allowedAgents : Plain[skill.allowedAgents[k]] = Plain[agentId]

InQuery(skill, request) == skill.triggers \cap request.query

\* A trigger that is in the query is not looked for in the paths.
InPaths(skill, request) == (skill.triggers \cap UNION request.filePaths) \ request.query

MatchedDomains(skill, request) ==
  {d \in skill.domains : \E r \in request.domains : Plain[d] = Plain[r]}

priorityScore(priority) ==
  CASE priority = "low" -> 0 [] priority = "medium" -> 1 [] priority = "high" -> 2

Score(skill, request) ==
  priorityScore(skill.priority) + 3 * Cardinality(InQuery(skill, request))
    + 4 * Cardinality(InPaths(skill, request)) + 2 * Cardinality(MatchedDomains(skill, request))

\* buildSuggestion: a skill needs a reason, not only a priority.
IsSuggestion(skill, request) ==
  /\ request.includeManual \/ skill.activation # "manual"
  /\ isAllowedForAgent(skill, request.agentId)
  /\ InQuery(skill, request) \cup InPaths(skill, request) \cup MatchedDomains(skill, request) # {}

\* The sort is stable.
ComesBefore(skills, i, j, request) ==
  LET score(k) == Score(skills[k], request)
      place(k) == Collation[skills[k].id]
  IN  \/ score(i) > score(j)
      \/ score(i) = score(j) /\ place(i) < place(j)
      \/ score(i) = score(j) /\ place(i) = place(j) /\ i < j

SuggestionLimit(request) ==
  LET limit == Otherwise(request.limit, 5) IN IF limit < 1 THEN 1 ELSE limit

\* The skills that are suggested; their order is that of ComesBefore.
suggestSkills(skills, request) ==
  LET found == {i \in DOMAIN skills : IsSuggestion(skills[i], request)}
  IN  {skills[i] : i \in {i \in found :
         Cardinality({j \in found : ComesBefore(skills, j, i, request)}) < SuggestionLimit(request)}}

\* The skill of that name in a registry, or Missing when loadSkill throws.
loadSkill(skills, skillId, agentId) ==
  IF \E i \in DOMAIN skills : skills[i].id = skillId /\ isAllowedForAgent(skills[i], agentId)
  THEN skills[CHOOSE i \in DOMAIN skills : skills[i].id = skillId]
  ELSE Missing

-----------------------------------------------------------------------------
(* What the parts owe to one another.                                      *)

\* A manifest that loads makes a registry, and what is suggested to an agent is
\* loaded for that agent by its name (loadSkillManifest, SkillRegistry,
\* suggestSkills and loadSkill).
SuggestionsCanBeLoaded(manifests, requests) ==
  \A manifest \in manifests, request \in requests :
    LET skills == Definitions(manifest)
    IN  Loads(manifest) =>
          /\ Registers(skills)
          /\ \A s \in suggestSkills(skills, request) :
               loadSkill(skills, s.id, request.agentId) = s

\* A skill that the manifest restricts is neither suggested to nor loaded for
\* anyone else: no list of agents comes out empty, which would open the skill
\* to everybody (skillPermissionsSchema and isAllowedForAgent).
RestrictionsHold(manifests, requests) ==
  \A manifest \in manifests, request \in requests :
    LET skills == Definitions(manifest)
        agent  == request.agentId
        outsider(i) ==
          /\ manifest[i].allowedAgents # Missing
          /\ agent # Missing => \A k \in DOMAIN manifest[i].allowedAgents :
                                  Plain[Trimmed[manifest[i].allowedAgents[k]]] # Plain[agent]
    IN  Loads(manifest) => \A i \in DOMAIN manifest : outsider(i) =>
          /\ skills[i] \notin suggestSkills(skills, request)
          /\ loadSkill(skills, skills[i].id, agent) = Missing

\* More paths and more domains, with the same query, never cost a skill its
\* suggestion or lower its score (buildSuggestion). More of a query may: a
\* trigger counts three there, and four in a path.
MoreContextScoresNoLess(manifests, requests) ==
  \A manifest \in manifests, request, more \in requests :
    /\ more.query = request.query
    /\ UNION request.filePaths \subseteq UNION more.filePaths
    /\ request.domains \subseteq more.domains
    /\ more.includeManual = request.includeManual
    /\ more.agentId = request.agentId
    => \A i \in DOMAIN manifest : Parses(manifest[i]) =>
         LET skill == Definition(manifest[i])
         IN  /\ Score(skill, request) <= Score(skill, more)
             /\ IsSuggestion(skill, request) => IsSuggestion(skill, more)

\* The validator never refuses triggers as duplicates: those that differ in case
\* or white space only have been dropped before, whichever source they come
\* from (uniqueStrings and validateSkillManifest).
NoTriggerTwice(manifests) ==
  \A manifest \in manifests : \A i \in DOMAIN manifest :
    Parses(manifest[i]) => ~ DuplicateTriggers(Definition(manifest[i]))

=============================================================================
