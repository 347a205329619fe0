------------------------ MODULE AgentCommands_proofs ------------------------
(***************************************************************************)
(* The agents: commands, for every command and any number of recorder      *)
(* faults: what is recorded is true, and what throws is recorded. Before   *)
(* that the gate of the verifier, for every handoff and all evidence: it   *)
(* is monotone, and it never passes what the reviewer finds critical.      *)
(* After it the search and the scout: what is answered is whole, and the   *)
(* order in which ripgrep printed it makes no difference.                  *)
(***************************************************************************)
EXTENDS AgentCommands, Ordering_proofs

\* Evidence that is at least as good has at least the effective rates, also
\* those that default to another one (verifierTrustInputSchema).
LEMMA RatesGrow ==
  ASSUME NEW input \in TrustInput, NEW better \in TrustInput, AtLeast(better, input),
         NEW rate \in Rates, NEW low \in 0 .. 10, NEW high \in 0 .. 10, low <= high
  PROVE  /\ Given(input, rate, low) \in 0 .. 10
         /\ Given(better, rate, high) \in 0 .. 10
         /\ Given(input, rate, low) <= Given(better, rate, high)
<1>1. PICK a \in SUBSET Rates : input.rates \in [a -> 0 .. 10]
  BY DEF TrustInput
<1>2. better.rates \in [a -> 0 .. 10]
  BY <1>1 DEF TrustInput, AtLeast
<1> QED
  BY <1>1, <1>2 DEF Given, AtLeast

\* The clamp keeps the order and bounds what it is given (clamp).
LEMMA ClampGrows ==
  ASSUME NEW top \in Nat, NEW x \in Int, NEW y \in Int, x <= y
  PROVE  /\ clamp(x, 0, top) \in 0 .. top
         /\ clamp(y, 0, top) \in 0 .. top
         /\ clamp(x, 0, top) <= clamp(y, 0, top)
BY DEF clamp

\* The weighted sum of rates that have grown has grown (weightedScore).
LEMMA SumGrows ==
  ASSUME NEW t1 \in Int, NEW c1 \in Int, NEW e1 \in Int, NEW v1 \in Int, NEW r1 \in Int,
         NEW t2 \in Int, NEW c2 \in Int, NEW e2 \in Int, NEW v2 \in Int, NEW r2 \in Int,
         t1 <= t2, c1 <= c2, e1 <= e2, v1 <= v2, r1 <= r2,
         NEW p1 \in Int, NEW p2 \in Int, p2 <= p1
  PROVE  35 * t1 + 20 * c1 + 20 * e1 + 15 * v1 + 10 * r1 - p1
           <= 35 * t2 + 20 * c2 + 20 * e2 + 15 * v2 + 10 * r2 - p2
OBVIOUS

\* Hence the score grows, through the clamp (trustScore in
\* VerifierSubagent.assess).
LEMMA ScoreGrows ==
  ASSUME NEW input \in TrustInput, NEW better \in TrustInput, AtLeast(better, input)
  PROVE  /\ trustScore(input) \in Int
         /\ trustScore(better) \in Int
         /\ trustScore(input) <= trustScore(better)
<1> DEFINE C(i) == Given(i, "completeness", 0)
           E(i) == Given(i, "evidenceQuality", 0)
           T(i) == Given(i, "testPassRate", 0)
           V(i) == Given(i, "coverage", C(i))
           R(i) == Given(i, "reproducibility", E(i))
           Rise(x, y) == x \in 0 .. 10 /\ y \in 0 .. 10 /\ x <= y
<1>1. ASSUME NEW rate \in Rates, NEW low, NEW high, Rise(low, high)
      PROVE  Rise(Given(input, rate, low), Given(better, rate, high))
  BY <1>1, RatesGrow
<1>2. Rise(0, 0)
  OBVIOUS
<1>3. Rise(C(input), C(better)) /\ Rise(E(input), E(better)) /\ Rise(T(input), T(better))
  <2> HIDE DEF Rise
  <2> QED BY <1>1, <1>2 DEF Rates
<1>4. Rise(V(input), V(better)) /\ Rise(R(input), R(better))
  <2> HIDE DEF Rise, C, E
  <2> QED BY <1>1, <1>3 DEF Rates
<1>5. /\ severityPenalty(input.severity) \in Int
      /\ severityPenalty(better.severity) \in Int
      /\ severityPenalty(better.severity) <= severityPenalty(input.severity)
  BY DEF AtLeast, severityPenalty
<1>6. /\ weightedScore(input) \in Int
      /\ weightedScore(better) \in Int
      /\ weightedScore(input) <= weightedScore(better)
  <2>1. weightedScore(input) =
          35 * T(input) + 20 * C(input) + 20 * E(input) + 15 * V(input) + 10 * R(input)
            - severityPenalty(input.severity)
    BY DEF weightedScore
  <2>2. weightedScore(better) =
          35 * T(better) + 20 * C(better) + 20 * E(better) + 15 * V(better) + 10 * R(better)
            - severityPenalty(better.severity)
    BY DEF weightedScore
  <2>3. /\ C(input) \in Int /\ C(better) \in Int /\ C(input) <= C(better)
        /\ E(input) \in Int /\ E(better) \in Int /\ E(input) <= E(better)
        /\ T(input) \in Int /\ T(better) \in Int /\ T(input) <= T(better)
        /\ V(input) \in Int /\ V(better) \in Int /\ V(input) <= V(better)
        /\ R(input) \in Int /\ R(better) \in Int /\ R(input) <= R(better)
    <3> HIDE DEF C, E, T, V, R
    <3> QED BY <1>3, <1>4
  <2> HIDE DEF C, E, T, V, R
  <2>4. weightedScore(input) \in Int /\ weightedScore(better) \in Int
    BY <2>1, <2>2, <2>3, <1>5
  <2>5. weightedScore(input) <= weightedScore(better)
    <3>1. 35 * T(input) + 20 * C(input) + 20 * E(input) + 15 * V(input) + 10 * R(input)
            - severityPenalty(input.severity)
          <= 35 * T(better) + 20 * C(better) + 20 * E(better) + 15 * V(better) + 10 * R(better)
            - severityPenalty(better.severity)
      BY <2>3, <1>5, SumGrows
    <3> QED BY <3>1, <2>1, <2>2
  <2> QED BY <2>4, <2>5
<1>7. MaxScore \in Nat
  BY DEF MaxScore
<1> QED
  BY <1>6, <1>7, ClampGrows DEF trustScore

\* Which dangers are found does not depend on where they are found
\* (detectDangerousPatterns).
LEMMA DangersFound ==
  ASSUME NEW h \in Handoff
  PROVE  {p.category : p \in detectDangerousPatterns(h)} = h.query \cup h.analysis
<1> DEFINE found == detectDangerousPatterns(h)
<1>1. ASSUME NEW d \in h.query
      PROVE  \E p \in found : p.category = d
  <2>1. [category |-> d, source |-> "query"] \in found
    BY DEF detectDangerousPatterns
  <2> QED BY <2>1
<1>2. ASSUME NEW d \in h.analysis \ h.query
      PROVE  \E p \in found : p.category = d
  <2>1. [category |-> d, source |-> "analysis"] \in found
    BY DEF detectDangerousPatterns
  <2> QED BY <2>1
<1>3. ASSUME NEW p \in found
      PROVE  p.category \in h.query \cup h.analysis
  BY DEF detectDangerousPatterns
<1>4. ASSUME NEW F, NEW Q, NEW A,
             \A d \in Q : \E p \in F : p.category = d,
             \A d \in A \ Q : \E p \in F : p.category = d,
             \A p \in F : p.category \in Q \cup A
      PROVE  {p.category : p \in F} = Q \cup A
  BY <1>4
<1> HIDE DEF found
<1>5. {p.category : p \in found} = h.query \cup h.analysis
  BY <1>1, <1>2, <1>3, <1>4
<1> QED
  BY <1>5 DEF found

\* A severity that costs no more than one that is not high is not high either
\* (severityPenalty).
LEMMA SeverityOrder ==
  ASSUME NEW s \in Severities \cup {"none"}, NEW t \in Severities \cup {"none"},
         severityPenalty(t) <= severityPenalty(s), s \notin {"high", "critical"}
  PROVE  t \notin {"high", "critical"}
BY DEF Severities, severityPenalty

\* Better evidence about a safer handoff keeps a gate that passes passing
\* (VerifierSubagent.assess), for every handoff and all evidence.
THEOREM GateMonotone == GateIsMonotone(Handoff, TrustInput)
<1> SUFFICES ASSUME NEW h \in Handoff, NEW safer \in Handoff,
                    NEW input \in TrustInput, NEW better \in TrustInput,
                    safer.query \cup safer.analysis \subseteq h.query \cup h.analysis,
                    AtLeast(better, input),
                    blockers(h, input) = {}
             PROVE  blockers(safer, better) = {}
  BY DEF GateIsMonotone, gateDecision
<1>1. {p.category : p \in detectDangerousPatterns(safer)} = {}
  BY DangersFound DEF blockers
<1>2. ~(Given(better, "testPassRate", 0) < 10)
  <2>1. ~(Given(input, "testPassRate", 0) < 10)
    BY DEF blockers
  <2> QED BY <2>1, RatesGrow DEF Rates
<1>3. better.severity \notin {"high", "critical"}
  <2>1. input.severity \notin {"high", "critical"}
    BY DEF blockers
  <2> QED BY <2>1, SeverityOrder DEF AtLeast, TrustInput
<1>4. ~(trustScore(better) < TrustThreshold)
  <2>1. ~(trustScore(input) < TrustThreshold)
    BY DEF blockers
  <2>2. TrustThreshold \in Int
    BY DEF TrustThreshold
  <2> QED BY <2>1, <2>2, ScoreGrows
<1> QED
  BY <1>1, <1>2, <1>3, <1>4 DEF blockers

\* What passes the verifier has no critical finding of the reviewer, for every
\* handoff and all evidence.
THEOREM PassHasNoCritical == PassMeansNoCritical(Handoff, TrustInput)
<1> SUFFICES ASSUME NEW h \in Handoff, NEW input \in TrustInput,
                    blockers(h, input) = {}, NEW f \in Findings(h)
             PROVE  f.severity # "critical"
  BY DEF PassMeansNoCritical, gateDecision
<1>1. detectDangerousPatterns(h) = {}
  BY DEF blockers
<1> QED
  BY <1>1 DEF Findings

-----------------------------------------------------------------------------
(***************************************************************************)
(* What a command records. A verdict is judged together with those the     *)
(* handler still has to record: `Planned` is what will be recorded if      *)
(* nothing stops the handler, and it is true before a word of it is        *)
(* written, hence so is each of its beginnings. Before that only searches  *)
(* are recorded, each with a number of its own (`Searching`).              *)
(***************************************************************************)
Planned == records \o todo

OneVerdictIn(s) ==
  \A i, j \in DOMAIN s :
    (s[i].who = s[j].who /\ s[i].nr = s[j].nr /\ s[i].ok = TRUE /\ s[j].ok = FALSE) =>
      s[i].who = "search" /\ s[i].daily = FALSE /\ i < j

\* A success of that agent is among the first n.
Succeeds(s, n, who) == \E j \in 1 .. n : s[j].who = who /\ s[j].ok = TRUE

NoneFailed(s) == \A i \in DOMAIN s : s[i].who = "search" => s[i].ok = TRUE

BackedIn(s, kind) ==
  \A i \in DOMAIN s : s[i].ok = TRUE =>
    /\ s[i].who \in Agents =>
         Succeeds(s, i - 1, "expert") /\ (kind = "scout" => Succeeds(s, i - 1, "search"))
    /\ s[i].who = "expert" => NoneFailed(s)

TrueIn(s, kind) == OneVerdictIn(s) /\ BackedIn(s, kind)

BothFail(s, kind) ==
  /\ \E i \in DOMAIN s : s[i].who = "expert" /\ s[i].ok = FALSE
  /\ \E i \in DOMAIN s : s[i].who = kind /\ s[i].ok = FALSE

NoSearchIn(plan) == \A i \in DOMAIN plan : plan[i].who # "search"

\* Only searches, with numbers up to n.
SearchesIn(s, n) == \A i \in DOMAIN s : s[i].who = "search" /\ s[i].nr <= n

\* What is recorded before the handler has its answer.
Searching ==
  /\ SearchesIn(records, child.nr)
  /\ OneVerdictIn(records)
  /\ success = FALSE
  /\ \/ todo = <<>> /\ NoneFailed(records)
     \/ todo = <<Entry("expert", FALSE)>> /\ command.kind = "workflow"
  /\ pc \in {"search", "searchDone"} => \A i \in DOMAIN records : records[i].nr # child.nr
  /\ pc = "searchFailed" =>
       \A i \in DOMAIN records : records[i].nr = child.nr =>
         records[i].ok = TRUE /\ records[i].daily = FALSE
  /\ pc = "analyze" => \E i \in DOMAIN records : records[i].ok = TRUE

Places == {"idle", "agent", "search", "searchDone", "searchFailed", "analyze", "record", "done"}

\* Where the handler is, and what that says of the records.
Shape ==
  /\ pc \in Places
  /\ command \in Commands
  /\ records \in Seq(Verdict)
  /\ todo \in Seq(Verdict)
  /\ success \in BOOLEAN
  /\ faults \in Nat
  /\ DOMAIN child = {"nr", "state", "read", "printed"} /\ child.nr \in Nat
  /\ pc \notin {"record", "done"} => Searching
  /\ pc \in {"search", "searchDone", "searchFailed", "analyze"} =>
       command.kind \in {"scout", "workflow"}
  /\ NoSearchIn(todo)
  /\ pc # "done" => outcome = "none"

CInv ==
  /\ Shape
  /\ pc \in {"record", "done"} => TrueIn(Planned, command.kind)
  /\ (pc = "record" /\ success = FALSE /\ command.kind \in Agents) =>
       BothFail(Planned, command.kind)
  /\ ThrowIsRecorded

\* A beginning of what is true is true.
LEMMA TrueBeginning ==
  ASSUME NEW s \in Seq(Verdict), NEW t \in Seq(Verdict), NEW kind,
         TrueIn(s \o t, kind)
  PROVE  TrueIn(s, kind)
<1>1. Len(s) \in Nat /\ Len(t) \in Nat /\ DOMAIN s = 1 .. Len(s)
      /\ DOMAIN (s \o t) = 1 .. Len(s) + Len(t)
  OBVIOUS
<1>2. \A i \in DOMAIN s : i \in DOMAIN (s \o t) /\ (s \o t)[i] = s[i]
  OBVIOUS
<1> DEFINE u == s \o t
<1> HIDE DEF u
<1>3. OneVerdictIn(s)
  BY <1>2 DEF TrueIn, OneVerdictIn
<1>4. BackedIn(s, kind)
  <2> SUFFICES ASSUME NEW i \in DOMAIN s, s[i].ok = TRUE
               PROVE  /\ s[i].who \in Agents =>
                           Succeeds(s, i - 1, "expert") /\ (kind = "scout" => Succeeds(s, i - 1, "search"))
                      /\ s[i].who = "expert" => NoneFailed(s)
    BY DEF BackedIn
  <2>1. \A j \in 1 .. i - 1 : u[j] = s[j]
    BY <1>1, <1>2 DEF u
  <2>2. /\ u[i] = s[i] /\ i \in DOMAIN u
        /\ s[i].who \in Agents =>
             Succeeds(u, i - 1, "expert") /\ (kind = "scout" => Succeeds(u, i - 1, "search"))
        /\ s[i].who = "expert" => NoneFailed(u)
    BY <1>2 DEF TrueIn, BackedIn, u
  <2>3. \A who : Succeeds(u, i - 1, who) => Succeeds(s, i - 1, who)
    BY <2>1 DEF Succeeds
  <2>4. NoneFailed(u) => NoneFailed(s)
    BY <1>2 DEF NoneFailed, u
  <2> QED BY <2>2, <2>3, <2>4
<1> QED BY <1>3, <1>4 DEF TrueIn

\* Searches alone are true.
LEMMA SearchesAreTrue ==
  ASSUME NEW s \in Seq(Verdict), NEW n, SearchesIn(s, n), OneVerdictIn(s), NEW kind
  PROVE  TrueIn(s, kind)
<1>1. "search" \notin Agents
  BY DEF Agents
<1> QED BY <1>1 DEF TrueIn, BackedIn, SearchesIn

\* What a handler plans: no search, no agent with two verdicts, and an agent's
\* success only after the expert's.
PlanIn(t) ==
  /\ t \in Seq(Verdict)
  /\ NoSearchIn(t)
  /\ \A i, j \in DOMAIN t : t[i].who = t[j].who => t[i].ok = t[j].ok
  /\ \A i \in DOMAIN t : (t[i].ok = TRUE /\ t[i].who \in Agents) => Succeeds(t, i - 1, "expert")

\* A plan without any success.
AllFail(t) == \A i \in DOMAIN t : t[i].ok = FALSE

\* A plan after the searches is true: without a success, or when no search has
\* failed and, for the scout, one has not.
LEMMA PlanAfterSearches ==
  ASSUME NEW s \in Seq(Verdict), NEW n, SearchesIn(s, n), OneVerdictIn(s),
         NEW t, PlanIn(t), NEW kind,
         AllFail(t) \/ (NoneFailed(s) /\ (kind = "scout" => Succeeds(s, Len(s), "search")))
  PROVE  TrueIn(s \o t, kind)
<1> DEFINE u == s \o t
<1>1. /\ Len(s) \in Nat /\ Len(t) \in Nat
      /\ DOMAIN s = 1 .. Len(s) /\ DOMAIN t = 1 .. Len(t)
      /\ DOMAIN u = 1 .. Len(s) + Len(t)
  BY DEF PlanIn
<1>2. \A i \in DOMAIN s : i \in DOMAIN u /\ u[i] = s[i] /\ i <= Len(s)
  BY DEF PlanIn
<1>3. \A i \in DOMAIN u : i > Len(s) => i - Len(s) \in DOMAIN t /\ u[i] = t[i - Len(s)]
  BY <1>1 DEF PlanIn
<1>4. \A j \in DOMAIN t : Len(s) + j \in DOMAIN u /\ u[Len(s) + j] = t[j]
  BY <1>1 DEF PlanIn
<1>5. \A i \in DOMAIN u : u[i] \in Verdict
  BY <1>1 DEF PlanIn
<1> HIDE DEF u
<1>6. "search" \notin Agents /\ "search" # "expert"
  BY DEF Agents
<1>7. \A i \in DOMAIN u : i <= Len(s) => i \in DOMAIN s /\ u[i] = s[i] /\ u[i].who = "search"
  BY <1>1, <1>2 DEF SearchesIn
<1>8. \A i \in DOMAIN u : i > Len(s) => u[i].who # "search"
  BY <1>3 DEF PlanIn, NoSearchIn
<1>9. OneVerdictIn(u)
  <2> SUFFICES ASSUME NEW i \in DOMAIN u, NEW j \in DOMAIN u,
                      u[i].who = u[j].who, u[i].nr = u[j].nr, u[i].ok = TRUE, u[j].ok = FALSE
               PROVE  u[i].who = "search" /\ u[i].daily = FALSE /\ i < j
    BY DEF OneVerdictIn
  <2>1. CASE i <= Len(s)
    <3>1. j <= Len(s)
      BY <1>1, <1>7, <1>8, <2>1
    <3> QED BY <1>7, <2>1, <3>1 DEF OneVerdictIn
  <2>2. CASE i > Len(s)
    <3>1. j > Len(s)
      BY <1>1, <1>7, <1>8, <2>2
    <3>2. u[i].ok = u[j].ok
      BY <1>3, <2>2, <3>1 DEF PlanIn
    <3> QED BY <3>2
  <2>3. i <= Len(s) \/ i > Len(s)
    BY <1>1
  <2> QED BY <2>1, <2>2, <2>3
<1>10. BackedIn(u, kind)
  <2> SUFFICES ASSUME NEW i \in DOMAIN u, u[i].ok = TRUE
               PROVE  /\ u[i].who \in Agents =>
                           Succeeds(u, i - 1, "expert") /\ (kind = "scout" => Succeeds(u, i - 1, "search"))
                      /\ u[i].who = "expert" => NoneFailed(u)
    BY DEF BackedIn
  <2>1. CASE i <= Len(s)
    BY <1>6, <1>7, <2>1
  <2>2. CASE i > Len(s)
    <3>1. /\ i - Len(s) \in DOMAIN t /\ t[i - Len(s)] = u[i] /\ ~AllFail(t)
      BY <1>3, <2>2 DEF AllFail
    <3>2. NoneFailed(s) /\ (kind = "scout" => Succeeds(s, Len(s), "search"))
      BY <3>1
    <3>3. kind = "scout" => Succeeds(u, i - 1, "search")
      <4>1. \A j \in 1 .. Len(s) : j \in 1 .. i - 1 /\ u[j] = s[j]
        BY <1>1, <1>2, <2>2
      <4> QED BY <3>2, <4>1 DEF Succeeds
    <3>4. ASSUME u[i].who \in Agents
          PROVE  Succeeds(u, i - 1, "expert")
      <4>1. PICK j \in 1 .. (i - Len(s)) - 1 : t[j].who = "expert" /\ t[j].ok = TRUE
        BY <3>1, <3>4 DEF PlanIn, Succeeds
      <4>2. j \in DOMAIN t /\ Len(s) + j \in 1 .. i - 1
        BY <1>1, <2>2, <4>1
      <4>3. u[Len(s) + j] = t[j]
        BY <1>4, <4>2
      <4> QED BY <4>1, <4>2, <4>3 DEF Succeeds
    <3>5. NoneFailed(u)
      BY <1>1, <1>7, <1>8, <3>2 DEF NoneFailed
    <3> QED BY <3>3, <3>4, <3>5
  <2>3. i <= Len(s) \/ i > Len(s)
    BY <1>1
  <2> QED BY <2>1, <2>2, <2>3
<1> QED BY <1>9, <1>10 DEF TrueIn, u

\* Recording the first of what is to be recorded plans the same.
LEMMA RecordingKeepsThePlan ==
  ASSUME NEW s \in Seq(Verdict), NEW t \in Seq(Verdict), t # <<>>
  PROVE  /\ Append(s, Head(t)) \in Seq(Verdict)
         /\ Tail(t) \in Seq(Verdict)
         /\ Append(s, Head(t)) \o Tail(t) = s \o t
<1>1. Append(s, Head(t)) \in Seq(Verdict) /\ Tail(t) \in Seq(Verdict)
  OBVIOUS
<1>2. Len(Append(s, Head(t)) \o Tail(t)) = Len(s \o t)
  OBVIOUS
<1>3. ASSUME NEW i \in 1 .. Len(s \o t)
      PROVE  (Append(s, Head(t)) \o Tail(t))[i] = (s \o t)[i]
  <2>1. CASE i <= Len(s)
    BY <2>1
  <2>2. CASE i = Len(s) + 1
    BY <2>2
  <2>3. CASE i > Len(s) + 1
    BY <2>3
  <2> QED BY <2>1, <2>2, <2>3
<1>4. Append(s, Head(t)) \o Tail(t) \in Seq(Verdict) /\ s \o t \in Seq(Verdict)
  BY <1>1
<1> QED BY <1>1, <1>2, <1>3, <1>4

\* The verdicts of a command, by name.
LEMMA Verdicts ==
  ASSUME NEW who \in Who, NEW ok \in BOOLEAN
  PROVE  Entry(who, ok) \in Verdict /\ Entry(who, ok).who = who /\ Entry(who, ok).ok = ok
<1>1. 0 \in Nat /\ TRUE \in BOOLEAN
  OBVIOUS
<1> QED BY <1>1, Zenon DEF Entry, Verdict

LEMMA SearchVerdicts ==
  ASSUME NEW nr \in Nat, NEW ok \in BOOLEAN
  PROVE  LET e == SearchEntry(nr, ok)
             p == [e EXCEPT !.daily = FALSE]
         IN  /\ e \in Verdict /\ e.who = "search" /\ e.ok = ok /\ e.nr = nr
             /\ p \in Verdict /\ p.who = "search" /\ p.ok = ok /\ p.nr = nr /\ p.daily = FALSE
<1> DEFINE a == Entry("search", ok)
           e == SearchEntry(nr, ok)
           p == [e EXCEPT !.daily = FALSE]
<1>1. a \in Verdict /\ a.who = "search" /\ a.ok = ok
  BY Verdicts DEF Who
<1>2. e = [a EXCEPT !.nr = nr]
  BY DEF SearchEntry
<1> HIDE DEF a, e
<1>3. e \in Verdict /\ e.who = "search" /\ e.ok = ok /\ e.nr = nr
  BY <1>1, <1>2 DEF Verdict
<1>4. p \in Verdict /\ p.who = "search" /\ p.ok = ok /\ p.nr = nr /\ p.daily = FALSE
  BY <1>3 DEF Verdict
<1> QED BY <1>3, <1>4 DEF e

\* Short sequences, joined.
LEMMA Joined ==
  ASSUME NEW V, NEW x \in V, NEW y \in V, NEW z \in V
  PROVE  /\ <<>> \o <<x>> = <<x>> /\ <<x>> \o <<>> = <<x>> /\ <<>> \o <<>> = <<>>
         /\ <<x>> \o <<y>> = <<x, y>>
         /\ <<x, y>> \o <<>> = <<x, y>>
         /\ <<x, y>> \o <<z>> = <<x, y, z>>
         /\ <<x>> \o <<y, z>> = <<x, y, z>>
<1>1. ASSUME NEW s \in Seq(V), NEW t \in Seq(V), Len(s) = Len(t),
             \A i \in 1 .. Len(s) : s[i] = t[i]
      PROVE  s = t
  BY <1>1
<1>2. <<x>> \o <<y>> = <<x, y>>
  <2>1. <<x>> \o <<y>> \in Seq(V) /\ <<x, y>> \in Seq(V) /\ Len(<<x>> \o <<y>>) = 2 /\ Len(<<x, y>>) = 2
    OBVIOUS
  <2>2. (<<x>> \o <<y>>)[1] = x /\ (<<x>> \o <<y>>)[2] = y
    OBVIOUS
  <2>3. \A i \in 1 .. 2 : (<<x>> \o <<y>>)[i] = <<x, y>>[i]
    BY <2>2
  <2> QED BY <2>1, <2>3, <1>1
<1>3. <<x, y>> \o <<z>> = <<x, y, z>>
  <2>1. /\ <<x, y>> \o <<z>> \in Seq(V) /\ <<x, y, z>> \in Seq(V)
        /\ Len(<<x, y>> \o <<z>>) = 3 /\ Len(<<x, y, z>>) = 3
    OBVIOUS
  <2>2. /\ (<<x, y>> \o <<z>>)[1] = x
        /\ (<<x, y>> \o <<z>>)[2] = y
        /\ (<<x, y>> \o <<z>>)[3] = z
    OBVIOUS
  <2>3. <<x, y, z>>[1] = x /\ <<x, y, z>>[2] = y /\ <<x, y, z>>[3] = z
    OBVIOUS
  <2>4. \A i \in 1 .. 3 : (<<x, y>> \o <<z>>)[i] = <<x, y, z>>[i]
    BY <2>2, <2>3
  <2> QED BY <2>1, <2>4, <1>1
<1>4. <<x>> \o <<y, z>> = <<x, y, z>>
  <2>1. /\ <<x>> \o <<y, z>> \in Seq(V) /\ <<x, y, z>> \in Seq(V)
        /\ Len(<<x>> \o <<y, z>>) = 3 /\ Len(<<x, y, z>>) = 3
    OBVIOUS
  <2>2. /\ (<<x>> \o <<y, z>>)[1] = x
        /\ (<<x>> \o <<y, z>>)[2] = y
        /\ (<<x>> \o <<y, z>>)[3] = z
    OBVIOUS
  <2>3. <<x, y, z>>[1] = x /\ <<x, y, z>>[2] = y /\ <<x, y, z>>[3] = z
    OBVIOUS
  <2>4. \A i \in 1 .. 3 : (<<x>> \o <<y, z>>)[i] = <<x, y, z>>[i]
    BY <2>2, <2>3
  <2> QED BY <2>1, <2>4, <1>1
<1>5. <<>> \o <<x>> = <<x>> /\ <<x>> \o <<>> = <<x>> /\ <<>> \o <<>> = <<>>
      /\ <<x, y>> \o <<>> = <<x, y>>
  OBVIOUS
<1> QED BY <1>2, <1>3, <1>4, <1>5

\* What the finally block plans: both agents fail.
LEMMA FailurePlan ==
  ASSUME NEW kind \in Agents
  PROVE  LET t == <<Entry("expert", FALSE), Entry(kind, FALSE)>>
         IN  PlanIn(t) /\ AllFail(t) /\ BothFail(t, kind)
<1> DEFINE a == Entry("expert", FALSE)
           b == Entry(kind, FALSE)
           t == <<a, b>>
<1>1. /\ a \in Verdict /\ a.who = "expert" /\ a.ok = FALSE
      /\ b \in Verdict /\ b.who = kind /\ b.ok = FALSE
  BY Verdicts DEF Who
<1>2. kind # "search"
  BY DEF Agents
<1> HIDE DEF a, b
<1>3. DOMAIN t = 1 .. 2 /\ t[1] = a /\ t[2] = b /\ t \in Seq(Verdict)
  BY <1>1
<1>4. \A i \in DOMAIN t : t[i] = a \/ t[i] = b
  BY <1>3
<1>5. 1 \in DOMAIN t /\ 2 \in DOMAIN t
  BY <1>3
<1> HIDE DEF t
<1>6. PlanIn(t)
  BY <1>1, <1>2, <1>3, <1>4 DEF PlanIn, NoSearchIn
<1>7. AllFail(t) /\ BothFail(t, kind)
  BY <1>1, <1>3, <1>4, <1>5 DEF AllFail, BothFail
<1> QED BY <1>6, <1>7 DEF t, a, b

\* What the handlers of the five agents plan.
LEMMA ReplyPlan ==
  ASSUME NEW kind \in Agents, NEW ok \in BOOLEAN
  PROVE  PlanIn(<<Entry("expert", TRUE), Entry(kind, ok)>>)
<1> DEFINE a == Entry("expert", TRUE)
           b == Entry(kind, ok)
           t == <<a, b>>
<1>1. a \in Verdict /\ a.who = "expert" /\ a.ok = TRUE /\ b \in Verdict /\ b.who = kind
  BY Verdicts DEF Who
<1>2. kind \notin {"expert", "search"} /\ "expert" \notin Agents
  BY DEF Agents
<1> HIDE DEF a, b
<1>3. DOMAIN t = 1 .. 2 /\ t[1] = a /\ t[2] = b /\ t \in Seq(Verdict)
  BY <1>1
<1> HIDE DEF t
<1>4. \A i \in DOMAIN t : (i = 1 /\ t[i] = a) \/ (i = 2 /\ t[i] = b)
  BY <1>3
<1>5. NoSearchIn(t) /\ \A i, j \in DOMAIN t : t[i].who = t[j].who => t[i].ok = t[j].ok
  BY <1>1, <1>2, <1>4 DEF NoSearchIn
<1>6. ASSUME NEW i \in DOMAIN t, t[i].who \in Agents
      PROVE  Succeeds(t, i - 1, "expert")
  <2>1. i = 2
    BY <1>1, <1>2, <1>4, <1>6
  <2> QED BY <1>1, <1>3, <2>1 DEF Succeeds
<1> QED BY <1>3, <1>5, <1>6 DEF PlanIn, t, a, b

\* What agents:workflow plans.
LEMMA WorkflowPlan ==
  ASSUME NEW ok \in BOOLEAN
  PROVE  LET t == <<Entry("expert", ok)>>
         IN  PlanIn(t) /\ (ok = FALSE => AllFail(t))
<1> DEFINE a == Entry("expert", ok)
           t == <<a>>
<1>1. a \in Verdict /\ a.who = "expert" /\ a.ok = ok
  BY Verdicts DEF Who
<1>2. "expert" \notin Agents
  BY DEF Agents
<1> HIDE DEF a
<1>3. DOMAIN t = 1 .. 1 /\ t[1] = a /\ t \in Seq(Verdict)
  BY <1>1
<1> HIDE DEF t
<1>4. \A i \in DOMAIN t : t[i] = a
  BY <1>3
<1> QED BY <1>1, <1>2, <1>3, <1>4 DEF PlanIn, NoSearchIn, AllFail, t, a

\* The path has each of its stages once.
LEMMA PathIsDistinct ==
  ASSUME NEW stages
  PROVE  LET path == composeQualityPath(stages)
         IN  /\ path \in Seq(Agents \ {"scout"})
             /\ \A i, j \in DOMAIN path : path[i] = path[j] => i = j
<1> DEFINE path == composeQualityPath(stages)
           one == "tester"
           two == "reviewer"
           three == "verifier"
           when(stage) == IF stage \in stages THEN <<stage>> ELSE <<>>
           Both == {<<>>, <<one>>, <<two>>, <<one, two>>}
           All == Both \cup {<<three>>, <<one, three>>, <<two, three>>, <<one, two, three>>}
<1>1. path = (when(one) \o when(two)) \o when(three)
  BY DEF composeQualityPath
<1>2. {one, two, three} \subseteq Agents \ {"scout"}
  BY DEF Agents
<1>3. one # two /\ two # three /\ one # three
  OBVIOUS
<1> HIDE DEF path, one, two, three
<1>4. when(one) \o when(two) \in Both
  <2> DEFINE V == {one, two, three}
  <2>1. one \in V /\ two \in V
    OBVIOUS
  <2> HIDE DEF V
  <2>2. when(one) \in {<<>>, <<one>>} /\ when(two) \in {<<>>, <<two>>}
    OBVIOUS
  <2> HIDE DEF when
  <2>3. /\ <<>> \o <<two>> = <<two>> /\ <<one>> \o <<>> = <<one>> /\ <<>> \o <<>> = <<>>
        /\ <<one>> \o <<two>> = <<one, two>>
    BY <2>1, Joined
  <2> QED BY <2>2, <2>3
<1>5. path \in All
  <2> DEFINE V == {one, two, three}
  <2>0. one \in V /\ two \in V /\ three \in V
    OBVIOUS
  <2> HIDE DEF V
  <2>1. ASSUME NEW s \in Both, NEW t \in {<<>>, <<three>>}
        PROVE  s \o t \in All
    <3>1. <<>> \o <<three>> = <<three>> /\ <<one>> \o <<>> = <<one>> /\ <<two>> \o <<>> = <<two>>
      BY <2>0, Joined
    <3>2. <<>> \o <<>> = <<>> /\ <<one, two>> \o <<>> = <<one, two>>
      BY <2>0, Joined
    <3>3. <<one>> \o <<three>> = <<one, three>> /\ <<two>> \o <<three>> = <<two, three>>
      BY <2>0, Joined
    <3>4. <<one, two>> \o <<three>> = <<one, two, three>>
      BY <2>0, Joined
    <3> QED BY <3>1, <3>2, <3>3, <3>4
  <2>2. when(three) \in {<<>>, <<three>>}
    OBVIOUS
  <2> HIDE DEF when, Both, All
  <2> QED BY <1>1, <1>4, <2>1, <2>2
<1>6. \A i, j \in DOMAIN path : path[i] = path[j] => i = j
  BY <1>3, <1>5
<1>7. path \in Seq(Agents \ {"scout"})
  <2> DEFINE W == Agents \ {"scout"}
  <2>1. one \in W /\ two \in W /\ three \in W
    BY <1>2
  <2> HIDE DEF W
  <2>2. /\ <<>> \in Seq(W) /\ <<one>> \in Seq(W) /\ <<two>> \in Seq(W) /\ <<three>> \in Seq(W)
        /\ <<one, two>> \in Seq(W) /\ <<one, three>> \in Seq(W) /\ <<two, three>> \in Seq(W)
        /\ <<one, two, three>> \in Seq(W)
    BY <2>1
  <2> QED BY <1>5, <2>2 DEF W
<1> QED BY <1>6, <1>7 DEF path


\* What agents:quality plans, of any stages and any of them executed: a stage is
\* executed only where the expert has a success.
QualityEntries(stages, executed) ==
  LET path == composeQualityPath(stages)
  IN  <<Entry("expert", executed # {})>>
        \o [i \in DOMAIN path |-> Entry(path[i], path[i] \in executed)]

LEMMA QualityPlan ==
  ASSUME NEW stages, NEW executed
  PROVE  PlanIn(QualityEntries(stages, executed))
<1> DEFINE path == composeQualityPath(stages)
           a == Entry("expert", executed # {})
           rest == [i \in DOMAIN path |-> Entry(path[i], path[i] \in executed)]
           t == <<a>> \o rest
<1>1. /\ path \in Seq(Agents \ {"scout"})
      /\ \A i, j \in DOMAIN path : path[i] = path[j] => i = j
  BY PathIsDistinct
<1>2. a \in Verdict /\ a.who = "expert"
  BY Verdicts DEF Who
<1>3. ASSUME NEW i \in DOMAIN path
      PROVE  /\ Entry(path[i], path[i] \in executed) \in Verdict
             /\ Entry(path[i], path[i] \in executed).who = path[i]
             /\ Entry(path[i], path[i] \in executed).ok = (path[i] \in executed)
  <2> HIDE DEF path
  <2>1. path[i] \in Who /\ (path[i] \in executed) \in BOOLEAN
    BY <1>1 DEF Who
  <2> QED BY <2>1, Verdicts
<1>4. "expert" \notin Agents
  BY DEF Agents
<1>5. executed # {} => a.ok = TRUE
  <2>1. (executed # {}) \in BOOLEAN
    OBVIOUS
  <2> QED BY <2>1, Verdicts DEF Who
<1>6. /\ rest \in Seq(Verdict)
      /\ Len(rest) = Len(path)
      /\ \A i \in DOMAIN path : rest[i].who = path[i] /\ rest[i].ok = (path[i] \in executed)
  <2> HIDE DEF path
  <2> DEFINE e(i) == Entry(path[i], path[i] \in executed)
  <2>1. \A i \in DOMAIN path : e(i) \in Verdict /\ e(i).who = path[i] /\ e(i).ok = (path[i] \in executed)
    BY <1>3
  <2> HIDE DEF e
  <2>2. rest = [i \in DOMAIN path |-> e(i)]
    BY DEF e
  <2>3. DOMAIN path = 1 .. Len(path) /\ Len(path) \in Nat
    BY <1>1
  <2>4. rest \in [1 .. Len(path) -> Verdict]
    BY <2>1, <2>2, <2>3
  <2> HIDE DEF rest
  <2>5. rest \in Seq(Verdict) /\ Len(rest) = Len(path)
    BY <2>3, <2>4
  <2>6. \A i \in DOMAIN path : rest[i] = e(i)
    BY <2>2
  <2> QED BY <2>1, <2>5, <2>6
<1> HIDE DEF path, a, rest
<1>7. /\ t \in Seq(Verdict)
      /\ DOMAIN t = 1 .. 1 + Len(path)
      /\ t[1] = a
      /\ \A i \in 2 .. 1 + Len(path) : i - 1 \in DOMAIN path /\ t[i] = rest[i - 1]
  BY <1>1, <1>2, <1>6
<1>8. ASSUME NEW i \in DOMAIN t, i # 1
      PROVE  /\ i - 1 \in DOMAIN path
             /\ t[i].who = path[i - 1] /\ t[i].who \in Agents \ {"scout"}
             /\ t[i].ok = (path[i - 1] \in executed)
  BY <1>1, <1>6, <1>7, <1>8
<1> HIDE DEF t
<1>9. \A i, j \in DOMAIN t : t[i].who = t[j].who => i = j
  <2> SUFFICES ASSUME NEW i \in DOMAIN t, NEW j \in DOMAIN t, t[i].who = t[j].who
               PROVE  i = j
    OBVIOUS
  <2>1. i \in Int /\ j \in Int
    BY <1>7
  <2>2. CASE i = 1 \/ j = 1
    BY <1>2, <1>4, <1>7, <1>8, <2>2
  <2>3. CASE i # 1 /\ j # 1
    <3>1. i - 1 = j - 1
      BY <1>1, <1>8, <2>3
    <3> QED BY <2>1, <3>1
  <2> QED BY <2>2, <2>3
<1>10. ASSUME NEW i \in DOMAIN t, t[i].ok = TRUE, t[i].who \in Agents
       PROVE  Succeeds(t, i - 1, "expert")
  <2>1. i # 1
    BY <1>2, <1>4, <1>7, <1>10
  <2>2. executed # {}
    BY <1>8, <1>10, <2>1
  <2>3. 1 \in 1 .. i - 1
    BY <1>7, <2>1
  <2> QED BY <1>2, <1>5, <1>7, <2>2, <2>3 DEF Succeeds
<1>11. NoSearchIn(t)
  <2>1. "search" \notin Agents /\ "search" # "expert"
    BY DEF Agents
  <2> QED BY <1>2, <1>7, <1>8, <2>1 DEF NoSearchIn
<1>12. QualityEntries(stages, executed) = t
  BY DEF QualityEntries, path, a, rest, t
<1>13. PlanIn(t)
  BY <1>7, <1>9, <1>10, <1>11 DEF PlanIn
<1> QED BY <1>12, <1>13


-----------------------------------------------------------------------------
(* The steps, by what they plan.                                           *)

\* A failure that is planned is recorded, after whatever is before it.
LEMMA FailuresStay ==
  ASSUME NEW s \in Seq(Verdict), NEW t \in Seq(Verdict), NEW kind, BothFail(t, kind)
  PROVE  BothFail(s \o t, kind)
<1> DEFINE u == s \o t
<1>1. \A j \in DOMAIN t : Len(s) + j \in DOMAIN u /\ u[Len(s) + j] = t[j]
  OBVIOUS
<1> HIDE DEF u
<1>2. BothFail(u, kind)
  BY <1>1 DEF BothFail
<1> QED BY <1>2 DEF u

\* The handler goes to record a plan that is true.
LEMMA PlanMade ==
  ASSUME CInv, NEW plan, PlanIn(plan), pc \notin {"record", "done"},
         pc' = "record", todo' = plan, success' \in BOOLEAN,
         records' \in Seq(Verdict), SearchesIn(records', child.nr), OneVerdictIn(records'),
         \/ AllFail(plan)
         \/ /\ NoneFailed(records')
            /\ command.kind = "scout" => Succeeds(records', Len(records'), "search"),
         (success' = FALSE /\ command.kind \in Agents) => BothFail(plan, command.kind),
         UNCHANGED <<command, child, outcome>>, faults' \in Nat
  PROVE  CInv'
<1>1. Shape'
  BY DEF CInv, Shape, Places, PlanIn
<1>2. Planned' = records' \o plan
  BY DEF Planned
<1>3. outcome' = "none"
  BY DEF CInv, Shape
<1>4. ThrowIsRecorded'
  BY <1>3 DEF ThrowIsRecorded
<1>5. TrueIn(Planned, command.kind)'
  <2>1. TrueIn(records' \o plan, command.kind)
    BY PlanAfterSearches
  <2> QED BY <1>2, <2>1
<1>6. (success = FALSE /\ command.kind \in Agents => BothFail(Planned, command.kind))'
  <2>1. plan \in Seq(Verdict)
    BY DEF PlanIn
  <2> QED BY <1>2, <2>1, FailuresStay
<1> QED BY <1>1, <1>4, <1>5, <1>6 DEF CInv

\* An exception in the try block plans a failure of both agents.
LEMMA FailureMade ==
  ASSUME CInv, Failed, command.kind \in Agents, pc \notin {"record", "done"},
         records' \in Seq(Verdict), SearchesIn(records', child.nr), OneVerdictIn(records'),
         UNCHANGED <<command, child, outcome>>, faults' \in Nat
  PROVE  CInv'
<1> DEFINE plan == <<Entry("expert", FALSE), Entry(command.kind, FALSE)>>
<1>1. PlanIn(plan) /\ AllFail(plan) /\ BothFail(plan, command.kind)
  BY FailurePlan, Zenon
<1>2. todo' = plan /\ pc' = "record" /\ success' = success
  BY DEF Failed
<1>3. success' \in BOOLEAN
  BY <1>2 DEF CInv, Shape
<1> HIDE DEF plan
<1> QED BY <1>1, <1>2, <1>3, PlanMade

\* What is recorded is true, wherever the handler is.
LEMMA TrueSoFar ==
  ASSUME CInv
  PROVE  TrueIn(records, command.kind)
<1>1. CASE pc \in {"record", "done"}
  BY <1>1, TrueBeginning DEF CInv, Shape, Planned
<1>2. CASE pc \notin {"record", "done"}
  <2>1. SearchesIn(records, child.nr) /\ OneVerdictIn(records) /\ records \in Seq(Verdict)
    BY <1>2 DEF CInv, Shape, Searching
  <2> QED BY <2>1, SearchesAreTrue
<1> QED BY <1>1, <1>2

\* The handler ends; what throws with no fault of a recorder is recorded.
LEMMA CommandEnded ==
  ASSUME CInv, NEW how, EndCommand(how), UNCHANGED <<command, child, success>>,
         records' \in Seq(Verdict), TrueIn(records', command.kind), faults' \in Nat,
         (how = "threw" /\ command.kind \in Agents /\ faults' = 0) => BothFail(records', command.kind)
  PROVE  CInv'
<1>1. Shape'
  BY DEF CInv, Shape, Places, EndCommand, NoSearchIn
<1>2. Planned' = records'
  <2>1. todo' = <<>>
    BY DEF EndCommand
  <2> QED BY <2>1 DEF Planned
<1>3. ThrowIsRecorded'
  BY DEF ThrowIsRecorded, EndCommand, BothFail, Recorded
<1>4. pc' = "done"
  BY DEF EndCommand
<1>5. TrueIn(Planned, command.kind)'
  BY <1>2
<1> QED BY <1>1, <1>3, <1>4, <1>5 DEF CInv

\* The handler has no answer yet, before the step and after it.
LEMMA StillSearching ==
  ASSUME CInv, command' = command, pc' \in Places \ {"record", "done"}, pc \notin {"record", "done"},
         records' \in Seq(Verdict), todo' \in Seq(Verdict), NoSearchIn(todo'),
         outcome' = outcome, faults' \in Nat,
         DOMAIN child' = {"nr", "state", "read", "printed"}, child'.nr \in Nat,
         pc' \in {"search", "searchDone", "searchFailed", "analyze"} =>
           command.kind \in {"scout", "workflow"},
         Searching'
  PROVE  CInv'
<1>1. success' \in BOOLEAN
  BY DEF Searching
<1>2. outcome' = "none"
  BY DEF CInv, Shape
<1>3. Shape'
  BY <1>1, <1>2 DEF CInv, Shape
<1>4. ThrowIsRecorded'
  BY <1>2 DEF ThrowIsRecorded
<1> QED BY <1>3, <1>4 DEF CInv

\* The handler moves on, and neither plans nor records.
LEMMA OnlyMoves ==
  ASSUME CInv, UNCHANGED <<command, records, todo, success, outcome>>, faults' \in Nat,
         DOMAIN child' = {"nr", "state", "read", "printed"}, child'.nr = child.nr,
         pc \in Places \ {"record", "done"}, pc' \in Places \ {"record", "done"},
         pc' \in {"search", "searchDone"} => pc \in {"search", "searchDone"},
         pc' = "searchFailed" => pc \in {"search", "searchFailed"},
         pc' = "analyze" => pc = "analyze"
  PROVE  CInv'
<1>1. Searching
  BY DEF CInv, Shape
<1>2. Searching'
  BY <1>1 DEF Searching, SearchesIn, OneVerdictIn, NoneFailed, Entry
<1>3. /\ records' \in Seq(Verdict) /\ todo' \in Seq(Verdict) /\ NoSearchIn(todo')
      /\ child'.nr \in Nat
      /\ pc' \in {"search", "searchDone", "searchFailed", "analyze"} =>
           command.kind \in {"scout", "workflow"}
  BY DEF CInv, Shape, NoSearchIn
<1> QED BY <1>2, <1>3, StillSearching

\* A new search has a number that no record has.
LEMMA SearchBegins ==
  ASSUME CInv, UNCHANGED <<command, records, todo, success, outcome, faults>>,
         pc = "agent", pc' \in {"search", "searchFailed"}, SearchRuns,
         NEW state, child' = Child(child.nr + 1, state)
  PROVE  CInv'
<1>1. /\ Searching /\ child.nr \in Nat /\ faults \in Nat
      /\ records \in Seq(Verdict) /\ todo \in Seq(Verdict) /\ NoSearchIn(todo)
  BY DEF CInv, Shape
<1>2. DOMAIN child' = {"nr", "state", "read", "printed"} /\ child'.nr = child.nr + 1
  BY DEF Child
<1>3. \A i \in DOMAIN records : records[i].nr \in Nat
  <2>1. \A i \in DOMAIN records : records[i] \in Verdict
    BY <1>1
  <2> QED BY <2>1 DEF Verdict
<1>4. \A i \in DOMAIN records : records[i].nr <= child.nr + 1 /\ records[i].nr # child.nr + 1
  BY <1>1, <1>3 DEF Searching, SearchesIn
<1>5. Searching'
  BY <1>1, <1>2, <1>4 DEF Searching, SearchesIn, OneVerdictIn, NoneFailed, Entry
<1>6. command.kind \in {"scout", "workflow"} /\ pc' \in Places
  BY DEF SearchRuns, Places
<1>7. records' \in Seq(Verdict) /\ todo' \in Seq(Verdict) /\ NoSearchIn(todo') /\ faults' \in Nat
  BY <1>1 DEF NoSearchIn
<1> QED BY <1>1, <1>2, <1>5, <1>6, <1>7, StillSearching

\* One more record of a search is true: of a success that has no record yet, or
\* of an error that has none but a success which broke off.
LEMMA SearchRecorded ==
  ASSUME NEW s \in Seq(Verdict), NEW n \in Nat, SearchesIn(s, n), OneVerdictIn(s),
         NEW e \in Verdict, e.who = "search", e.nr = n,
         \/ e.ok = TRUE /\ \A i \in DOMAIN s : s[i].nr # n
         \/ e.ok = FALSE /\ \A i \in DOMAIN s : s[i].nr = n => s[i].ok = TRUE /\ s[i].daily = FALSE
  PROVE  /\ Append(s, e) \in Seq(Verdict)
         /\ SearchesIn(Append(s, e), n) /\ OneVerdictIn(Append(s, e))
<1> DEFINE u == Append(s, e)
<1>1. /\ u \in Seq(Verdict) /\ Len(s) \in Nat
      /\ DOMAIN s = 1 .. Len(s) /\ DOMAIN u = 1 .. Len(s) + 1
      /\ u[Len(s) + 1] = e /\ \A i \in DOMAIN s : u[i] = s[i]
  OBVIOUS
<1> HIDE DEF u
<1>2. \A i \in DOMAIN u : (i = Len(s) + 1 /\ u[i] = e) \/ (i \in DOMAIN s /\ i < Len(s) + 1 /\ u[i] = s[i])
  BY <1>1
<1>3. SearchesIn(u, n)
  BY <1>2 DEF SearchesIn
<1>4. OneVerdictIn(u)
  <2> SUFFICES ASSUME NEW i \in DOMAIN u, NEW j \in DOMAIN u,
                      u[i].who = u[j].who, u[i].nr = u[j].nr, u[i].ok = TRUE, u[j].ok = FALSE
               PROVE  u[i].who = "search" /\ u[i].daily = FALSE /\ i < j
    BY DEF OneVerdictIn
  <2>1. CASE i \in DOMAIN s /\ j \in DOMAIN s
    BY <1>1, <2>1 DEF OneVerdictIn
  <2>2. CASE i \in DOMAIN s /\ j = Len(s) + 1 /\ u[j] = e
    BY <1>1, <2>2 DEF SearchesIn
  <2>3. CASE i = Len(s) + 1 /\ u[i] = e
    BY <1>1, <1>2, <2>3
  <2> QED BY <1>2, <2>1, <2>2, <2>3
<1> QED BY <1>1, <1>2, <1>3, <1>4 DEF u

\* The try block: the handlers of the agents, without the search of the scout.
LEMMA TryKeeps ==
  ASSUME CInv,
         Begin \/ AgentRejects \/ AgentReplies \/ QualityAnswers \/ WorkflowAnswers \/ HandlerThrows
  PROVE  CInv'
<1>0. records \in Seq(Verdict) /\ faults \in Nat /\ DOMAIN child = {"nr", "state", "read", "printed"}
  BY DEF CInv, Shape
<1>1. CASE Begin
  <2>1. /\ pc = "idle" /\ pc' = "agent"
        /\ UNCHANGED <<command, child, success, todo, records, outcome, faults>>
    BY <1>1 DEF Begin
  <2> QED BY <1>0, <2>1, OnlyMoves DEF Places
<1>2. ASSUME pc = "agent", UNCHANGED <<command, child, records, outcome, faults>>
      PROVE  /\ records' \in Seq(Verdict) /\ SearchesIn(records', child.nr) /\ OneVerdictIn(records')
             /\ faults' \in Nat
             /\ \/ todo = <<>> /\ NoneFailed(records')
                \/ todo # <<>> /\ command.kind = "workflow"
  <2>1. SearchesIn(records, child.nr) /\ OneVerdictIn(records) /\ records \in Seq(Verdict) /\ faults \in Nat
    BY <1>2 DEF CInv, Shape, Searching
  <2>2. \/ todo = <<>> /\ NoneFailed(records)
        \/ todo = <<Entry("expert", FALSE)>> /\ command.kind = "workflow"
    BY <1>2 DEF CInv, Shape, Searching
  <2>3. <<Entry("expert", FALSE)>> # <<>>
    OBVIOUS
  <2> QED BY <1>2, <2>1, <2>2, <2>3
<1>3. CASE AgentRejects
  <2>1. command.kind \in Agents /\ pc = "agent" /\ Failed
        /\ UNCHANGED <<command, child, records, outcome, faults>>
    BY <1>3 DEF AgentRejects
  <2> QED BY <1>2, <2>1, FailureMade
<1>4. CASE AgentReplies
  <2> DEFINE ok == command.kind = "verifier" => gateDecision(createHandoff(command), command.trust) = "pass"
             t == <<Entry("expert", TRUE), Entry(command.kind, ok)>>
  <2>1. /\ command.kind \in Agents \ {"scout"} /\ pc = "agent" /\ Answered(t)
        /\ UNCHANGED <<command, child, records, outcome, faults>>
    BY <1>4 DEF AgentReplies
  <2>2. ok \in BOOLEAN
    OBVIOUS
  <2> HIDE DEF ok
  <2>3. success' = TRUE /\ todo' = t /\ pc' = "record"
    BY <2>1 DEF Answered
  <2>4. PlanIn(t)
    BY <2>1, <2>2, ReplyPlan
  <2> HIDE DEF t
  <2>5. command.kind # "workflow"
    BY <2>1 DEF Agents
  <2> QED BY <1>2, <2>1, <2>3, <2>4, <2>5, PlanMade
<1>5. CASE QualityAnswers
  <2>1. PICK executed \in SUBSET command.stages :
          Answered(QualityEntries(command.stages, executed))
    BY <1>5 DEF QualityAnswers, QualityEntries
  <2> DEFINE t == QualityEntries(command.stages, executed)
  <2>2. /\ command.kind = "quality" /\ pc = "agent"
        /\ UNCHANGED <<command, child, records, outcome, faults>>
    BY <1>5 DEF QualityAnswers
  <2>3. success' = TRUE /\ todo' = t /\ pc' = "record"
    BY <2>1 DEF Answered
  <2>4. PlanIn(t)
    BY QualityPlan
  <2> HIDE DEF t
  <2> QED BY <1>2, <2>2, <2>3, <2>4, PlanMade
<1>6. CASE WorkflowAnswers
  <2>1. PICK completed \in BOOLEAN : /\ todo # <<>> => ~completed
                                     /\ Answered(<<Entry("expert", completed)>>)
    BY <1>6 DEF WorkflowAnswers
  <2> DEFINE t == <<Entry("expert", completed)>>
  <2>2. /\ pc = "agent" /\ command.kind = "workflow"
        /\ UNCHANGED <<command, child, records, outcome, faults>>
    BY <1>6 DEF WorkflowAnswers
  <2>3. success' = TRUE /\ todo' = t /\ pc' = "record"
    BY <2>1 DEF Answered
  <2>4. PlanIn(t) /\ (completed = FALSE => AllFail(t))
    BY WorkflowPlan
  <2> HIDE DEF t
  <2> QED BY <1>2, <2>1, <2>2, <2>3, <2>4, PlanMade
<1>7. CASE HandlerThrows
  <2>1. command.kind \notin Agents /\ records' = records
    BY <1>7 DEF HandlerThrows, Agents
  <2>2. TrueIn(records', command.kind) /\ records' \in Seq(Verdict)
    BY <1>0, <2>1, TrueSoFar
  <2>3. EndCommand("threw") /\ UNCHANGED <<command, child, success>> /\ faults' = faults
    BY <1>7 DEF HandlerThrows
  <2> QED BY <1>0, <2>1, <2>2, <2>3, CommandEnded
<1> QED BY <1>1, <1>3, <1>4, <1>5, <1>6, <1>7

\* A scout that throws, after what has been recorded of its search.
LEMMA ThrowKeeps ==
  ASSUME CInv, ScoutThrows, pc \in {"searchFailed", "analyze"},
         records' \in Seq(Verdict), SearchesIn(records', child.nr), OneVerdictIn(records'),
         UNCHANGED <<command, child, outcome>>, faults' \in Nat
  PROVE  CInv'
<1>1. /\ command.kind \in {"scout", "workflow"} /\ success = FALSE /\ child.nr \in Nat
      /\ DOMAIN child = {"nr", "state", "read", "printed"}
  BY DEF CInv, Shape, Searching
<1>2. CASE command.kind = "scout"
  <2>1. Failed /\ command.kind \in Agents
    BY <1>2 DEF ScoutThrows, Agents
  <2> QED BY <2>1, FailureMade
<1>3. CASE command.kind = "workflow"
  <2> DEFINE t == <<Entry("expert", FALSE)>>
  <2>1. pc' = "agent" /\ todo' = t /\ success' = success
    BY <1>3 DEF ScoutThrows
  <2>2. PlanIn(t)
    BY WorkflowPlan
  <2>3. Searching'
    BY <1>1, <1>3, <2>1 DEF Searching, Entry
  <2> HIDE DEF t
  <2>4. todo' \in Seq(Verdict) /\ NoSearchIn(todo')
    BY <2>1, <2>2 DEF PlanIn
  <2> QED BY <1>1, <2>1, <2>3, <2>4, StillSearching DEF Places
<1> QED BY <1>1, <1>2, <1>3

\* The search of the scout, and ripgrep.
LEMMA SearchKeeps ==
  ASSUME CInv,
         \/ SearchRejects \/ SpawnRipgrep \/ RecordSearch \/ RecordSearchThrows
         \/ RecordSearchError \/ ScoutReplies \/ MemoryThrows
         \/ RipgrepReads \/ RipgrepError \/ RipgrepEnds
  PROVE  CInv'
<1>0. /\ records \in Seq(Verdict) /\ todo \in Seq(Verdict) /\ faults \in Nat /\ child.nr \in Nat
      /\ DOMAIN child = {"nr", "state", "read", "printed"} /\ NoSearchIn(todo)
      /\ pc \notin {"record", "done"} => Searching
  BY DEF CInv, Shape
<1>1. CASE SearchRejects
  BY <1>1, SearchBegins DEF SearchRejects
<1>2. CASE SpawnRipgrep
  BY <1>2, SearchBegins DEF SpawnRipgrep
<1>3. CASE RecordSearch \/ RecordSearchThrows
  <2> DEFINE e == SearchEntry(child.nr, TRUE)
             p == [e EXCEPT !.daily = FALSE]
  <2>1. /\ pc = "searchDone"
        /\ \/ pc' = "analyze" /\ records' = Append(records, e)
           \/ pc' = "searchFailed" /\ (records' = records \/ records' = Append(records, p))
        /\ UNCHANGED <<command, child, success, todo, outcome>>
        /\ faults' = faults \/ faults' = faults + 1
    BY <1>3 DEF RecordSearch, RecordSearchThrows, CannotRecord
  <2>2. /\ e \in Verdict /\ e.who = "search" /\ e.ok = TRUE /\ e.nr = child.nr
        /\ p \in Verdict /\ p.who = "search" /\ p.ok = TRUE /\ p.nr = child.nr /\ p.daily = FALSE
    BY <1>0, SearchVerdicts
  <2> HIDE DEF e, p
  <2>3. /\ SearchesIn(records, child.nr) /\ OneVerdictIn(records) /\ success = FALSE
        /\ \A i \in DOMAIN records : records[i].nr # child.nr
        /\ \/ todo = <<>> /\ NoneFailed(records)
           \/ todo = <<Entry("expert", FALSE)>> /\ command.kind = "workflow"
    BY <1>0, <2>1 DEF Searching
  <2>4. command.kind \in {"scout", "workflow"}
    BY <2>1 DEF CInv, Shape
  <2>5. ASSUME NEW x \in {e, p}, records' = Append(records, x)
        PROVE  /\ records' \in Seq(Verdict)
               /\ SearchesIn(records', child.nr) /\ OneVerdictIn(records')
               /\ \E i \in DOMAIN records' : records'[i] = x
               /\ \A i \in DOMAIN records' :
                    records'[i] = x \/ \E j \in DOMAIN records : records'[i] = records[j]
    <3>1. x \in Verdict /\ x.who = "search" /\ x.nr = child.nr /\ x.ok = TRUE
      BY <2>2, <2>5
    <3>2. /\ Append(records, x) \in Seq(Verdict)
          /\ SearchesIn(Append(records, x), child.nr) /\ OneVerdictIn(Append(records, x))
      BY <1>0, <2>3, <3>1, SearchRecorded
    <3>3. Len(records) + 1 \in DOMAIN records' /\ records'[Len(records) + 1] = x
      BY <1>0, <2>5, <3>1
    <3>4. \A i \in DOMAIN records' :
            records'[i] = x \/ (i \in DOMAIN records /\ records'[i] = records[i])
      BY <1>0, <2>5, <3>1
    <3> QED BY <2>5, <3>2, <3>3, <3>4
  <2>6. NoneFailed(records) => NoneFailed(records')
    BY <2>1, <2>2, <2>5 DEF NoneFailed
  <2>7. Searching' /\ records' \in Seq(Verdict)
    <3>1. CASE pc' = "analyze" /\ records' = Append(records, e)
      BY <2>1, <2>2, <2>3, <2>5, <2>6, <3>1 DEF Searching, Entry
    <3>2. CASE pc' = "searchFailed" /\ records' = records
      BY <1>0, <2>1, <2>3, <3>2 DEF Searching, SearchesIn, OneVerdictIn, NoneFailed, Entry
    <3>3. CASE pc' = "searchFailed" /\ records' = Append(records, p)
      <4>1. \A i \in DOMAIN records' : records'[i].nr = child.nr => records'[i].ok = TRUE /\ records'[i].daily = FALSE
        BY <2>2, <2>3, <2>5, <3>3
      <4> QED BY <2>1, <2>3, <2>5, <2>6, <3>3, <4>1 DEF Searching, Entry
    <3> QED BY <2>1, <3>1, <3>2, <3>3
  <2>8. todo' \in Seq(Verdict) /\ NoSearchIn(todo') /\ faults' \in Nat
    BY <1>0, <2>1 DEF NoSearchIn
  <2> QED BY <1>0, <2>1, <2>4, <2>7, <2>8, StillSearching DEF Places
<1>4. CASE RecordSearchError
  <2> DEFINE e == SearchEntry(child.nr, FALSE)
             p == [e EXCEPT !.daily = FALSE]
  <2>1. /\ pc = "searchFailed" /\ ScoutThrows
        /\ records' = Append(records, e) \/ records' = records \/ records' = Append(records, p)
        /\ UNCHANGED <<command, child, outcome>>
        /\ faults' = faults \/ faults' = faults + 1
    BY <1>4 DEF RecordSearchError, CannotRecord
  <2>2. /\ e \in Verdict /\ e.who = "search" /\ e.ok = FALSE /\ e.nr = child.nr
        /\ p \in Verdict /\ p.who = "search" /\ p.ok = FALSE /\ p.nr = child.nr
    BY <1>0, SearchVerdicts
  <2> HIDE DEF e, p
  <2>3. /\ SearchesIn(records, child.nr) /\ OneVerdictIn(records)
        /\ \A i \in DOMAIN records : records[i].nr = child.nr =>
             records[i].ok = TRUE /\ records[i].daily = FALSE
    BY <1>0, <2>1 DEF Searching
  <2>4. ASSUME NEW x \in {e, p}
        PROVE  /\ Append(records, x) \in Seq(Verdict)
               /\ SearchesIn(Append(records, x), child.nr) /\ OneVerdictIn(Append(records, x))
    <3>1. x \in Verdict /\ x.who = "search" /\ x.nr = child.nr /\ x.ok = FALSE
      BY <2>2
    <3> QED BY <1>0, <2>3, <3>1, SearchRecorded
  <2>5. records' \in Seq(Verdict) /\ SearchesIn(records', child.nr) /\ OneVerdictIn(records')
    BY <1>0, <2>1, <2>3, <2>4
  <2> QED BY <1>0, <2>1, <2>5, ThrowKeeps
<1>5. CASE ScoutReplies
  <2>1. pc = "analyze" /\ UNCHANGED <<command, child, records, outcome, faults>>
    BY <1>5 DEF ScoutReplies
  <2>2. /\ Searching
        /\ command.kind \in {"scout", "workflow"}
        /\ \E i \in DOMAIN records : records[i].who = "search" /\ records[i].ok = TRUE
    BY <2>1 DEF CInv, Shape, Searching, SearchesIn
  <2>3. CASE command.kind = "scout"
    <3> DEFINE t == <<Entry("expert", TRUE), Entry("scout", TRUE)>>
    <3>1. success' = TRUE /\ todo' = t /\ pc' = "record"
      BY <1>5, <2>3 DEF ScoutReplies, Answered
    <3>2. PlanIn(t)
      BY ReplyPlan DEF Agents
    <3> HIDE DEF t
    <3>3. SearchesIn(records', child.nr) /\ OneVerdictIn(records') /\ records' \in Seq(Verdict)
          /\ NoneFailed(records') /\ faults' \in Nat
      BY <1>0, <2>1, <2>2, <2>3 DEF Searching
    <3>4. Succeeds(records', Len(records'), "search")
      <4>1. DOMAIN records = 1 .. Len(records)
        BY <1>0
      <4> QED BY <2>1, <2>2, <4>1 DEF Succeeds
    <3> QED BY <2>1, <3>1, <3>2, <3>3, <3>4, PlanMade
  <2>4. CASE command.kind = "workflow"
    <3>1. pc' = "agent" /\ UNCHANGED <<success, todo>>
      BY <1>5, <2>4 DEF ScoutReplies
    <3> QED BY <1>0, <2>1, <3>1, OnlyMoves DEF Places
  <2> QED BY <2>2, <2>3, <2>4
<1>6. CASE MemoryThrows
  <2>1. pc = "analyze" /\ ScoutThrows /\ UNCHANGED <<command, child, records, outcome, faults>>
    BY <1>6 DEF MemoryThrows
  <2>2. SearchesIn(records', child.nr) /\ OneVerdictIn(records') /\ records' \in Seq(Verdict)
        /\ faults' \in Nat
    BY <1>0, <2>1 DEF Searching
  <2> QED BY <2>1, <2>2, ThrowKeeps
<1>7. CASE RipgrepReads \/ RipgrepError \/ RipgrepEnds
  <2>1. /\ UNCHANGED <<command, success, todo, records, outcome, faults>>
        /\ pc' = pc \/ (pc = "search" /\ pc' \in {"searchDone", "searchFailed"})
    BY <1>7 DEF RipgrepReads, RipgrepPrints, RipgrepError, RipgrepEnds, RipgrepCloses
  <2>2. DOMAIN child' = {"nr", "state", "read", "printed"} /\ child'.nr = child.nr
    <3>1. \/ \E x : child' = [child EXCEPT !.state = x]
          \/ \E x, y : child' = [child EXCEPT !.read = x, !.printed = y]
      <4>1. CASE RipgrepReads
        <5>1. PICK file \in Files :
                child' = [child EXCEPT !.read = @ \cup {file},
                                       !.printed = @ \o parseRipgrepJsonOutput(file, command.matches)]
          BY <4>1 DEF RipgrepReads, RipgrepPrints
        <5> QED BY <5>1
      <4>2. CASE RipgrepError
        BY <4>2 DEF RipgrepError
      <4>3. CASE RipgrepEnds
        BY <4>3 DEF RipgrepEnds, RipgrepCloses
      <4> QED BY <1>7, <4>1, <4>2, <4>3
    <3> QED BY <1>0, <3>1
  <2>3. CASE pc \notin {"record", "done"}
    <3>1. pc \in Places
      BY DEF CInv, Shape
    <3> QED BY <1>0, <2>1, <2>2, <2>3, <3>1, OnlyMoves DEF Places
  <2>4. CASE pc \in {"record", "done"}
    <3>1. pc' = pc
      BY <2>1, <2>4
    <3>2. Shape' /\ ThrowIsRecorded' /\ Planned' = Planned
      BY <1>0, <2>1, <2>2, <2>4, <3>1 DEF CInv, Shape, NoSearchIn, ThrowIsRecorded, Recorded, Planned
    <3> QED BY <2>1, <3>1, <3>2 DEF CInv
  <2> QED BY <2>3, <2>4
<1> QED BY <1>1, <1>2, <1>3, <1>4, <1>5, <1>6, <1>7

\* A record that breaks off is as true as one that does not, of an agent.
LEMMA BrokenOffIsTrue ==
  ASSUME NEW s \in Seq(Verdict), NEW e \in Verdict, e.who # "search", NEW kind,
         TrueIn(Append(s, e), kind)
  PROVE  LET p == [e EXCEPT !.daily = FALSE]
         IN  Append(s, p) \in Seq(Verdict) /\ TrueIn(Append(s, p), kind)
<1> DEFINE p == [e EXCEPT !.daily = FALSE]
           u == Append(s, e)
           w == Append(s, p)
<1>1. p \in Verdict /\ p.who = e.who /\ p.ok = e.ok /\ p.nr = e.nr
  BY DEF Verdict
<1> HIDE DEF p
<1>2. /\ w \in Seq(Verdict) /\ DOMAIN w = 1 .. Len(s) + 1 /\ DOMAIN u = 1 .. Len(s) + 1
      /\ w[Len(s) + 1] = p /\ u[Len(s) + 1] = e
      /\ \A i \in 1 .. Len(s) : w[i] = s[i] /\ u[i] = s[i]
      /\ Len(s) \in Nat
  BY <1>1
<1> HIDE DEF u, w
<1>3. DOMAIN w = DOMAIN u
  BY <1>2
<1>4. \A i \in DOMAIN u : /\ w[i].who = u[i].who /\ w[i].ok = u[i].ok /\ w[i].nr = u[i].nr
                          /\ u[i].who = "search" => w[i] = u[i]
  BY <1>1, <1>2
<1>5. OneVerdictIn(w)
  BY <1>3, <1>4 DEF TrueIn, OneVerdictIn, u
<1>6. BackedIn(w, kind)
  <2>1. \A i \in DOMAIN u : \A who : Succeeds(u, i - 1, who) => Succeeds(w, i - 1, who)
    <3>1. \A i \in DOMAIN u : \A j \in 1 .. i - 1 : j \in DOMAIN u
      BY <1>2
    <3> QED BY <1>4, <3>1 DEF Succeeds
  <2>2. NoneFailed(u) => NoneFailed(w)
    BY <1>3, <1>4 DEF NoneFailed
  <2>3. BackedIn(u, kind)
    BY DEF TrueIn, u
  <2> QED BY <1>3, <1>4, <2>1, <2>2, <2>3 DEF BackedIn
<1> QED BY <1>2, <1>5, <1>6 DEF TrueIn, w, p

\* Recording what is planned, and what ends the handler.
LEMMA RecordingKeeps ==
  ASSUME CInv, RecordAgent \/ RecordAgentThrows \/ Finish \/ Kill
  PROVE  CInv'
<1>0. records \in Seq(Verdict) /\ todo \in Seq(Verdict) /\ faults \in Nat
  BY DEF CInv, Shape
<1>1. ASSUME pc = "record", todo # <<>>
      PROVE  /\ Append(records, Head(todo)) \in Seq(Verdict) /\ Tail(todo) \in Seq(Verdict)
             /\ Append(records, Head(todo)) \o Tail(todo) = Planned
             /\ TrueIn(Append(records, Head(todo)), command.kind)
             /\ Head(todo) \in Verdict /\ Head(todo).who # "search"
             /\ NoSearchIn(Tail(todo))
  <2>1. /\ Append(records, Head(todo)) \in Seq(Verdict) /\ Tail(todo) \in Seq(Verdict)
        /\ Append(records, Head(todo)) \o Tail(todo) = Planned
    BY <1>0, <1>1, RecordingKeepsThePlan DEF Planned
  <2>2. TrueIn(Append(records, Head(todo)), command.kind)
    BY <1>1, <2>1, TrueBeginning DEF CInv
  <2>3. /\ 1 \in DOMAIN todo /\ Head(todo) = todo[1] /\ Head(todo) \in Verdict
        /\ \A i \in DOMAIN Tail(todo) : i + 1 \in DOMAIN todo /\ Tail(todo)[i] = todo[i + 1]
    BY <1>0, <1>1
  <2>4. NoSearchIn(todo)
    BY DEF CInv, Shape
  <2> QED BY <2>1, <2>2, <2>3, <2>4 DEF NoSearchIn
<1>2. CASE RecordAgent
  <2>1. /\ pc = "record" /\ todo # <<>>
        /\ records' = Append(records, Head(todo)) /\ todo' = Tail(todo)
        /\ UNCHANGED <<pc, command, child, success, outcome, faults>>
    BY <1>2 DEF RecordAgent
  <2>2. Planned' = Planned /\ records' \in Seq(Verdict) /\ todo' \in Seq(Verdict) /\ NoSearchIn(todo')
    BY <1>1, <2>1 DEF Planned
  <2>3. Shape'
    BY <2>1, <2>2 DEF CInv, Shape
  <2>4. ThrowIsRecorded'
    BY <2>1 DEF CInv, Shape, ThrowIsRecorded
  <2> QED BY <2>1, <2>2, <2>3, <2>4 DEF CInv
<1>3. CASE RecordAgentThrows
  <2> DEFINE p == [Head(todo) EXCEPT !.daily = FALSE]
  <2>1. /\ pc = "record" /\ todo # <<>> /\ faults' = faults + 1
        /\ EndCommand("threw") /\ UNCHANGED <<command, child, success>>
        /\ records' = records \/ records' = Append(records, p)
    BY <1>3 DEF RecordAgentThrows, CannotRecord
  <2>2. faults' \in Nat /\ faults' # 0
    BY <1>0, <2>1
  <2>3. Append(records, p) \in Seq(Verdict) /\ TrueIn(Append(records, p), command.kind)
    BY <1>0, <1>1, <2>1, BrokenOffIsTrue
  <2> HIDE DEF p
  <2>4. records' \in Seq(Verdict) /\ TrueIn(records', command.kind)
    BY <1>0, <2>1, <2>3, TrueSoFar
  <2> QED BY <2>1, <2>2, <2>4, CommandEnded
<1>4. CASE Finish
  <2> DEFINE how == IF success THEN "printed" ELSE "threw"
  <2>1. /\ pc = "record" /\ todo = <<>> /\ EndCommand(how)
        /\ UNCHANGED <<command, child, success, records, faults>>
    BY <1>4 DEF Finish
  <2>2. ASSUME how = "threw", command.kind \in Agents
        PROVE  BothFail(records, command.kind)
    <3>1. success # TRUE
      BY <2>2
    <3>2. success \in BOOLEAN
      BY DEF CInv, Shape
    <3>3. Planned = records
      BY <1>0, <2>1 DEF Planned
    <3> QED BY <2>1, <2>2, <3>1, <3>2, <3>3 DEF CInv
  <2> HIDE DEF how
  <2>3. records' \in Seq(Verdict) /\ TrueIn(records', command.kind) /\ faults' \in Nat
    BY <1>0, <2>1, TrueSoFar
  <2> QED BY <2>1, <2>2, <2>3, CommandEnded
<1>5. CASE Kill
  <2>1. EndCommand("killed") /\ UNCHANGED <<command, child, success, records, faults>>
    BY <1>5 DEF Kill
  <2>2. records' \in Seq(Verdict) /\ TrueIn(records', command.kind) /\ faults' \in Nat
    BY <1>0, <2>1, TrueSoFar
  <2> QED BY <2>1, <2>2, CommandEnded
<1> QED BY <1>2, <1>3, <1>4, <1>5

LEMMA Recorded_Initially == Init => CInv
<1> SUFFICES ASSUME Init
             PROVE  CInv
  OBVIOUS
<1>1. Shape
  <2>1. /\ records = <<>> /\ todo = <<>> /\ faults = 0 /\ success = FALSE
        /\ pc = "idle" /\ outcome = "none" /\ child = Child(0, "none")
    BY DEF Init
  <2>2. records \in Seq(Verdict) /\ todo \in Seq(Verdict) /\ faults \in Nat /\ success \in BOOLEAN
    <3>1. <<>> \in Seq(Verdict) /\ 0 \in Nat /\ FALSE \in BOOLEAN
      OBVIOUS
    <3> QED BY <2>1, <3>1
  <2>3. DOMAIN child = {"nr", "state", "read", "printed"} /\ child.nr \in Nat
    BY <2>1 DEF Child
  <2>4. command \in Commands
    BY DEF Init
  <2>5. Searching
    BY <2>1 DEF Searching, SearchesIn, OneVerdictIn, NoneFailed
  <2>6. NoSearchIn(todo)
    BY <2>1 DEF NoSearchIn
  <2> QED BY <2>1, <2>2, <2>3, <2>4, <2>5, <2>6 DEF Shape, Places
<1>2. ThrowIsRecorded /\ pc \notin {"record", "done"}
  BY DEF Init, ThrowIsRecorded
<1> QED BY <1>1, <1>2 DEF CInv

LEMMA Recorded_Inductive == CInv /\ [Next]_vars => CInv'
<1> SUFFICES ASSUME CInv, [Next]_vars
             PROVE  CInv'
  OBVIOUS
<1>1. CASE Begin \/ AgentRejects \/ AgentReplies \/ QualityAnswers \/ WorkflowAnswers \/ HandlerThrows
  BY <1>1, TryKeeps
<1>2. CASE \/ SearchRejects \/ SpawnRipgrep \/ RecordSearch \/ RecordSearchThrows
           \/ RecordSearchError \/ ScoutReplies \/ MemoryThrows
           \/ RipgrepReads \/ RipgrepError \/ RipgrepEnds
  BY <1>2, SearchKeeps
<1>3. CASE RecordAgent \/ RecordAgentThrows \/ Finish \/ Kill
  BY <1>3, RecordingKeeps
<1>4. CASE UNCHANGED vars
  <2>1. Shape' /\ Planned' = Planned /\ ThrowIsRecorded' /\ UNCHANGED <<pc, success, command>>
    BY <1>4 DEF vars, CInv, Shape, Searching, SearchesIn, OneVerdictIn, NoneFailed, NoSearchIn, Entry,
                Planned, ThrowIsRecorded, Recorded
  <2> QED BY <2>1 DEF CInv
<1> QED BY <1>1, <1>2, <1>3, <1>4 DEF Next, Handler

LEMMA RecordedInvariant == Spec => []CInv
BY Recorded_Initially, Recorded_Inductive, PTL DEF Spec

\* No agent has two verdicts in what one command records, and a search has two
\* only when the record of its success broke off between the two files; no
\* success of an agent is recorded before what it rests on, and none of the
\* expert beside a search that is recorded as an error. So it is for any number
\* of searches and faults, and wherever the process is killed (agents.ts,
\* SearchEngine.query, D3WorkflowExecutor.execute).
THEOREM RecordsTellTheTruth == Spec => []RecordsAreTrue
<1>1. CInv => RecordsAreTrue
  <2> SUFFICES ASSUME CInv
               PROVE  RecordsAreTrue
    OBVIOUS
  <2>1. TrueIn(records, command.kind)
    BY TrueSoFar
  <2>2. \A i \in DOMAIN records : records[i] \in Verdict
    BY DEF CInv, Shape
  <2>3. \A i \in DOMAIN records : records[i].ok \in BOOLEAN /\ records[i].daily \in BOOLEAN
    BY <2>2 DEF Verdict
  <2>4. OneVerdict
    BY <2>1, <2>3 DEF TrueIn, OneVerdictIn, OneVerdict
  <2>5. SuccessIsBacked
    <3> SUFFICES ASSUME NEW i \in DOMAIN records, records[i].ok
                 PROVE  /\ records[i].who \in Agents =>
                             /\ \E j \in 1 .. i - 1 : records[j].who = "expert" /\ records[j].ok
                             /\ command.kind = "scout" =>
                                  \E j \in 1 .. i - 1 : records[j].who = "search" /\ records[j].ok
                        /\ records[i].who = "expert" => ~Recorded("search", FALSE)
      BY DEF SuccessIsBacked
    <3>1. records[i].ok = TRUE
      BY <2>3
    <3> QED BY <2>1, <2>3, <3>1 DEF TrueIn, BackedIn, Succeeds, NoneFailed, Recorded
  <2> QED BY <2>4, <2>5 DEF RecordsAreTrue
<1> QED BY <1>1, RecordedInvariant, PTL

\* A command of one agent that throws with no fault of a recorder has recorded
\* a failure of the expert and of the agent (the finally blocks of agents.ts).
THEOREM WhatThrowsIsRecorded == Spec => []ThrowIsRecorded
<1>1. CInv => ThrowIsRecorded
  BY DEF CInv
<1> QED BY <1>1, RecordedInvariant, PTL


-----------------------------------------------------------------------------
(***************************************************************************)
(* What a search makes of the hits that were printed.                      *)
(***************************************************************************)
\* Hits of the workspace are finitely many.
LEMMA HitsAreFinite ==
  ASSUME NEW hits \in SUBSET Lines
  PROVE  /\ IsFiniteSet(hits) /\ Cardinality(hits) \in Nat
         /\ \A h \in hits : h \in Line /\ h.file \in Files /\ h.line \in Nat
<1>1. IsFiniteSet(Lines) /\ Lines \subseteq Line
  BY SearchAssumption
<1>2. IsFiniteSet(hits)
  BY <1>1, FS_Subset
<1> QED BY <1>1, <1>2, FS_CardinalityType DEF Line

\* The units of a line's terms are finitely many, so a score is a number.
LEMMA Bm25Numbers ==
  ASSUME NEW hits \in SUBSET Lines, NEW query \in SUBSET Terms,
         Cardinality(hits) <= Limit
  PROVE  bm25Score(hits, query) \in [hits -> Nat]
<1> DEFINE n == Cardinality(hits)
           containing(t) == {h \in hits : t \in tokenize(h)}
           units(t) == {t} \X (1 .. Idf[n][Cardinality(containing(t))])
<1>1. IsFiniteSet(hits) /\ n \in Nat
  BY HitsAreFinite
<1>2. ASSUME NEW h \in hits
      PROVE  Cardinality(UNION {units(t) : t \in query \cap tokenize(h)}) \in Nat
  <2> DEFINE T == query \cap tokenize(h)
             family == {units(t) : t \in T}
  <2>1. IsFiniteSet(T)
    <3>1. IsFiniteSet(Terms) /\ T \subseteq Terms
      BY SearchAssumption
    <3> QED BY <3>1, FS_Subset
  <2>2. ASSUME NEW t \in T
        PROVE  IsFiniteSet(units(t))
    <3> DEFINE c == Cardinality(containing(t))
    <3>1. containing(t) \subseteq hits /\ h \in containing(t)
      OBVIOUS
    <3> HIDE DEF containing
    <3>2. IsFiniteSet(containing(t)) /\ c <= n /\ c \in Nat /\ c # 0
      BY <1>1, <3>1, FS_Subset, FS_EmptySet, FS_CardinalityType
    <3>3. n \in 1 .. Limit /\ c \in 1 .. n
      <4>1. Limit \in Nat
        BY SearchAssumption
      <4> HIDE DEF n, c
      <4> QED BY <1>1, <3>2, <4>1 DEF n
    <3>4. Idf[n][c] \in Nat
      BY <3>3, SearchAssumption
    <3>5. IsFiniteSet(1 .. Idf[n][c])
      BY <3>4, CountTo
    <3>6. IsFiniteSet({t})
      BY FS_Singleton
    <3> QED BY <3>5, <3>6, FS_Product
  <2> HIDE DEF T, units
  <2>3. IsFiniteSet(family)
    <3> DEFINE f == [t \in T |-> units(t)]
    <3>1. f \in Surjection(T, family)
      BY DEF Surjection
    <3> QED BY <2>1, <3>1, FS_Surjection
  <2>4. \A F \in family : IsFiniteSet(F)
    BY <2>2
  <2>5. IsFiniteSet(UNION family)
    BY <2>3, <2>4, FS_UNION
  <2> QED BY <2>5, FS_CardinalityType DEF T
<1>3. bm25Score(hits, query) = [h \in hits |-> Cardinality(UNION {units(t) : t \in query \cap tokenize(h)})]
  BY DEF bm25Score
<1> HIDE DEF units
<1> QED BY <1>2, <1>3

\* So is what the scores blend to.
LEMMA BlendedNumbers ==
  ASSUME NEW hits \in SUBSET Lines, NEW query \in SUBSET Terms,
         Cardinality(hits) <= Limit
  PROVE  blendedScore(hits, query) \in [hits -> Int]
<1> DEFINE score == bm25Score(hits, query)
<1>1. score \in [hits -> Nat]
  BY Bm25Numbers
<1>2. ASSUME NEW h \in hits
      PROVE  jaccardSimilarity(h, query) \in Int
  <2> DEFINE same == query \cap tokenize(h)
             both == query \cup tokenize(h)
  <2>1. tokenize(h) \subseteq Terms
    <3>1. h.file \in Files /\ h.tokens \in SUBSET Terms
      BY SearchAssumption DEF Line
    <3> QED BY <3>1, SearchAssumption DEF tokenize
  <2>2. IsFiniteSet(Terms) /\ both \subseteq Terms /\ same \subseteq Terms
    BY <2>1, SearchAssumption
  <2>3. IsFiniteSet(both) /\ IsFiniteSet(same)
    BY <2>2, FS_Subset
  <2>4. Cardinality(both) \in Nat /\ Cardinality(same) \in Nat
    BY <2>3, FS_CardinalityType
  <2>5. both # {} => Cardinality(both) # 0
    BY <2>3, FS_EmptySet
  <2>6. jaccardSimilarity(h, query) = IF both = {} THEN 0 ELSE (100 * Cardinality(same)) \div Cardinality(both)
    BY DEF jaccardSimilarity
  <2> HIDE DEF same, both
  <2>7. \A a \in Nat, b \in Nat \ {0} : (100 * a) \div b \in Int
    OBVIOUS
  <2> QED BY <2>4, <2>5, <2>6, <2>7
<1>3. blendedScore(hits, query) = [h \in hits |-> 8 * score[h] + 2 * jaccardSimilarity(h, query)]
  BY DEF blendedScore
<1> HIDE DEF score
<1> QED BY <1>1, <1>2, <1>3

\* Numbers, and an order of the files, put hits in order (compareHits).
LEMMA HitsOrder ==
  ASSUME NEW hits \in SUBSET Lines, NEW score, \A h \in hits : score[h] \in Int,
         NEW order \in {CodeUnitOrder, LocaleOrder}
  PROVE  Orders([h \in hits |-> {g \in hits : compareHits(score, order, g, h)}])
<1> DEFINE ahead == [h \in hits |-> {g \in hits : compareHits(score, order, g, h)}]
<1>1. /\ \A f \in Files : order[f] \in Nat
      /\ \A f, g \in Files : order[f] = order[g] => f = g
  BY SearchAssumption
<1>2. /\ IsFiniteSet(hits)
      /\ \A h \in hits : h.file \in Files /\ h.line \in Nat /\ h \in Lines
  BY HitsAreFinite
<1>3. \A g, h \in hits : (g.file = h.file /\ g.line = h.line) => g = h
  BY SearchAssumption
<1>4. \A h \in hits : order[h.file] \in Nat /\ score[h] \in Int /\ h.line \in Nat
  BY <1>1, <1>2
<1>5. \A g, h \in hits : order[g.file] = order[h.file] => g.file = h.file
  BY <1>1, <1>2
<1>6. \A h \in hits : ~compareHits(score, order, h, h)
  BY <1>4 DEF compareHits
<1>7. \A a, b, c \in hits :
        (compareHits(score, order, a, b) /\ compareHits(score, order, b, c))
          => compareHits(score, order, a, c)
  BY <1>4, <1>5 DEF compareHits
<1>8. \A g, h \in hits : g = h \/ compareHits(score, order, g, h) \/ compareHits(score, order, h, g)
  BY <1>3, <1>4, <1>5 DEF compareHits
<1>9. /\ DOMAIN ahead = hits
      /\ \A g, h \in hits : g \in ahead[h] <=> compareHits(score, order, g, h)
      /\ \A h \in hits : ahead[h] \subseteq hits
  OBVIOUS
<1> HIDE DEF ahead
<1>10. \A h \in hits : ahead[h] \subseteq hits \ {h}
  BY <1>6, <1>9
<1>11. \A g, h \in hits : g \in ahead[h] => ahead[g] \subseteq ahead[h]
  BY <1>7, <1>9
<1>12. \A g, h \in hits : g = h \/ g \in ahead[h] \/ h \in ahead[g]
  BY <1>8, <1>9
<1>13. Orders(ahead)
  BY <1>2, <1>9, <1>10, <1>11, <1>12 DEF Orders
<1> QED BY <1>13 DEF ahead

\* Distinct(s): no hit is printed twice.
Distinct(s) == \A i, j \in 1 .. Len(s) : s[i] = s[j] => i = j

\* The block of a file: hits of that file, each once, all of them where they fit
\* (parseRipgrepJsonOutput).
LEMMA BlockOfFile ==
  ASSUME NEW matches \in SUBSET Lines, NEW file \in Nameable
  PROVE  LET ofFile == {h \in matches : h.file = file}
             block  == parseRipgrepJsonOutput(file, matches)
         IN  /\ block \in Seq(ofFile) /\ Len(block) \in Nat
             /\ Distinct(block)
             /\ Len(block) < Limit => Range(block) = ofFile
<1> DEFINE ofFile == {h \in matches : h.file = file}
           ahead  == [h \in ofFile |-> {g \in ofFile : g.line < h.line}]
           block  == parseRipgrepJsonOutput(file, matches)
<1>1. /\ IsFiniteSet(ofFile) /\ Cardinality(ofFile) \in Nat
      /\ \A h \in ofFile : h.line \in Nat /\ h.file = file
      /\ ofFile \subseteq Lines
  BY HitsAreFinite
<1>2. \A g, h \in ofFile : g.line = h.line => g = h
  <2>1. \A g, h \in Lines : (g.file = h.file /\ g.line = h.line) => g = h
    BY SearchAssumption
  <2> HIDE DEF ofFile
  <2> QED BY <1>1, <2>1
<1> HIDE DEF ofFile
<1>3. DOMAIN ahead = ofFile /\ \A h \in ofFile : ahead[h] \subseteq ofFile
  OBVIOUS
<1>4. \A g, h \in ofFile : g \in ahead[h] <=> g.line < h.line
  OBVIOUS
<1>5. Orders(ahead)
  <2> HIDE DEF ahead
  <2>1. \A h \in ofFile : ahead[h] \subseteq ofFile \ {h}
    BY <1>1, <1>3, <1>4
  <2>2. \A g, h \in ofFile : g \in ahead[h] => ahead[g] \subseteq ahead[h]
    BY <1>1, <1>3, <1>4
  <2>3. \A g, h \in ofFile : g = h \/ g \in ahead[h] \/ h \in ahead[g]
    BY <1>1, <1>2, <1>4
  <2> QED BY <1>1, <1>3, <2>1, <2>2, <2>3 DEF Orders
<1>6. block = slice(InOrder(ahead), Limit)
  BY DEF parseRipgrepJsonOutput, ofFile
<1>7. Limit \in Nat
  BY SearchAssumption
<1> HIDE DEF ahead
<1>8. /\ block \in Seq(ofFile) /\ Len(block) = least(Limit, Cardinality(ofFile))
      /\ Distinct(block)
      /\ Range(block) = {h \in ofFile : Cardinality(ahead[h]) < Limit}
  <2> DEFINE list == slice(InOrder(ahead), Limit)
  <2>1. /\ list \in Seq(DOMAIN ahead) /\ Len(list) = least(Limit, Cardinality(DOMAIN ahead))
        /\ \A i, j \in 1 .. Len(list) : list[i] = list[j] => i = j
        /\ Range(list) = Leading(ahead, Limit)
    BY <1>5, <1>7, FirstInOrder
  <2> HIDE DEF list
  <2>2. block = list
    BY <1>6 DEF list
  <2> HIDE DEF block
  <2> QED BY <1>3, <2>1, <2>2 DEF Distinct, Leading
<1>9. ASSUME Len(block) < Limit
      PROVE  Range(block) = ofFile
  <2>1. Cardinality(ofFile) < Limit
    BY <1>1, <1>7, <1>8, <1>9 DEF least
  <2>2. ASSUME NEW h \in ofFile
        PROVE  Cardinality(ahead[h]) < Limit
    <3>1. Cardinality(ahead[h]) <= Cardinality(ofFile)
      BY <1>1, <1>3, FS_Subset
    <3>2. Cardinality(ahead[h]) \in Nat
      BY <1>1, <1>3, FS_Subset, FS_CardinalityType
    <3> QED BY <1>1, <1>7, <2>1, <3>1, <3>2
  <2> QED BY <1>8, <2>2
<1>10. Len(block) \in Nat
  BY <1>8
<1> QED BY <1>8, <1>9, <1>10 DEF ofFile

\* The hits that few others outrank.
Foremost(hits, query) ==
  {h \in hits : Cardinality({g \in hits : compareHits(bm25Score(hits, query), CodeUnitOrder, g, h)})
                 < least(Limit, Bm25Limit)}

\* What the pipeline makes of distinct hits: of its candidates it keeps those
\* that few others outrank, each once (runSearchPipeline).
LEMMA PipelineAnswers ==
  ASSUME NEW M \in SUBSET Lines, NEW printed \in Seq(M), Distinct(printed),
         NEW query \in SUBSET Terms
  PROVE  LET F == Range(Candidates(printed))
             r == runSearchPipeline(printed, query)
         IN  /\ F \subseteq M /\ IsFiniteSet(F)
             /\ Cardinality(F) = least(Limit, Len(printed)) /\ Cardinality(F) \in 0 .. Limit
             /\ Len(printed) <= Limit => F = Range(printed)
             /\ r.total = Cardinality(F)
             /\ r.score = blendedScore(F, query) /\ r.score \in [F -> Int]
             /\ r.hits \in Seq(F)
             /\ Range(r.hits) = Foremost(F, query)
<1> DEFINE shown == Candidates(printed)
           F == Range(shown)
           r == runSearchPipeline(printed, query)
           bm25 == bm25Score(F, query)
           score == blendedScore(F, query)
           outranking == [h \in F |-> {g \in F : compareHits(bm25, CodeUnitOrder, g, h)}]
           n == least(Limit, Bm25Limit)
           kept == Range(rankSearchHitsWithBm25(F, query))
           order == [h \in kept |-> {g \in kept : compareHits(score, LocaleOrder, g, h)}]
<1>1. Limit \in Nat /\ Bm25Limit \in Nat
  BY SearchAssumption
<1>2. n \in Nat
  BY <1>1 DEF least
<1>3. /\ shown \in Seq(M) /\ Len(shown) = least(Limit, Len(printed))
      /\ DOMAIN shown = 1 .. Len(shown)
      /\ Len(shown) \in Nat /\ Len(shown) <= Limit /\ Len(shown) <= Len(printed)
      /\ \A i \in 1 .. Len(shown) : shown[i] = printed[i]
      /\ Len(printed) <= Limit => shown = printed
  <2>1. /\ slice(printed, Limit) \in Seq(M)
        /\ Len(slice(printed, Limit)) = least(Limit, Len(printed))
        /\ DOMAIN slice(printed, Limit) = 1 .. least(Limit, Len(printed))
        /\ least(Limit, Len(printed)) \in Nat
        /\ least(Limit, Len(printed)) <= Limit /\ least(Limit, Len(printed)) <= Len(printed)
        /\ \A i \in 1 .. least(Limit, Len(printed)) : slice(printed, Limit)[i] = printed[i]
        /\ Len(printed) <= Limit => slice(printed, Limit) = printed
    BY <1>1, SliceIsBeginning
  <2> QED BY <2>1 DEF Candidates
<1> HIDE DEF shown
<1>4. /\ F \subseteq M /\ IsFiniteSet(F) /\ Cardinality(F) = Len(shown)
  <2>1. Len(printed) \in Nat
    OBVIOUS
  <2>2. \A i, j \in 1 .. Len(shown) : shown[i] = shown[j] => i = j
    BY <1>3, <2>1 DEF Distinct
  <2> HIDE DEF F
  <2>3. Range(shown) \subseteq M /\ IsFiniteSet(Range(shown)) /\ Cardinality(Range(shown)) = Len(shown)
    BY <1>3, <2>2, DistinctElements
  <2> QED BY <2>3 DEF F
<1>5. F \in SUBSET Lines /\ Cardinality(F) <= Limit /\ Cardinality(F) \in 0 .. Limit
  BY <1>1, <1>3, <1>4
<1>6. Len(printed) <= Limit => F = Range(printed)
  BY <1>3
<1> HIDE DEF F
<1>7. bm25 \in [F -> Nat] /\ score \in [F -> Int]
  BY <1>5, Bm25Numbers, BlendedNumbers
<1>8. r.total = Cardinality(F) /\ r.score = score /\ r.hits = InOrder(order)
  BY DEF runSearchPipeline, sortHits, F, shown
<1>9. rankSearchHitsWithBm25(F, query) = slice(InOrder(outranking), n)
  BY DEF rankSearchHitsWithBm25, sortHits
<1> HIDE DEF bm25, score, r
<1>10. Orders(outranking) /\ DOMAIN outranking = F
  <2>1. \A h \in F : bm25[h] \in Int
    BY <1>7
  <2>2. Orders(outranking)
    BY <1>5, <2>1, HitsOrder
  <2> QED BY <2>2
<1>11. kept = {h \in F : Cardinality(outranking[h]) < n}
  <2> HIDE DEF outranking, n
  <2>1. Range(slice(InOrder(outranking), n)) = Leading(outranking, n)
    BY <1>2, <1>10, FirstInOrder
  <2> QED BY <1>9, <1>10, <2>1 DEF Leading
<1>12. kept \subseteq F
  BY <1>11
<1>13. kept = Foremost(F, query)
  <2>1. kept = {h \in F : Cardinality({g \in F : compareHits(bm25, CodeUnitOrder, g, h)}) < n}
    BY <1>11
  <2> QED BY <2>1 DEF Foremost, bm25
<1> HIDE DEF kept, n
<1>14. Orders(order) /\ DOMAIN order = kept
  <2>1. \A h \in kept : score[h] \in Int
    BY <1>7, <1>12
  <2>2. kept \in SUBSET Lines
    BY <1>5, <1>12
  <2>3. Orders(order)
    BY <2>1, <2>2, HitsOrder
  <2> QED BY <2>3
<1>15. r.hits \in Seq(kept) /\ Range(r.hits) = kept
  <2> HIDE DEF order
  <2> QED BY <1>8, <1>14, AllInOrder
<1>16. r.hits \in Seq(F) /\ Range(r.hits) = kept
  <2>1. r.hits \in Seq(F)
    BY <1>12, <1>15
  <2> QED BY <1>15, <2>1
<1> QED BY <1>3, <1>4, <1>5, <1>6, <1>7, <1>8, <1>13, <1>16 DEF F, r, bm25, score, shown, n

-----------------------------------------------------------------------------
(***************************************************************************)
(* The files that the scout recommends.                                    *)
(***************************************************************************)
\* A finite set of numbers has a highest one.
LEMMA HighestIsNumber ==
  ASSUME NEW scores \in SUBSET Int, IsFiniteSet(scores)
  PROVE  highest(scores) \in Int
<1> DEFINE S == scores \cup {0}
           ahead == [n \in S |-> {m \in S : m > n}]
           top == InOrder(ahead)[1]
<1>1. S \subseteq Int /\ 0 \in S /\ IsFiniteSet(S)
  BY FS_AddElement
<1> HIDE DEF S
<1>2. DOMAIN ahead = S /\ \A m, n \in S : m \in ahead[n] <=> m > n
  OBVIOUS
<1>3. \A n \in S : ahead[n] \subseteq S
  OBVIOUS
<1> HIDE DEF ahead
<1>4. Orders(ahead)
  <2>1. \A n \in S : ahead[n] \subseteq S \ {n}
    BY <1>1, <1>2, <1>3
  <2>2. \A m, n \in S : m \in ahead[n] => ahead[m] \subseteq ahead[n]
    <3>1. \A k, m, n \in S : k > m /\ m > n => k > n
      BY <1>1
    <3> QED BY <1>2, <1>3, <3>1
  <2>3. \A m, n \in S : m = n \/ m \in ahead[n] \/ n \in ahead[m]
    BY <1>1, <1>2
  <2> QED BY <1>1, <1>2, <2>1, <2>2, <2>3 DEF Orders
<1>5. Cardinality(S) \in Nat /\ Cardinality(S) # 0
  BY <1>1, FS_CardinalityType, FS_EmptySet
<1>6. top \in S /\ Cardinality(ahead[top]) = 0
  <2> DEFINE place == InOrder(ahead)
  <2>1. /\ place \in [1 .. Cardinality(S) -> S]
        /\ \A n \in 1 .. Cardinality(S) : Cardinality(ahead[place[n]]) = n - 1
    BY <1>2, <1>4, InOrderPlaces
  <2> HIDE DEF place
  <2>2. 1 \in 1 .. Cardinality(S)
    BY <1>5
  <2>3. place[1] \in S /\ Cardinality(ahead[place[1]]) = 1 - 1
    BY <2>1, <2>2
  <2> QED BY <2>3 DEF place
<1> HIDE DEF top
<1>7. ahead[top] = {}
  BY <1>1, <1>3, <1>6, FS_Subset, FS_EmptySet
<1>8. \A m \in S : m <= top
  BY <1>1, <1>2, <1>6, <1>7
<1>9. \E n \in S : \A m \in scores : m <= n
  BY <1>6, <1>8 DEF S
<1>10. highest(scores) = CHOOSE n \in S : \A m \in scores : m <= n
  BY DEF highest, S
<1>11. highest(scores) \in S
  BY <1>9, <1>10
<1> QED BY <1>1, <1>11

\* What is said of a file are numbers (rankFileSignals).
LEMMA SignalsAreNumbers ==
  ASSUME NEW hits \in SUBSET Lines, NEW score, \A h \in hits : score[h] \in Int,
         NEW task \in Command, NEW file \in Files
  PROVE  LET signals == FileSignals(hits, score, task, file)
         IN  /\ signals.confidence \in Int /\ signals.searchScore \in Int
             /\ signals.matchedTermCount \in Int /\ signals.hitCount \in Int
<1> DEFINE ofFile  == {h \in hits : h.file = file}
           best    == highest({score[h] : h \in ofFile})
           matched == Cardinality({t \in task.query : \E h \in ofFile : t \in h.text})
           terms   == Cardinality(task.query)
           share   == IF task.query = {} THEN 0 ELSE (250 * matched) \div terms
           remembered == IF file \in task.remembered THEN 120 ELSE 0
           domain  == IF FileDomains[file] \cap task.domains # {} THEN 80 ELSE 0
           named   == IF file \in task.named THEN 40 ELSE 0
           weights == (55 * clampTo(best, 10000)) \div 1000 + share
                      + 30 * clampTo(Cardinality(ofFile), 5) + remembered + domain + named
           signals == FileSignals(hits, score, task, file)
<1>1. ofFile \subseteq Lines /\ ofFile \subseteq hits
  OBVIOUS
<1>2. IsFiniteSet(ofFile) /\ Cardinality(ofFile) \in Nat
  BY <1>1, HitsAreFinite
<1>3. task.query \subseteq Terms /\ IsFiniteSet(Terms)
  BY SearchAssumption DEF Command
<1>4. IsFiniteSet(task.query) /\ IsFiniteSet({t \in task.query : \E h \in ofFile : t \in h.text})
  BY <1>3, FS_Subset
<1>5. terms \in Nat /\ matched \in Nat /\ (task.query # {} => terms # 0)
  BY <1>4, FS_CardinalityType, FS_EmptySet
<1>6. signals = [confidence |-> clampTo(weights, 1000), searchScore |-> best,
                 matchedTermCount |-> matched, hitCount |-> Cardinality(ofFile)]
  BY DEF FileSignals
<1> HIDE DEF ofFile, signals
<1>7. best \in Int
  <2> DEFINE scores == {score[h] : h \in ofFile}
             f == [h \in ofFile |-> score[h]]
  <2>1. scores \subseteq Int
    BY <1>1
  <2>2. f \in Surjection(ofFile, scores)
    BY DEF Surjection
  <2>3. IsFiniteSet(scores)
    BY <1>2, <2>2, FS_Surjection
  <2> HIDE DEF scores
  <2>4. highest(scores) \in Int
    BY <2>1, <2>3, HighestIsNumber
  <2> QED BY <2>4 DEF scores
<1> HIDE DEF best, matched, terms
<1>8. share \in Int
  <2>1. \A a \in Nat, b \in Nat \ {0} : (250 * a) \div b \in Int
    OBVIOUS
  <2> QED BY <1>5, <2>1
<1>9. remembered \in Int /\ domain \in Int /\ named \in Int
  OBVIOUS
<1>10. \A n \in Int : clampTo(n, 10000) \in Int /\ clampTo(n, 1000) \in Int /\ clampTo(n, 5) \in Int
  BY DEF clampTo
<1> HIDE DEF share, remembered, domain, named
<1>11. clampTo(best, 10000) \in Int /\ clampTo(Cardinality(ofFile), 5) \in Int
  <2>1. Cardinality(ofFile) \in Int
    BY <1>2
  <2> QED BY <1>7, <1>10, <2>1
<1>12. weights \in Int
  <2>1. \A a, b, c, d, e, f \in Int : (55 * a) \div 1000 + b + 30 * c + d + e + f \in Int
    OBVIOUS
  <2> QED BY <1>8, <1>9, <1>11, <2>1
<1> HIDE DEF weights
<1>13. clampTo(weights, 1000) \in Int
  BY <1>10, <1>12
<1> QED BY <1>2, <1>5, <1>6, <1>7, <1>13 DEF signals

\* Files are in order by what is said of them, and then by their paths.
LEMMA FilesOrder ==
  ASSUME NEW hits \in SUBSET Lines, NEW score, \A h \in hits : score[h] \in Int,
         NEW task \in Command
  PROVE  LET files   == {h.file : h \in hits} \cup task.named
             signals == [f \in files |-> FileSignals(hits, score, task, f)]
         IN  /\ files \subseteq Files
             /\ Orders([f \in files |-> {g \in files : Beats(signals, g, f)}])
<1> DEFINE files   == {h.file : h \in hits} \cup task.named
           signals == [f \in files |-> FileSignals(hits, score, task, f)]
           tuple(f) == <<signals[f].confidence, signals[f].searchScore,
                         signals[f].matchedTermCount, signals[f].hitCount, -LocaleOrder[f]>>
           key == [f \in files |-> tuple(f)]
           Before(g, f) == \E i \in 1 .. 5 : /\ key[g][i] > key[f][i]
                                             /\ \A j \in 1 .. i - 1 : key[g][j] = key[f][j]
<1>1. files \subseteq Files
  <2>1. \A h \in hits : h.file \in Files
    BY HitsAreFinite
  <2>2. task.named \subseteq Files
    BY DEF Command
  <2> QED BY <2>1, <2>2
<1>2. IsFiniteSet(files)
  <2>1. IsFiniteSet(Files)
    BY SearchAssumption
  <2> HIDE DEF files
  <2> QED BY <1>1, <2>1, FS_Subset
<1>3. \A f \in files : LocaleOrder[f] \in Nat
  BY <1>1, SearchAssumption
<1>4. \A f, g \in files : LocaleOrder[f] = LocaleOrder[g] => f = g
  BY <1>1, SearchAssumption
<1> HIDE DEF files
<1>5. \A f \in files : /\ signals[f].confidence \in Int /\ signals[f].searchScore \in Int
                       /\ signals[f].matchedTermCount \in Int /\ signals[f].hitCount \in Int
  BY <1>1, SignalsAreNumbers
<1> HIDE DEF signals
<1>6. \A f \in files : tuple(f) \in [1 .. 5 -> Int]
  <2> TAKE f \in files
  <2>1. \A a, b, c, d, e \in Int : <<a, b, c, d, e>> \in [1 .. 5 -> Int]
    OBVIOUS
  <2>2. -LocaleOrder[f] \in Int
    BY <1>3
  <2> QED BY <1>5, <2>1, <2>2
<1>7. key \in [files -> [1 .. 5 -> Int]]
  <2> HIDE DEF tuple
  <2> QED BY <1>6
<1>8. \A f, g \in files : key[f] = key[g] => f = g
  <2> SUFFICES ASSUME NEW f \in files, NEW g \in files, tuple(f) = tuple(g)
               PROVE  f = g
    OBVIOUS
  <2>1. -LocaleOrder[f] = -LocaleOrder[g]
    OBVIOUS
  <2>2. LocaleOrder[f] = LocaleOrder[g]
    BY <1>3, <2>1
  <2> QED BY <1>4, <2>2
<1>9. \A f, g \in files : Beats(signals, g, f) <=> Before(g, f)
  <2> TAKE f, g \in files
  <2>1. Beats(signals, g, f) <=> \E i \in 1 .. 5 : /\ tuple(g)[i] > tuple(f)[i]
                                                   /\ \A j \in 1 .. i - 1 : tuple(g)[j] = tuple(f)[j]
    BY DEF Beats
  <2>2. key[g] = tuple(g) /\ key[f] = tuple(f)
    OBVIOUS
  <2> HIDE DEF key, tuple
  <2> QED BY <2>1, <2>2
<1> HIDE DEF key
<1>10. Orders([f \in files |-> {g \in files : Before(g, f)}])
  BY <1>2, <1>7, <1>8, KeysOrder
<1>11. [f \in files |-> {g \in files : Beats(signals, g, f)}] = [f \in files |-> {g \in files : Before(g, f)}]
  <2> HIDE DEF Before
  <2> QED BY <1>9
<1> HIDE DEF Before
<1>12. Orders([f \in files |-> {g \in files : Beats(signals, g, f)}])
  BY <1>10, <1>11
<1> QED BY <1>1, <1>12 DEF files, signals

\* The files to rank, and the place of each: behind those that beat it.
FilesOf(hits, task) == {h.file : h \in hits} \cup task.named

PlaceOf(f, hits, score, task) ==
  LET signals == [g \in FilesOf(hits, task) |-> FileSignals(hits, score, task, g)]
  IN  1 + Cardinality({g \in FilesOf(hits, task) : Beats(signals, g, f)})

\* The scout recommends the best files, each in the place of those that beat it.
LEMMA RankingAnswers ==
  ASSUME NEW hits \in SUBSET Lines, NEW score, \A h \in hits : score[h] \in Int,
         NEW task \in Command
  PROVE  LET list == slice(rankedFiles(hits, score, task), TopFileLimit)
         IN  /\ list \in Seq(Files) /\ Len(list) <= TopFileLimit
             /\ Len(list) = least(TopFileLimit, Cardinality(FilesOf(hits, task)))
             /\ \A f \in FilesOf(hits, task) :
                  PlaceOf(f, hits, score, task) <= TopFileLimit =>
                    list[PlaceOf(f, hits, score, task)] = f
<1> DEFINE files   == {h.file : h \in hits} \cup task.named
           signals == [f \in files |-> FileSignals(hits, score, task, f)]
           place(f) == 1 + Cardinality({g \in files : Beats(signals, g, f)})
           ahead   == [f \in files |-> {g \in files : Beats(signals, g, f)}]
           list    == slice(rankedFiles(hits, score, task), TopFileLimit)
<1>1. files \subseteq Files /\ Orders(ahead) /\ DOMAIN ahead = files
  <2>1. files \subseteq Files /\ Orders(ahead)
    BY FilesOrder
  <2> QED BY <2>1
<1>2. TopFileLimit \in Nat
  BY SearchAssumption
<1>3. rankedFiles(hits, score, task) = InOrder(ahead)
  BY DEF rankedFiles
<1>4. \A f \in files : ahead[f] = {g \in files : Beats(signals, g, f)}
  OBVIOUS
<1>5. \A f \in files : place(f) = 1 + Cardinality(ahead[f])
  BY <1>4
<1>6. \A f \in files : Cardinality(ahead[f]) \in Nat
  <2> HIDE DEF ahead, files
  <2>1. \A f \in files : ahead[f] \subseteq files /\ IsFiniteSet(files)
    BY <1>1 DEF Orders
  <2> QED BY <2>1, FS_Subset, FS_CardinalityType
<1> HIDE DEF ahead, files, list, signals, place
<1>7. /\ slice(InOrder(ahead), TopFileLimit) \in Seq(DOMAIN ahead)
      /\ Len(slice(InOrder(ahead), TopFileLimit)) = least(TopFileLimit, Cardinality(DOMAIN ahead))
      /\ \A f \in DOMAIN ahead : Cardinality(ahead[f]) < TopFileLimit =>
           slice(InOrder(ahead), TopFileLimit)[Cardinality(ahead[f]) + 1] = f
  <2> DEFINE first == slice(InOrder(ahead), TopFileLimit)
  <2>1. first \in Seq(DOMAIN ahead) /\ Len(first) = least(TopFileLimit, Cardinality(DOMAIN ahead))
    BY <1>1, <1>2, FirstInOrder
  <2>2. ASSUME NEW f \in DOMAIN ahead, Cardinality(ahead[f]) < TopFileLimit
        PROVE  first[Cardinality(ahead[f]) + 1] = f
    BY <1>1, <1>2, <2>2, FirstInOrder
  <2> QED BY <2>1, <2>2
<1>8. list = slice(InOrder(ahead), TopFileLimit)
  BY <1>3 DEF list
<1>9. /\ list \in Seq(Files) /\ Len(list) = least(TopFileLimit, Cardinality(files))
      /\ \A f \in files : Cardinality(ahead[f]) < TopFileLimit => list[Cardinality(ahead[f]) + 1] = f
  <2>1. list \in Seq(files)
    BY <1>1, <1>7, <1>8
  <2>2. list \in Seq(Files)
    BY <1>1, <2>1
  <2> QED BY <1>1, <1>7, <1>8, <2>2
<1>10. Len(list) <= TopFileLimit
  <2>1. IsFiniteSet(files)
    BY <1>1 DEF Orders
  <2>2. Cardinality(files) \in Nat
    BY <2>1, FS_CardinalityType
  <2> QED BY <1>2, <1>9, <2>2 DEF least
<1>11. \A f \in files : place(f) <= TopFileLimit => list[place(f)] = f
  <2> TAKE f \in files
  <2> DEFINE c == Cardinality(ahead[f])
  <2>1. c \in Nat /\ place(f) = 1 + c /\ (c < TopFileLimit => list[c + 1] = f)
    BY <1>5, <1>6, <1>9
  <2> HIDE DEF c
  <2>2. 1 + c = c + 1 /\ (1 + c <= TopFileLimit => c < TopFileLimit)
    BY <1>2, <2>1
  <2> QED BY <2>1, <2>2
<1>12. files = FilesOf(hits, task) /\ \A f \in files : place(f) = PlaceOf(f, hits, score, task)
  BY DEF files, signals, place, FilesOf, PlaceOf
<1> QED BY <1>9, <1>10, <1>11, <1>12 DEF list

\* Two lists of distinct hits that have nothing in common, joined.
LEMMA DistinctJoined ==
  ASSUME NEW M, NEW s \in Seq(M), NEW t \in Seq(M), Distinct(s), Distinct(t),
         \A i \in 1 .. Len(s), j \in 1 .. Len(t) : s[i] # t[j]
  PROVE  /\ s \o t \in Seq(M) /\ Distinct(s \o t)
         /\ Len(s \o t) = Len(s) + Len(t)
         /\ Range(s \o t) = Range(s) \cup Range(t)
<1>1. /\ s \o t \in Seq(M) /\ Len(s) \in Nat /\ Len(t) \in Nat
      /\ Len(s \o t) = Len(s) + Len(t)
      /\ DOMAIN s = 1 .. Len(s) /\ DOMAIN t = 1 .. Len(t) /\ DOMAIN (s \o t) = 1 .. Len(s) + Len(t)
  OBVIOUS
<1>2. \A i \in 1 .. Len(s) : i \in 1 .. Len(s) + Len(t) /\ (s \o t)[i] = s[i]
  OBVIOUS
<1>3. \A i \in 1 .. Len(s) + Len(t) : i > Len(s) => i - Len(s) \in 1 .. Len(t) /\ (s \o t)[i] = t[i - Len(s)]
  OBVIOUS
<1>4. \A j \in 1 .. Len(t) : Len(s) + j \in 1 .. Len(s) + Len(t) /\ (s \o t)[Len(s) + j] = t[j]
  OBVIOUS
<1>5. Distinct(s \o t)
  <2> SUFFICES ASSUME NEW i \in 1 .. Len(s) + Len(t), NEW j \in 1 .. Len(s) + Len(t),
                      (s \o t)[i] = (s \o t)[j]
               PROVE  i = j
    BY <1>1 DEF Distinct
  <2>1. CASE i <= Len(s) /\ j <= Len(s)
    BY <1>1, <1>2, <2>1 DEF Distinct
  <2>2. CASE i > Len(s) /\ j > Len(s)
    <3>1. i - Len(s) = j - Len(s)
      BY <1>1, <1>3, <2>2 DEF Distinct
    <3> QED BY <1>1, <3>1
  <2>3. CASE i <= Len(s) /\ j > Len(s)
    <3>1. i \in 1 .. Len(s) /\ j - Len(s) \in 1 .. Len(t) /\ s[i] = t[j - Len(s)]
      BY <1>1, <1>2, <1>3, <2>3
    <3> QED BY <3>1
  <2>4. CASE i > Len(s) /\ j <= Len(s)
    <3>1. j \in 1 .. Len(s) /\ i - Len(s) \in 1 .. Len(t) /\ s[j] = t[i - Len(s)]
      BY <1>1, <1>2, <1>3, <2>4
    <3> QED BY <3>1
  <2> QED BY <1>1, <2>1, <2>2, <2>3, <2>4
<1>6. Range(s \o t) = Range(s) \cup Range(t)
  <2>1. ASSUME NEW x \in Range(s \o t)
        PROVE  x \in Range(s) \cup Range(t)
    <3>1. PICK i \in 1 .. Len(s) + Len(t) : x = (s \o t)[i]
      BY <1>1 DEF Range
    <3>2. CASE i <= Len(s)
      <4>1. i \in DOMAIN s /\ s[i] = x
        BY <1>1, <1>2, <3>1, <3>2
      <4> QED BY <4>1 DEF Range
    <3>3. CASE i > Len(s)
      <4>1. i - Len(s) \in DOMAIN t /\ t[i - Len(s)] = x
        BY <1>1, <1>3, <3>1, <3>3
      <4> QED BY <4>1 DEF Range
    <3> QED BY <1>1, <3>2, <3>3
  <2>2. Range(s) \subseteq Range(s \o t)
    BY <1>1, <1>2 DEF Range
  <2>3. Range(t) \subseteq Range(s \o t)
    BY <1>1, <1>4 DEF Range
  <2> QED BY <2>1, <2>2, <2>3
<1> QED BY <1>1, <1>5, <1>6

-----------------------------------------------------------------------------
(***************************************************************************)
(* What ripgrep has printed, and what is made of it. Only a search that    *)
(* has seen ripgrep read every file is answered (`Searched`), and what it  *)
(* was answered from is remembered when the next one of a workflow begins. *)
(***************************************************************************)
Printed ==
  /\ child \in [nr : Nat, state : {"none", "running", "failed", "closed"},
                read : SUBSET MatchingFiles, printed : Seq(Found)]
  /\ Distinct(child.printed)
  /\ \A h \in Range(child.printed) : h.file \in child.read
  /\ Len(child.printed) < Limit => {h \in Found : h.file \in child.read} \subseteq Range(child.printed)

\* All the hits, or as many as the limit.
WholeOutput(printed) ==
  Distinct(printed) /\ (Len(printed) < Limit => Found \subseteq Range(printed))

Searched ==
  \E printed \in Seq(Found) :
    WholeOutput(printed) /\ response = runSearchPipeline(printed, command.query)

Recommended == Searched /\ answer = rankFileSignals(response, command)

Answers ==
  /\ response = NoResponse \/ Searched
  /\ pc \in {"searchDone", "analyze"} => Searched
  /\ Recorded("search", TRUE) => Searched
  /\ answer = <<>> \/ Recommended
  /\ pc \notin {"record", "done"} => answer = <<>>
  /\ (success = TRUE /\ command.kind = "scout") => Recommended
  /\ outcome = "printed" => success = TRUE
  /\ outcome \in {"none", "printed", "threw", "killed"}

SInv == Printed /\ Answers

\* What a command asks for is of the workspace.
LEMMA CommandIsOfWorkspace ==
  ASSUME command \in Commands
  PROVE  /\ command \in Command
         /\ command.query \in SUBSET Terms
         /\ command.matches \in SUBSET Lines
         /\ Found \in SUBSET Lines /\ Found \subseteq command.matches
<1>1. command \in Command
  BY CommandAssumption
<1> QED BY <1>1 DEF Command, Found

\* A file that ripgrep prints adds its block.
LEMMA PrintingKeeps ==
  ASSUME command \in Commands, Printed, NEW file \in Files, RipgrepPrints(file)
  PROVE  Printed'
<1> DEFINE block == parseRipgrepJsonOutput(file, command.matches)
           ofFile == {h \in command.matches : h.file = file}
           P == child.printed
           Q == P \o block
<1>1. /\ child.state = "running" /\ file \in MatchingFiles /\ file \notin child.read
      /\ child' = [child EXCEPT !.read = @ \cup {file}, !.printed = @ \o block]
      /\ UNCHANGED <<pc, command, response>>
  BY DEF RipgrepPrints
<1>2. child' = [nr |-> child.nr, state |-> child.state, read |-> child.read \cup {file}, printed |-> Q]
  BY <1>1 DEF Printed
<1>3. /\ P \in Seq(Found) /\ Distinct(P) /\ Len(P) \in Nat
      /\ \A h \in Range(P) : h.file \in child.read
      /\ Len(P) < Limit => {h \in Found : h.file \in child.read} \subseteq Range(P)
  BY DEF Printed
<1>4. Found' = Found /\ MatchingFiles' = MatchingFiles
  BY <1>1 DEF Found, MatchingFiles
<1>5. /\ Q \in Seq(Found) /\ Distinct(Q)
      /\ \A h \in Range(Q) : h.file \in child.read \cup {file}
      /\ Len(Q) < Limit => {h \in Found : h.file \in child.read \cup {file}} \subseteq Range(Q)
  <2>1. CASE file \notin Nameable
    <3>1. block = <<>>
      BY <2>1 DEF parseRipgrepJsonOutput
    <3>2. Q = P
      BY <1>3, <3>1
    <3>3. {h \in Found : h.file \in child.read \cup {file}} = {h \in Found : h.file \in child.read}
      BY <2>1 DEF Found
    <3> HIDE DEF P, Q
    <3> QED BY <1>3, <3>2, <3>3
  <2>2. CASE file \in Nameable
    <3>1. /\ block \in Seq(ofFile) /\ Len(block) \in Nat /\ Distinct(block)
          /\ Len(block) < Limit => Range(block) = ofFile
      <4>1. command.matches \in SUBSET Lines
        BY CommandIsOfWorkspace
      <4> QED BY <2>2, <4>1, BlockOfFile
    <3>2. ofFile \subseteq Found
      BY <2>2 DEF Found
    <3>3. Limit \in Nat
      BY SearchAssumption
    <3> HIDE DEF block, P
    <3>4. block \in Seq(Found) /\ \A j \in 1 .. Len(block) : block[j].file = file
      <4>1. \A j \in 1 .. Len(block) : block[j] \in ofFile
        BY <3>1
      <4> HIDE DEF ofFile
      <4>2. block \in Seq(Found)
        BY <3>1, <3>2
      <4> QED BY <4>1, <4>2 DEF ofFile
    <3>5. \A i \in 1 .. Len(P) : P[i].file \in child.read
      <4>1. \A i \in 1 .. Len(P) : P[i] \in Range(P)
        BY <1>3 DEF Range
      <4> QED BY <1>3, <4>1
    <3>6. \A i \in 1 .. Len(P), j \in 1 .. Len(block) : P[i] # block[j]
      BY <1>1, <3>4, <3>5
    <3>7. Q \in Seq(Found) /\ Distinct(Q) /\ Len(Q) = Len(P) + Len(block) /\ Range(Q) = Range(P) \cup Range(block)
      BY <1>3, <3>1, <3>4, <3>6, DistinctJoined
    <3> HIDE DEF Q
    <3>8. \A h \in Range(block) : h.file = file
      BY <3>1, <3>4 DEF Range
    <3>9. \A h \in Range(Q) : h.file \in child.read \cup {file}
      BY <1>3, <3>7, <3>8
    <3>10. ASSUME Len(Q) < Limit
           PROVE  {h \in Found : h.file \in child.read \cup {file}} \subseteq Range(Q)
      <4>1. Len(P) < Limit /\ Len(block) < Limit
        BY <1>3, <3>1, <3>3, <3>7, <3>10
      <4>2. Range(block) = ofFile /\ {h \in Found : h.file \in child.read} \subseteq Range(P)
        BY <1>3, <3>1, <4>1
      <4>3. \A h \in Found : h.file = file => h \in ofFile
        BY DEF Found
      <4> QED BY <3>7, <4>2, <4>3
    <3> QED BY <3>7, <3>9, <3>10
  <2> QED BY <2>1, <2>2
<1>6. child.read \cup {file} \subseteq MatchingFiles
  BY <1>1 DEF Printed
<1>7. child' \in [nr : Nat, state : {"none", "running", "failed", "closed"},
                  read : SUBSET MatchingFiles, printed : Seq(Found)]
  <2> HIDE DEF Q
  <2> QED BY <1>2, <1>5, <1>6 DEF Printed
<1>8. child'.read = child.read \cup {file} /\ child'.printed = Q
  <2> HIDE DEF Q
  <2> QED BY <1>2
<1> HIDE DEF Q
<1> QED BY <1>4, <1>5, <1>7, <1>8 DEF Printed

\* A step that does not touch what the search was answered from.
LEMMA AnswersKept ==
  ASSUME SInv, UNCHANGED <<command, response>>, Printed',
         pc' \in {"searchDone", "analyze"} => pc \in {"searchDone", "analyze"},
         Recorded("search", TRUE)' => Recorded("search", TRUE) \/ Searched,
         answer' = answer \/ (Searched /\ answer' = rankFileSignals(response, command)),
         pc' \notin {"record", "done"} => answer' = <<>>,
         (success' = TRUE /\ command.kind = "scout") =>
           \/ Searched /\ answer' = rankFileSignals(response, command)
           \/ success = TRUE /\ answer' = answer,
         outcome' = "printed" => success' = TRUE,
         outcome' \in {"none", "printed", "threw", "killed"}
  PROVE  SInv'
<1>1. Found' = Found
  BY DEF Found
<1>2. Searched' = Searched
  BY <1>1 DEF Searched, WholeOutput
<1>3. Recommended' <=> (Searched /\ answer' = rankFileSignals(response, command))
  BY <1>2 DEF Recommended
<1>4. Answers'
  BY <1>2, <1>3 DEF SInv, Answers, Recommended
<1> QED BY <1>4 DEF SInv

\* What ripgrep has printed stays, as long as the child is the same.
LEMMA PrintedKept ==
  ASSUME Printed, UNCHANGED <<command, child>>
  PROVE  Printed'
<1>1. Found' = Found /\ MatchingFiles' = MatchingFiles
  BY DEF Found, MatchingFiles
<1> QED BY <1>1 DEF Printed

\* A new child has printed nothing.
LEMMA NothingPrinted ==
  ASSUME NEW n \in Nat, NEW state \in {"none", "running"}, child' = Child(n, state)
  PROVE  Printed'
<1>1. child' = [nr |-> n, state |-> state, read |-> {}, printed |-> <<>>]
  BY DEF Child
<1>2. <<>> \in Seq(Found') /\ {} \in SUBSET MatchingFiles'
  OBVIOUS
<1>3. child' \in [nr : Nat, state : {"none", "running", "failed", "closed"},
                  read : SUBSET MatchingFiles', printed : Seq(Found')]
  BY <1>1, <1>2
<1>4. child'.read = {} /\ child'.printed = <<>>
  BY <1>1
<1>5. Distinct(<<>>) /\ Range(<<>>) = {}
  BY DEF Distinct, Range
<1> QED BY <1>3, <1>4, <1>5 DEF Printed

\* ripgrep ends or fails to start: what it has printed stays.
LEMMA PrintedOnceEnded ==
  ASSUME Printed, command' = command,
         NEW state \in {"none", "running", "failed", "closed"},
         child' = [child EXCEPT !.state = state]
  PROVE  Printed'
<1>1. Found' = Found /\ MatchingFiles' = MatchingFiles
  BY DEF Found, MatchingFiles
<1>2. child' = [nr |-> child.nr, state |-> state, read |-> child.read, printed |-> child.printed]
  BY DEF Printed
<1>3. child' \in [nr : Nat, state : {"none", "running", "failed", "closed"},
                  read : SUBSET MatchingFiles, printed : Seq(Found)]
  BY <1>2 DEF Printed
<1>4. child'.read = child.read /\ child'.printed = child.printed
  BY <1>2
<1> QED BY <1>1, <1>3, <1>4 DEF Printed

\* ripgrep ends: the search is answered if it has read every file, and at most
\* once (RipgrepSearchStage.searchSanitized).
LEMMA ClosingKeeps ==
  ASSUME CInv, SInv, RipgrepEnds
  PROVE  SInv'
<1>1. PICK code \in ExitCodes, parses \in BOOLEAN : RipgrepCloses(code, parses)
  BY DEF RipgrepEnds
<1>2. /\ child' = [child EXCEPT !.state = "closed"]
      /\ UNCHANGED <<command, success, todo, records, answer, outcome, faults>>
  BY <1>1 DEF RipgrepCloses
<1>3. \/ response' = response /\ (pc' = pc \/ (pc = "search" /\ pc' = "searchFailed"))
      \/ /\ pc' = "searchDone" /\ accepted(code) /\ pc = "search"
         /\ response' = runSearchPipeline(child.printed, command.query)
  BY <1>1 DEF RipgrepCloses
<1>4. Printed'
  BY <1>2, PrintedOnceEnded DEF SInv
<1>5. /\ outcome = "printed" => success = TRUE
      /\ outcome \in {"none", "printed", "threw", "killed"}
      /\ answer = <<>> \/ Recommended
      /\ pc \notin {"record", "done"} => answer = <<>>
      /\ (success = TRUE /\ command.kind = "scout") => Recommended
  BY DEF SInv, Answers
<1>6. Recorded("search", TRUE)' = Recorded("search", TRUE)
  BY <1>2 DEF Recorded
<1>7. CASE /\ pc' = "searchDone" /\ accepted(code) /\ pc = "search"
           /\ response' = runSearchPipeline(child.printed, command.query)
  <2>1. MatchingFiles \subseteq child.read
    BY <1>7 DEF accepted, ExitCodes
  <2>2. child.printed \in Seq(Found) /\ WholeOutput(child.printed)
    <3>1. \A h \in Found : h.file \in child.read
      BY <2>1 DEF Found, MatchingFiles
    <3> QED BY <3>1 DEF SInv, Printed, WholeOutput
  <2>3. Found' = Found
    BY <1>2 DEF Found
  <2>4. Searched'
    BY <1>2, <1>7, <2>2, <2>3 DEF Searched, WholeOutput
  <2>5. success = FALSE
    BY <1>7 DEF CInv, Shape, Searching
  <2>6. answer' = <<>> /\ success' = FALSE
    BY <1>2, <1>5, <1>7, <2>5
  <2> QED BY <1>2, <1>4, <1>5, <2>4, <2>6 DEF SInv, Answers
<1>8. CASE response' = response /\ (pc' = pc \/ (pc = "search" /\ pc' = "searchFailed"))
  <2>1. (success' = TRUE /\ command.kind = "scout") =>
          \/ Searched /\ answer' = rankFileSignals(response, command)
          \/ success = TRUE /\ answer' = answer
    BY <1>2, <1>5 DEF Recommended
  <2>2. /\ pc' \in {"searchDone", "analyze"} => pc \in {"searchDone", "analyze"}
        /\ pc' \notin {"record", "done"} => answer' = <<>>
        /\ response' = response
    BY <1>2, <1>5, <1>8
  <2> QED BY <1>2, <1>4, <1>5, <1>6, <2>1, <2>2, AnswersKept
<1> QED BY <1>3, <1>7, <1>8

\* The other steps of ripgrep, and a new search.
LEMMA ReadingKeeps ==
  ASSUME CInv, SInv, SpawnRipgrep \/ SearchRejects \/ RipgrepReads \/ RipgrepError
  PROVE  SInv'
<1>1. UNCHANGED <<command, response, success, todo, records, answer, outcome, faults>>
  BY DEF SpawnRipgrep, SearchRejects, RipgrepReads, RipgrepPrints, RipgrepError
<1>2. Recorded("search", TRUE)' = Recorded("search", TRUE)
  BY <1>1 DEF Recorded
<1>3. /\ pc' \in {"searchDone", "analyze"} => pc \in {"searchDone", "analyze"}
      /\ pc' = pc \/ pc \in {"agent", "search"}
  BY DEF SpawnRipgrep, SearchRejects, RipgrepReads, RipgrepPrints, RipgrepError
<1>4. /\ outcome = "printed" => success = TRUE
      /\ outcome \in {"none", "printed", "threw", "killed"}
      /\ pc \notin {"record", "done"} => answer = <<>>
  BY DEF SInv, Answers
<1>5. Printed'
  <2>1. CASE RipgrepReads
    <3>1. command \in Commands
      BY DEF CInv, Shape
    <3> QED BY <2>1, <3>1, PrintingKeeps DEF SInv, RipgrepReads
  <2>2. CASE SpawnRipgrep \/ SearchRejects
    <3>1. child.nr + 1 \in Nat
      BY DEF CInv, Shape
    <3> QED BY <2>2, <3>1, NothingPrinted DEF SpawnRipgrep, SearchRejects
  <2>3. CASE RipgrepError
    BY <1>1, <2>3, PrintedOnceEnded DEF SInv, RipgrepError
  <2> QED BY <2>1, <2>2, <2>3
<1> QED BY <1>1, <1>2, <1>3, <1>4, <1>5, AnswersKept

\* One more record, of what is no search.
LEMMA OneMoreRecord ==
  ASSUME records \in Seq(Verdict), NEW e \in Verdict, records' = Append(records, e),
         e.who # "search" \/ e.ok = FALSE
  PROVE  Recorded("search", TRUE)' => Recorded("search", TRUE)
<1>1. \A i \in DOMAIN records' :
        \/ i \in DOMAIN records /\ records'[i] = records[i]
        \/ records'[i] = e
  OBVIOUS
<1> QED BY <1>1 DEF Recorded

\* What the handler does, but for the search.
LEMMA HandlerKeepsAnswers ==
  ASSUME CInv, SInv,
         \/ Begin \/ AgentRejects \/ AgentReplies \/ QualityAnswers \/ WorkflowAnswers
         \/ HandlerThrows \/ RecordAgent \/ RecordAgentThrows \/ Finish \/ Kill \/ UNCHANGED vars
  PROVE  SInv'
<1>1. UNCHANGED <<command, child, response, answer>>
  BY DEF Begin, AgentRejects, AgentReplies, QualityAnswers, WorkflowAnswers, HandlerThrows,
         RecordAgent, RecordAgentThrows, Finish, Kill, vars
<1>2. /\ records \in Seq(Verdict) /\ todo \in Seq(Verdict) /\ success \in BOOLEAN /\ NoSearchIn(todo)
      /\ pc # "done" => outcome = "none"
  BY DEF CInv, Shape
<1>3. /\ outcome \in {"none", "printed", "threw", "killed"}
      /\ outcome = "printed" => success = TRUE
      /\ pc \notin {"record", "done"} => answer = <<>>
  BY DEF SInv, Answers
<1>4. Printed'
  BY <1>1, PrintedKept DEF SInv
<1>5. CASE Begin \/ UNCHANGED vars
  <2>1. UNCHANGED <<success, todo, records, outcome>>
    BY <1>5 DEF Begin, vars
  <2>2. Recorded("search", TRUE)' = Recorded("search", TRUE)
    BY <2>1 DEF Recorded
  <2>3. pc' = pc \/ (pc = "idle" /\ pc' = "agent")
    <3>1. CASE Begin
      BY <3>1 DEF Begin
    <3>2. CASE UNCHANGED vars
      BY <3>2 DEF vars
    <3> QED BY <1>5, <3>1, <3>2
  <2> QED BY <1>1, <1>3, <1>4, <2>1, <2>2, <2>3, AnswersKept
<1>6. CASE AgentRejects \/ AgentReplies \/ QualityAnswers \/ WorkflowAnswers
  <2>1. /\ pc' = "record" /\ UNCHANGED <<records, outcome>> /\ outcome = "none"
        /\ success' = success \/ (success' = TRUE /\ command.kind # "scout")
    BY <1>2, <1>6 DEF AgentRejects, Failed, AgentReplies, QualityAnswers, WorkflowAnswers, Answered
  <2>2. Recorded("search", TRUE)' = Recorded("search", TRUE)
    BY <2>1 DEF Recorded
  <2> QED BY <1>1, <1>3, <1>4, <2>1, <2>2, AnswersKept
<1>7. CASE RecordAgent \/ RecordAgentThrows
  <2> DEFINE e == Head(todo)
             p == [Head(todo) EXCEPT !.daily = FALSE]
  <2>1. /\ todo # <<>> /\ pc' \in {"record", "done"} /\ success' = success
        /\ records' = records \/ records' = Append(records, e) \/ records' = Append(records, p)
        /\ outcome' \in {outcome, "threw"}
    BY <1>7 DEF RecordAgent, RecordAgentThrows, CannotRecord, EndCommand
  <2>2. e = todo[1] /\ 1 \in DOMAIN todo /\ e \in Verdict
    BY <1>2, <2>1
  <2>3. e.who # "search" /\ p \in Verdict /\ p.who = e.who
    BY <1>2, <2>2 DEF NoSearchIn, Verdict
  <2> HIDE DEF e, p
  <2>4. Recorded("search", TRUE)' => Recorded("search", TRUE)
    <3>1. \A x \in Verdict : (records' = Append(records, x) /\ x.who # "search") =>
            (Recorded("search", TRUE)' => Recorded("search", TRUE))
      BY <1>2, OneMoreRecord
    <3>2. records' = records => Recorded("search", TRUE)' = Recorded("search", TRUE)
      BY DEF Recorded
    <3> QED BY <2>1, <2>2, <2>3, <3>1, <3>2
  <2> QED BY <1>1, <1>3, <1>4, <2>1, <2>4, AnswersKept
<1>8. CASE HandlerThrows \/ Finish \/ Kill
  <2>1. /\ pc' = "done" /\ UNCHANGED <<success, records>>
        /\ outcome' \in {"printed", "threw", "killed"}
        /\ outcome' = "printed" => success = TRUE
    BY <1>2, <1>8 DEF HandlerThrows, Finish, Kill, EndCommand
  <2>2. Recorded("search", TRUE)' = Recorded("search", TRUE)
    BY <2>1 DEF Recorded
  <2> QED BY <1>1, <1>4, <2>1, <2>2, AnswersKept
<1> QED BY <1>5, <1>6, <1>7, <1>8

\* The records of the search, and the scout's answer.
LEMMA ScoutKeepsAnswers ==
  ASSUME CInv, SInv,
         RecordSearch \/ RecordSearchThrows \/ RecordSearchError \/ ScoutReplies \/ MemoryThrows
  PROVE  SInv'
<1>1. UNCHANGED <<command, child, response, outcome>>
  BY DEF RecordSearch, RecordSearchThrows, RecordSearchError, ScoutReplies, MemoryThrows
<1>2. /\ records \in Seq(Verdict) /\ child.nr \in Nat
      /\ pc \notin {"record", "done"} => success = FALSE /\ outcome = "none"
  BY DEF CInv, Shape, Searching
<1>3. /\ pc \in {"searchDone", "analyze"} => Searched
      /\ pc \notin {"record", "done"} => answer = <<>>
  BY DEF SInv, Answers
<1>4. Printed'
  BY <1>1, PrintedKept DEF SInv
<1>5. CASE RecordSearch \/ RecordSearchThrows
  <2>1. /\ pc = "searchDone" /\ pc' \in {"analyze", "searchFailed"}
        /\ UNCHANGED <<success, todo, answer>>
    BY <1>5 DEF RecordSearch, RecordSearchThrows
  <2> QED BY <1>1, <1>2, <1>3, <1>4, <2>1, AnswersKept
<1>6. CASE RecordSearchError \/ MemoryThrows
  <2> DEFINE e == SearchEntry(child.nr, FALSE)
             p == [e EXCEPT !.daily = FALSE]
  <2>1. /\ pc \in {"searchFailed", "analyze"} /\ pc' \in {"record", "agent"} /\ UNCHANGED <<success, answer>>
        /\ records' = records \/ records' = Append(records, e) \/ records' = Append(records, p)
    BY <1>6 DEF RecordSearchError, CannotRecord, MemoryThrows, ScoutThrows, Failed
  <2>2. e \in Verdict /\ e.ok = FALSE /\ p \in Verdict /\ p.ok = FALSE
    BY <1>2, SearchVerdicts
  <2> HIDE DEF e, p
  <2>3. Recorded("search", TRUE)' => Recorded("search", TRUE)
    <3>1. \A x \in Verdict : (records' = Append(records, x) /\ x.ok = FALSE) =>
            (Recorded("search", TRUE)' => Recorded("search", TRUE))
      BY <1>2, OneMoreRecord
    <3>2. records' = records => Recorded("search", TRUE)' = Recorded("search", TRUE)
      BY DEF Recorded
    <3> QED BY <2>1, <2>2, <3>1, <3>2
  <2> QED BY <1>1, <1>2, <1>3, <1>4, <2>1, <2>3, AnswersKept
<1>7. CASE ScoutReplies
  <2>1. pc = "analyze" /\ records' = records
    BY <1>7 DEF ScoutReplies
  <2>2. Recorded("search", TRUE)' = Recorded("search", TRUE)
    BY <2>1 DEF Recorded
  <2>3. CASE command.kind = "scout"
    <3>1. pc' = "record" /\ success' = TRUE /\ answer' = rankFileSignals(response, command)
      BY <1>7, <2>3 DEF ScoutReplies, Answered
    <3> QED BY <1>1, <1>2, <1>3, <1>4, <2>1, <2>2, <3>1, AnswersKept
  <2>4. CASE command.kind # "scout"
    <3>1. pc' = "agent" /\ UNCHANGED <<success, answer>>
      BY <1>7, <2>4 DEF ScoutReplies
    <3> QED BY <1>1, <1>2, <1>3, <1>4, <2>1, <2>2, <3>1, AnswersKept
  <2> QED BY <2>3, <2>4
<1> QED BY <1>5, <1>6, <1>7

LEMMA Answers_Initially == Init => SInv
<1> SUFFICES ASSUME Init
             PROVE  SInv
  OBVIOUS
<1>1. child = [nr |-> 0, state |-> "none", read |-> {}, printed |-> <<>>]
  BY DEF Init, Child
<1>2. child.state = "none" /\ child.read = {} /\ child.printed = <<>>
  BY <1>1
<1>3. child \in [nr : Nat, state : {"none", "running", "failed", "closed"},
                 read : SUBSET MatchingFiles, printed : Seq(Found)]
  <2>1. <<>> \in Seq(Found) /\ {} \in SUBSET MatchingFiles
    OBVIOUS
  <2> QED BY <1>1, <2>1
<1>4. Printed
  <2>1. Distinct(<<>>) /\ Range(<<>>) = {}
    BY DEF Distinct, Range
  <2> QED BY <1>2, <1>3, <2>1 DEF Printed
<1>5. ~Recorded("search", TRUE)
  BY DEF Init, Recorded
<1>6. Answers
  BY <1>5 DEF Init, Answers
<1> QED BY <1>4, <1>6 DEF SInv

LEMMA Answers_Inductive == CInv /\ SInv /\ [Next]_vars => SInv'
<1> SUFFICES ASSUME CInv, SInv, [Next]_vars
             PROVE  SInv'
  OBVIOUS
<1>1. CASE \/ Begin \/ AgentRejects \/ AgentReplies \/ QualityAnswers \/ WorkflowAnswers
           \/ HandlerThrows \/ RecordAgent \/ RecordAgentThrows \/ Finish \/ Kill \/ UNCHANGED vars
  BY <1>1, HandlerKeepsAnswers
<1>2. CASE RecordSearch \/ RecordSearchThrows \/ RecordSearchError \/ ScoutReplies \/ MemoryThrows
  BY <1>2, ScoutKeepsAnswers
<1>3. CASE SpawnRipgrep \/ SearchRejects \/ RipgrepReads \/ RipgrepError
  BY <1>3, ReadingKeeps
<1>4. CASE RipgrepEnds
  BY <1>4, ClosingKeeps
<1> QED BY <1>1, <1>2, <1>3, <1>4 DEF Next, Handler

LEMMA AnswersInvariant == Spec => [](CInv /\ SInv)
BY RecordedInvariant, Answers_Initially, Answers_Inductive, PTL DEF Spec

\* What the answer of a search was made from, and what it says of it.
LEMMA SearchedFacts ==
  ASSUME CInv, Searched
  PROVE  \E F :
           /\ F \subseteq Found /\ F \in SUBSET Lines
           /\ response.total = least(Limit, Cardinality(Found)) /\ response.total \in 0 .. Limit
           /\ Cardinality(Found) <= Limit => F = Found
           /\ response.score = blendedScore(F, command.query) /\ response.score \in [F -> Int]
           /\ response.hits \in Seq(F)
           /\ Range(response.hits) = Foremost(F, command.query)
<1>1. command \in Commands
  BY DEF CInv, Shape
<1>2. PICK P \in Seq(Found) :
        WholeOutput(P) /\ response = runSearchPipeline(P, command.query)
  BY DEF Searched
<1> DEFINE F == Range(Candidates(P))
           q == command.query
           r == runSearchPipeline(P, q)
<1>3. q \in SUBSET Terms /\ Found \in SUBSET Lines
  BY <1>1, CommandIsOfWorkspace
<1>4. response = r /\ Distinct(P)
  BY <1>2 DEF WholeOutput
<1> HIDE DEF q
<1>5. /\ F \subseteq Found /\ IsFiniteSet(F)
      /\ Cardinality(F) = least(Limit, Len(P)) /\ Cardinality(F) \in 0 .. Limit
      /\ Len(P) <= Limit => F = Range(P)
      /\ r.total = Cardinality(F)
      /\ r.score = blendedScore(F, q) /\ r.score \in [F -> Int]
      /\ r.hits \in Seq(F)
      /\ Range(r.hits) = Foremost(F, q)
  BY <1>2, <1>3, <1>4, PipelineAnswers
<1> HIDE DEF F, r
<1>6. Limit \in Nat /\ Len(P) \in Nat
  BY <1>2, SearchAssumption
<1>7. IsFiniteSet(Found) /\ Cardinality(Found) \in Nat
  BY <1>3, HitsAreFinite
<1>8. Range(P) \subseteq Found /\ Cardinality(Range(P)) = Len(P)
  <2>1. \A i, j \in 1 .. Len(P) : P[i] = P[j] => i = j
    BY <1>4 DEF Distinct
  <2> QED BY <1>2, <2>1, DistinctElements
<1>9. Len(P) <= Cardinality(Found)
  BY <1>7, <1>8, FS_Subset
<1>10. ASSUME Len(P) < Limit
       PROVE  Range(P) = Found
  BY <1>2, <1>8, <1>10 DEF WholeOutput
<1>11. Cardinality(F) = least(Limit, Cardinality(Found))
  <2>1. CASE Len(P) < Limit
    <3>1. Len(P) = Cardinality(Found)
      BY <1>8, <1>10, <2>1
    <3> QED BY <1>5, <3>1
  <2>2. CASE ~(Len(P) < Limit)
    <3>1. \A a, b \in Nat : a <= b => (least(a, b) = a)
      BY DEF least
    <3>2. Limit <= Len(P) /\ Limit <= Cardinality(Found)
      BY <1>6, <1>7, <1>9, <2>2
    <3> QED BY <1>5, <1>6, <1>7, <3>1, <3>2
  <2> QED BY <2>1, <2>2
<1>12. ASSUME Cardinality(Found) <= Limit
       PROVE  F = Found
  <2>1. Cardinality(F) = Cardinality(Found)
    <3>1. \A a, b \in Nat : b <= a => least(a, b) = b
      BY DEF least
    <3> QED BY <1>6, <1>7, <1>11, <1>12, <3>1
  <2> QED BY <1>5, <1>7, <2>1, FS_Subset
<1>13. F \in SUBSET Lines
  BY <1>3, <1>5
<1> QED BY <1>4, <1>5, <1>11, <1>12, <1>13 DEF q

\* The variables of a command have their types.
THEOREM CommandTypeCorrect == Spec => []TypeOK
<1>1. CInv /\ SInv => TypeOK
  <2> SUFFICES ASSUME CInv, SInv
               PROVE  TypeOK
    OBVIOUS
  <2>1. /\ pc \in {"idle", "agent", "search", "searchDone", "searchFailed", "analyze", "record", "done"}
        /\ command \in Commands /\ success \in BOOLEAN /\ faults \in Nat
        /\ records \in Seq(Verdict) /\ todo \in Seq(Verdict)
    BY DEF CInv, Shape, Places
  <2>2. Found \subseteq command.matches /\ Found \in SUBSET Lines /\ command \in Command
    BY <2>1, CommandIsOfWorkspace
  <2>3. /\ child.nr \in Nat /\ child.state \in {"none", "running", "failed", "closed"}
        /\ child.read \subseteq MatchingFiles /\ child.printed \in Seq(Found)
    BY DEF SInv, Printed
  <2>4. child.printed \in Seq(command.matches)
    BY <2>2, <2>3
  <2>5. Limit \in Nat /\ TopFileLimit \in Nat
    BY SearchAssumption
  <2>6. response.total \in 0 .. Limit /\ response.hits \in Seq(command.matches)
    <3>1. CASE response = NoResponse
      <4>1. response.total = 0 /\ response.hits = <<>>
        BY <3>1 DEF NoResponse
      <4>2. <<>> \in Seq(command.matches)
        OBVIOUS
      <4> QED BY <2>5, <4>1, <4>2
    <3>2. CASE Searched
      <4>1. PICK F : F \subseteq Found /\ response.total \in 0 .. Limit /\ response.hits \in Seq(F)
        BY <3>2, SearchedFacts
      <4>2. F \subseteq command.matches
        BY <2>2, <4>1
      <4> QED BY <4>1, <4>2
    <3> QED BY <3>1, <3>2 DEF SInv, Answers
  <2>7. answer \in Seq(Files) /\ Len(answer) <= TopFileLimit
    <3>1. CASE answer = <<>>
      BY <2>5, <3>1
    <3>2. CASE Recommended
      <4> DEFINE hits == Range(response.hits)
                 score == response.score
      <4>1. PICK F : F \in SUBSET Lines /\ response.score \in [F -> Int] /\ response.hits \in Seq(F)
        BY <3>2, SearchedFacts DEF Recommended
      <4>2. hits \subseteq F
        BY <4>1 DEF Range
      <4>3. answer = slice(rankedFiles(hits, score, command), TopFileLimit)
        BY <3>2 DEF Recommended, rankFileSignals
      <4> HIDE DEF hits
      <4>4. hits \in SUBSET Lines /\ \A h \in hits : score[h] \in Int
        BY <4>1, <4>2
      <4> HIDE DEF score
      <4>5. /\ slice(rankedFiles(hits, score, command), TopFileLimit) \in Seq(Files)
            /\ Len(slice(rankedFiles(hits, score, command), TopFileLimit)) <= TopFileLimit
        BY <2>2, <4>4, RankingAnswers
      <4> QED BY <4>3, <4>5
    <3> QED BY <3>1, <3>2 DEF SInv, Answers
  <2>8. outcome \in {"none", "printed", "threw", "killed"}
    BY DEF SInv, Answers
  <2> QED BY <2>1, <2>3, <2>4, <2>6, <2>7, <2>8 DEF TypeOK
<1> QED BY <1>1, AnswersInvariant, PTL

\* A search that is recorded as a success has all its matches, or as many as its
\* limit, whatever ripgrep prints, in whatever order, and however it ends
\* (RipgrepSearchStage.searchSanitized, SearchEngine.query).
THEOREM SearchAnswersAreWhole == Spec => []SearchIsWhole
<1>1. CInv /\ SInv => SearchIsWhole
  <2> SUFFICES ASSUME CInv, SInv, Recorded("search", TRUE)
               PROVE  response.total = least(Limit, Cardinality(Found))
    BY DEF SearchIsWhole
  <2>1. Searched
    BY DEF SInv, Answers
  <2> QED BY <2>1, SearchedFacts
<1> QED BY <1>1, AnswersInvariant, PTL

\* When all matches fit into the limit, the files that the scout prints, and
\* their order, are those of an exhaustive search: the order in which ripgrep
\* printed the matches makes no difference (runSearchPipeline,
\* ScoutSubagent.analyze).
THEOREM ArrivalMakesNoDifference == Spec => []AnswerIgnoresArrival
<1>1. CInv /\ SInv => AnswerIgnoresArrival
  <2> SUFFICES ASSUME CInv, SInv, outcome = "printed", command.kind = "scout",
                      Cardinality(Found) <= Limit
               PROVE  AnswerIgnoresArrival
    BY DEF AnswerIgnoresArrival
  <2> DEFINE score == bm25Score(Found, command.query)
             outranking(h) == {g \in Found : compareHits(score, CodeUnitOrder, g, h)}
             kept == {h \in Found : Cardinality(outranking(h)) < least(Limit, Bm25Limit)}
             blended == blendedScore(Found, command.query)
             files == {h.file : h \in kept} \cup command.named
             signals == [f \in files |-> FileSignals(kept, blended, command, f)]
             place(f) == 1 + Cardinality({g \in files : Beats(signals, g, f)})
  <2>1. Recommended
    BY DEF SInv, Answers
  <2>2. /\ response.score = blended /\ blended \in [Found -> Int]
        /\ Range(response.hits) = kept
        /\ Found \in SUBSET Lines
    <3>1. PICK F :
          /\ F = Found
          /\ F \in SUBSET Lines
          /\ response.score = blendedScore(F, command.query) /\ response.score \in [F -> Int]
          /\ Range(response.hits) = Foremost(F, command.query)
      BY <2>1, SearchedFacts DEF Recommended
    <3>2. kept = Foremost(Found, command.query)
      BY DEF Foremost
    <3> HIDE DEF kept
    <3> QED BY <3>1, <3>2
  <2>3. answer = slice(rankedFiles(kept, blended, command), TopFileLimit)
    BY <2>1, <2>2 DEF Recommended, rankFileSignals
  <2>4. kept \subseteq Found
    OBVIOUS
  <2> HIDE DEF kept, blended
  <2>5. kept \in SUBSET Lines /\ (\A h \in kept : blended[h] \in Int) /\ command \in Command
    <3>1. command \in Commands
      BY DEF CInv, Shape
    <3> QED BY <2>2, <2>4, <3>1, CommandIsOfWorkspace
  <2>6. /\ Len(answer) = least(TopFileLimit, Cardinality(FilesOf(kept, command)))
        /\ \A f \in FilesOf(kept, command) :
             PlaceOf(f, kept, blended, command) <= TopFileLimit =>
               answer[PlaceOf(f, kept, blended, command)] = f
    BY <2>3, <2>5, RankingAnswers
  <2>7. /\ Len(answer) = least(TopFileLimit, Cardinality(files))
        /\ \A f \in files : place(f) <= TopFileLimit => answer[place(f)] = f
    <3>1. files = FilesOf(kept, command)
      BY DEF FilesOf
    <3>2. \A f : place(f) = PlaceOf(f, kept, blended, command)
      BY DEF FilesOf, PlaceOf
    <3> HIDE DEF files, place
    <3> QED BY <2>6, <3>1, <3>2
  <2> HIDE DEF files, place
  <2> QED BY <2>7 DEF AnswerIgnoresArrival, files, place, kept, blended
<1> QED BY <1>1, AnswersInvariant, PTL

=============================================================================
