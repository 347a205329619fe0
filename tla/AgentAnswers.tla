---------------------------- MODULE AgentAnswers ----------------------------
(***************************************************************************)
(* What the reviewer and the verifier answer (src/src/agents/reviewer.ts,  *)
(* verifier.ts, dangerous-patterns.ts). Both judge a handoff; neither      *)
(* keeps state.                                                            *)
(*                                                                         *)
(* A text is the set of the dangerous categories its patterns match. Rates *)
(* are counted in tenths, so that a weighted score is a whole number of    *)
(* thousandths and rounding it to thousandths changes nothing.             *)
(***************************************************************************)
EXTENDS Integers

Dangers == {"prompt_injection", "secret_exfiltration", "destructive_command"}

\* What a handoff tells the agents: the query, the notes, risks and summary of
\* an analysis, whether there are upstream risks, and whether files are named.
Handoff == [query : SUBSET Dangers, analysis : SUBSET Dangers,
            risks : BOOLEAN, files : BOOLEAN]

\* A category is reported once, from the first text that shows it: the query
\* is looked at before the analysis.
detectDangerousPatterns(handoff) ==
  [category : handoff.query, source : {"query"}]
    \cup [category : handoff.analysis \ handoff.query, source : {"analysis"}]

-----------------------------------------------------------------------------
(***************************************************************************)
(* The reviewer's findings and the verifier's gate.                        *)
(***************************************************************************)
Severities == {"low", "medium", "high", "critical"}

\* ReviewerSubagent.assess: the first finding is always there.
Findings(handoff) ==
  [severity : {"medium"}, reason : {"scaffold"}]
    \cup (IF handoff.files THEN {} ELSE [severity : {"low"}, reason : {"no_files"}])
    \cup (IF handoff.risks THEN [severity : {"high"}, reason : {"upstream_risk"}] ELSE {})
    \cup {[severity |-> "critical", reason |-> p.category] : p \in detectDangerousPatterns(handoff)}

Rates == {"testPassRate", "completeness", "evidenceQuality", "coverage", "reproducibility"}

\* The evidence a verifier is given: some of the rates, and maybe a severity
\* ("none" when it is not given).
TrustInput ==
  [rates : UNION {[given -> 0 .. 10] : given \in SUBSET Rates},
   severity : Severities \cup {"none"}]

Given(input, rate, default) ==
  IF rate \in DOMAIN input.rates THEN input.rates[rate] ELSE default

severityPenalty(severity) ==
  CASE severity = "medium"   -> 200
    [] severity = "high"     -> 450
    [] severity = "critical" -> 750
    [] OTHER                 -> 50

\* verifierTrustInputSchema fills in zeros and the severity low; coverage and
\* reproducibility follow the rate they resemble.
weightedScore(input) ==
  LET completeness    == Given(input, "completeness", 0)
      evidenceQuality == Given(input, "evidenceQuality", 0)
  IN  35 * Given(input, "testPassRate", 0) + 20 * completeness + 20 * evidenceQuality
        + 15 * Given(input, "coverage", completeness)
        + 10 * Given(input, "reproducibility", evidenceQuality)
        - severityPenalty(input.severity)

clamp(value, low, high) ==
  IF value < low THEN low ELSE IF value > high THEN high ELSE value

MaxScore == 1000

trustScore(input) == clamp(weightedScore(input), 0, MaxScore)

TrustThreshold == 750

blockers(handoff, input) ==
  {code \in {"trust_test_pass_rate_low"} : Given(input, "testPassRate", 0) < 10}
    \cup {code \in {"trust_review_severity_high"} : input.severity \in {"high", "critical"}}
    \cup {code \in {"trust_score_below_threshold"} : trustScore(input) < TrustThreshold}
    \cup {p.category : p \in detectDangerousPatterns(handoff)}

\* VerifierSubagent.assess looks at detectDangerousPatterns before it decides.
gateDecision(handoff, input) == IF blockers(handoff, input) = {} THEN "pass" ELSE "fail"

-----------------------------------------------------------------------------
(***************************************************************************)
(* What the answers owe to one another.                                    *)
(***************************************************************************)
\* At least as much evidence: the same rates are given, none of them is less,
\* and the severity costs no more.
AtLeast(better, input) ==
  /\ DOMAIN better.rates = DOMAIN input.rates
  /\ \A r \in DOMAIN input.rates : input.rates[r] <= better.rates[r]
  /\ severityPenalty(better.severity) <= severityPenalty(input.severity)

\* Better evidence about a handoff that shows no more dangers never turns a
\* gate from pass to fail, through the defaults of the rates that are not
\* given, the penalty and the clamp (VerifierSubagent.assess).
GateIsMonotone(handoffs, inputs) ==
  \A h, safer \in handoffs, input, better \in inputs :
    /\ safer.query \cup safer.analysis \subseteq h.query \cup h.analysis
    /\ AtLeast(better, input)
    /\ gateDecision(h, input) = "pass"
    => gateDecision(safer, better) = "pass"

\* A handoff that passes the verifier's gate, on whatever evidence, is one in
\* which the reviewer finds nothing critical (reviewer.ts and verifier.ts).
PassMeansNoCritical(handoffs, inputs) ==
  \A h \in handoffs, input \in inputs :
    gateDecision(h, input) = "pass" =>
      \A f \in Findings(h) : f.severity # "critical"

=============================================================================
