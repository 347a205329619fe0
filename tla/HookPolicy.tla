----------------------------- MODULE HookPolicy -----------------------------
(***************************************************************************)
(* HookPolicyEngine (src/src/hooks/policy.ts): what a hook decides about a *)
(* tool call, its response, a stop or a notification.                      *)
(*                                                                         *)
(* A text is the set of the patterns it contains: findPatternMatch asks    *)
(* for no more. Names are compared without case, so a tool stands for its  *)
(* lower-case name. A policy is what hookPolicyConfigSchema makes of the   *)
(* configuration, with the profile's defaults filled in. A risk score is   *)
(* the number of risk signals (the code halves it), and a threshold is the *)
(* least number of signals that reaches it.                                *)
(***************************************************************************)
EXTENDS Integers

CONSTANTS
  Tools,      \* names of tools
  Patterns,   \* patterns a text may contain
  Category,   \* the category of a tool (TOOL_CATEGORY_BY_NAME), or "unknown"
  Policies    \* the policies in use

PreDecisions == {"allow", "deny", "escalate"}

Scoped ==
  [strictMode                 : BOOLEAN,
   escalationThreshold        : 0 .. 2,
   riskyTools                 : SUBSET Tools,
   sensitivePatterns          : SUBSET Patterns,
   preToolUseDefaultDecision  : PreDecisions,
   postToolUseDefaultDecision : {"allow", "block"},
   stopDefaultDecision        : {"allow", "block"}]

\* policyProfileDefaults: the thresholds are 0.5, 0.7 and 1.
ProfileDefaults(profile, risky, sensitive) ==
  [strictMode                 |-> profile = "strict",
   escalationThreshold        |-> IF profile = "strict" THEN 1 ELSE 2,
   riskyTools                 |-> IF profile = "permissive" THEN {} ELSE risky,
   sensitivePatterns          |-> sensitive,
   preToolUseDefaultDecision  |-> IF profile = "strict" THEN "escalate" ELSE "allow",
   postToolUseDefaultDecision |-> "allow",
   stopDefaultDecision        |-> "allow"]

\* An override is a record of the fields it sets. Its field risky is read
\* elsewhere: it is no field of a policy.
applyOverride(target, override) ==
  [f \in DOMAIN target |-> IF f \in DOMAIN override THEN override[f] ELSE target[f]]

NoOverride == [f \in {} |-> TRUE]

\* The overrides of a tool and of its category, if they have any. An unknown
\* tool has no category to override.
ToolOverride(policy, tool) ==
  IF tool \in DOMAIN policy.toolOverrides THEN policy.toolOverrides[tool] ELSE NoOverride

CategoryOverride(policy, tool) ==
  IF Category[tool] # "unknown" /\ Category[tool] \in DOMAIN policy.categoryOverrides
    THEN policy.categoryOverrides[Category[tool]]
    ELSE NoOverride

resolveScopedPolicy(policy, tool) ==
  applyOverride(applyOverride(policy.base, CategoryOverride(policy, tool)),
                ToolOverride(policy, tool))

\* toolOverride.risky ?? categoryOverride.risky ?? matchesRiskyTool(...)
Risky(policy, tool) ==
  LET byTool     == ToolOverride(policy, tool)
      byCategory == CategoryOverride(policy, tool)
  IN  IF "risky" \in DOMAIN byTool THEN byTool.risky
      ELSE IF "risky" \in DOMAIN byCategory THEN byCategory.risky
      ELSE tool \in resolveScopedPolicy(policy, tool).riskyTools

RiskSignals(policy, tool, text) ==
  (IF Risky(policy, tool) THEN 1 ELSE 0)
    + (IF text \cap resolveScopedPolicy(policy, tool).sensitivePatterns # {} THEN 1 ELSE 0)

Escalates(policy, tool, text) ==
  LET scoped == resolveScopedPolicy(policy, tool)
  IN  /\ scoped.strictMode
      /\ RiskSignals(policy, tool, text) >= scoped.escalationThreshold

evaluatePreToolUse(policy, tool, text, mode, blockedPatterns) ==
  IF text \cap blockedPatterns # {}
    THEN IF mode = "enforce" THEN "deny" ELSE "allow"
  ELSE IF Escalates(policy, tool, text)
    THEN IF mode = "enforce" THEN "escalate" ELSE "allow"
  ELSE resolveScopedPolicy(policy, tool).preToolUseDefaultDecision

evaluatePostToolUse(policy, tool, response, blockPatterns) ==
  LET scoped == resolveScopedPolicy(policy, tool)
  IN  IF \/ response \cap blockPatterns # {}
         \/ scoped.strictMode /\ response \cap scoped.sensitivePatterns # {}
         \/ scoped.postToolUseDefaultDecision = "block"
        THEN "block" ELSE "allow"

\* The schema has checked the policy and every override in it.
IsOverride(override) == \A target \in Scoped : applyOverride(target, override) \in Scoped

ASSUME PolicyAssumption ==
  /\ \A tool \in Tools : Category[tool] \in STRING
  /\ \A policy \in Policies :
       /\ policy.base \in Scoped
       /\ \A tool \in Tools : /\ IsOverride(CategoryOverride(policy, tool))
                              /\ IsOverride(ToolOverride(policy, tool))

\* signalled: there is no completion signal, or the last message contains it.
evaluateStop(policy, stopHookActive, signalled) ==
  IF ~ stopHookActive /\ (~ signalled \/ policy.base.stopDefaultDecision = "block")
    THEN "block" ELSE "allow"

evaluateNotification(policy, text) ==
  ~ (policy.base.strictMode /\ text \cap policy.base.sensitivePatterns # {})

Rank(decision) == IF decision = "allow" THEN 0 ELSE IF decision = "escalate" THEN 1 ELSE 2

\* A tool call whose text contains more is never decided more leniently, however
\* blocked patterns, overrides, threshold and strict mode combine, unless the
\* default is to deny: there a risky call is escalated and a harmless one denied
\* (evaluatePreToolUse).
RiskNeverLoosens ==
  \A policy \in Policies, tool \in Tools, more \in SUBSET Patterns, blocked \in SUBSET Patterns :
    resolveScopedPolicy(policy, tool).preToolUseDefaultDecision # "deny" =>
      \A text \in SUBSET more :
        Rank(evaluatePreToolUse(policy, tool, text, "enforce", blocked))
          <= Rank(evaluatePreToolUse(policy, tool, more, "enforce", blocked))

=============================================================================
