SPECIFICATION Spec
CONSTANTS
  Texts <- SomeTexts
  Empty = ""
  Trimmed <- Trimming
  Sanitized <- Sanitizing
  Folded <- Folding
  Plain <- Comparing
  BadTriggers = {}
  BadAgents = {}
  Collation <- Alphabetical
  Missing = Missing
  Invalid = Invalid
  Procs = {p1, p2}
  Sessions = {s1, s2}
  SafeSessions = {s1}
  Skill = Skill
  Tools = {bash, other}
  Patterns = {secret, force}
  Category <- Categories
  Policies <- SomePolicies
  Ages = {0}
  AuditLimit = 1
  MaxOps = 2
  MaxPrunes = 2
  MaxCommands = 4
  MaxTime = 1
  MaxFaults = 1
  NoFile = NoFile
  p1 = p1
  p2 = p2
  s1 = s1
  s2 = s2
  bash = bash
  other = other
  secret = secret
  force = force
SYMMETRY Symmetry
CONSTRAINT Focus
INVARIANT TypeOK
INVARIANT RecordedInFull
INVARIANT RecordedInOrder
INVARIANT NoContradiction
INVARIANT AuditRemembers
\* The user may stop issuing commands, so a behaviour may end.
CHECK_DEADLOCK FALSE
