SPECIFICATION Spec
CONSTANTS
  Ids = {a1, a2, b1}
  Scopes = {sa, sb}
  ScopeOf <- KeyScopes
  IdOrder <- KeyOrder
  Times = {0, 1}
  ColdLimit = 1
  FaultKinds = {"cold"}
  PolicyChanges = FALSE
  MaxWrites = 3
  MaxFaults = 1
  Corrupt = Corrupt
  a1 = a1
  a2 = a2
  b1 = b1
  sa = sa
  sb = sb
INVARIANT NeverStale
\* The user may stop, and a corrupt archive ends every restart.
CHECK_DEADLOCK FALSE
