SPECIFICATION Spec
CONSTANTS
  Absent = Absent
  NotFinite = NotFinite
  Sessions = {s1}
  Keys = {k1}
  Phases <- DesignPlan
  Paths = {}
  MaxItems = 2
  NoHandoff = NoHandoff
  NoEntry = NoEntry
  FileNames = {f1}
  CheckpointFile <- OneFile
  RetentionLimit = 1
  NoCheckpoint = NoCheckpoint
  NoIndexEntry = NoIndexEntry
  ReindexOptions = {TRUE, FALSE}
  ContinueOptions <- FailFast
  CacheOptions = {TRUE}
  MaxRuns = 3
  MaxFaults = 0
  NoRun = NoRun
  s1 = s1
  s2 = s2
  k1 = k1
  k2 = k2
  p1 = p1
  p2 = p2
  f1 = f1
  f2 = f2
INVARIANT LineageContinuity
\* The user may stop issuing commands, so a behaviour may end.
CHECK_DEADLOCK FALSE
