SPECIFICATION FairSpec
CONSTANTS
  Absent = Absent
  NotFinite = NotFinite
  Sessions = {s1, s2}
  Keys = {k1, k2}
  Phases <- TwoPlans
  Paths = {p1}
  MaxItems = 0
  NoHandoff = NoHandoff
  NoEntry = NoEntry
  FileNames = {f1}
  CheckpointFile <- SharedFile
  RetentionLimit = 2
  NoCheckpoint = NoCheckpoint
  NoIndexEntry = NoIndexEntry
  ReindexOptions = {FALSE}
  ContinueOptions <- ContinueFirst
  CacheOptions = {TRUE, FALSE}
  MaxRuns = 3
  MaxFaults = 1
  NoRun = NoRun
  s1 = s1
  s2 = s2
  k1 = k1
  k2 = k2
  p1 = p1
  p2 = p2
  f1 = f1
  f2 = f2
INVARIANT TypeOK
INVARIANT LineageContinuity
INVARIANT ReturnedIsDurable
PROPERTY ImplementsPipeline
PROPERTY EveryRunEnds
\* The user may stop issuing commands, so a behaviour may end.
CHECK_DEADLOCK FALSE
