SPECIFICATION Spec
CONSTANTS
  Processes = {p1, p2}
  s1 = s1
  s2 = s2
  Sessions = {s1, s2}
  Keys = {k1, k2, k3}
  f1 = f1
  f2 = f2
  FileNames = {f1, f2}
  CheckpointFile <- MCCheckpointFile
  RetentionLimit = 2
  NoCheckpoint = NoCheckpoint
  NoCall = NoCall
  MaxCalls = 4
  MaxTime = 1
SYMMETRY Symmetry
INVARIANT TypeOK
INVARIANT IndexIsSound
INVARIANT LossNeedsARace
CHECK_DEADLOCK FALSE
