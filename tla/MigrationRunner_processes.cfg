SPECIFICATION Spec
CONSTANTS
  Processes = {p, q}
  Files = {1, 2}
  Texts = {blank, broken, t, u}
  Blank = blank
  BrokenTexts = {broken}
  NoFile = NoFile
  NoRow = NoRow
  NoProcess = NoProcess
  Corrupt = Corrupt
  Drivers = {"better-sqlite3", "sql.js"}
  MaxRuns = 3
  MaxEdits = 1
  MaxFaults = 1
  p = p
  q = q
  blank = blank
  broken = broken
  t = t
  u = u
INVARIANT TypeOK
INVARIANT RecordedAsExecuted
PROPERTY ReturnedIsMigrated
PROPERTY EarlierFirst
SYMMETRY Symmetry
\* Nobody has to run a migration again.
CHECK_DEADLOCK FALSE
