SPECIFICATION FairSpec
CONSTANTS
  Files = {fa, fb, fc, fx}
  Nameable = {fa, fb, fc}
  Lines <- MatchLines
  Terms = {rare, common}
  PathTokens <- SomePathTokens
  Domains = {backend}
  FileDomains <- SomeFileDomains
  CodeUnitOrder <- SomeCodeUnitOrder
  LocaleOrder <- SomeLocaleOrder
  Idf <- LogIdf
  Limit = 3
  Bm25Limit = 2
  TopFileLimit = 2
  Commands <- SomeTasks
  ScoutPhases = 2
  MaxRecorderFaults = 2
  fa = fa
  fb = fb
  fc = fc
  fx = fx
  rare = rare
  common = common
  backend = backend
INVARIANT TypeOK
INVARIANT SearchIsWhole
INVARIANT AnswerIgnoresArrival
INVARIANT RecordsAreTrue
INVARIANT ThrowIsRecorded
PROPERTY CommandEnds
\* A command that has ended takes no more steps.
CHECK_DEADLOCK FALSE
