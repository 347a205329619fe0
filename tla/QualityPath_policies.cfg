SPECIFICATION FairSpec
CONSTANTS
  Policies <- AllPolicies
  Top = 2
  MaxTime = 3
INVARIANT TypeOK
INVARIANT DangerFailsGate
INVARIANT FailClosed
INVARIANT OneStepPerHandoff
INVARIANT RateRespected
INVARIANT BreakerTrips
INVARIANT ReportAgrees
PROPERTY PathEnds
\* The path ends when every stage has its step.
CHECK_DEADLOCK FALSE
