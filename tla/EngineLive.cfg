SPECIFICATION FairSpec
CONSTANTS
  Workers = {w1, w2}
  NoWorker = none
  Reconcilers = {r1}
  StepCount = 1
  MaxAttempts <- FirstRetries
  AmbiguousSteps = {}
  SkipSteps = {}
  FaultKinds = {"stall", "redis"}
  MaxFaults = 1
PROPERTIES
  EventuallyTerminal
  FailedIsDeadLettered
\* A finished execution has nothing left to do.
CHECK_DEADLOCK FALSE
