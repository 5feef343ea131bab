SPECIFICATION IngressFairSpec
CONSTANTS
  Workers = {w1, w2}
  NoWorker = none
  Reconcilers = {r1}
  StepCount = 1
  MaxAttempts <- NoRetry
  AmbiguousSteps = {}
  SkipSteps = {}
  FaultKinds = {"redis", "api"}
  MaxFaults = 2
  Requests = {q1, q2}
INVARIANTS
  IngressInv
PROPERTIES
  Settles
\* A finished execution has nothing left to do.
CHECK_DEADLOCK FALSE
