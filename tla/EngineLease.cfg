SPECIFICATION Spec
CONSTANTS
  Workers = {w1, w2}
  NoWorker = none
  Reconcilers = {r1}
  StepCount = 2
  MaxAttempts <- LastRetries
  AmbiguousSteps = {2}
  SkipSteps = {}
  FaultKinds = {"crash", "stall", "redis", "db", "shutdown"}
  MaxFaults = 1
INVARIANTS
  OneActiveRunner
  RestingIsRecoverable
PROPERTIES
  BackoffRespected
  ImplementsLifecycle
SYMMETRY WorkerSymmetry
\* A finished execution has nothing left to do.
CHECK_DEADLOCK FALSE
