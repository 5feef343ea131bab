SPECIFICATION Spec
CONSTANTS
  Workers = {w1, w2}
  NoWorker = none
  Reconcilers = {r1}
  StepCount = 2
  MaxAttempts <- LastRetries
  AmbiguousSteps = {2}
  SkipSteps = {}
  FaultKinds = {"stall", "redis", "shutdown"}
  MaxFaults = 2
INVARIANTS
  StepsInOrder
  CallsBounded
  CompletedIsComplete
PROPERTIES
  DoneStepsAreKept
SYMMETRY WorkerSymmetry
\* A finished execution has nothing left to do.
CHECK_DEADLOCK FALSE
