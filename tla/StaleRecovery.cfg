SPECIFICATION Spec
CONSTANTS
  Workers = {w1, w2}
  NoWorker = none
  Reconcilers = {r1}
  StepCount = 1
  MaxAttempts <- NoRetry
  AmbiguousSteps = {}
  SkipSteps = {}
  FaultKinds = {"crash"}
  MaxFaults = 1
PROPERTIES
  DoneStepsAreKept
SYMMETRY WorkerSymmetry
\* A finished execution has nothing left to do.
CHECK_DEADLOCK FALSE
