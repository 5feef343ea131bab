SPECIFICATION Spec
CONSTANTS
  Workers = {w1, w2}
  NoWorker = none
  Reconcilers = {r1}
  StepCount = 3
  MaxAttempts <- NoRetry
  AmbiguousSteps = {3}
  SkipSteps = {1}
  FaultKinds = {"crash", "pause", "stall", "redis", "db", "shutdown"}
  MaxFaults = 1
INVARIANTS
  TypeOK
  TerminalEventOnce
  DeadLetterOnlyForFailed
  SkippedIsNotCalled
PROPERTIES
  TerminalIsFinal
SYMMETRY WorkerSymmetry
\* A finished execution has nothing left to do.
CHECK_DEADLOCK FALSE
