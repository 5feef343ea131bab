SPECIFICATION MCSpec
CONSTANTS
  ApWorkers = {w1, w2}
  ApDeciders = {d1}
  ApChoice <- MCApChoice
  ApExpires = TRUE
  ApMaxFaults = 1
  SwCallGraphs <- MCSwCallGraphs
  SwMaxDepth = 2
  SwMaxChildren = 2
  SwIds = {1, 2, 3}
  SwMaxFaults = 1
  EvDispatchers = {d1, d2}
  EvTriggers = {t1, t2}
  EvMaxAttempts = 2
  EvMaxFaults = 1
  EvMaxToggles = 1
  NtWorkers = {w1, w2}
  NtMaxAttempts = 2
  NtMaxFaults = 2
  ScCallers = {c1, c2}
  ScSkips = TRUE
  ScLastSlot = 2
  ScMaxEdits = 1
  ScMaxFaults = 1
  AiMaxAttempts = 2
  AiMaxRetries = 1
  EcTriggerSets <- MCEcTriggerSets
  EcMaxDepth = 3
  EcMaxEvents = 5
  EcMaxRoots = 3
  SrCallSets <- MCSrCallSets
  SrMaxFaults = 2
INVARIANTS
  
  SwInv
  
  
  AiInv
PROPERTIES
  ServicesKeep
  
\* A component whose work is done has nothing left to do.
CHECK_DEADLOCK FALSE
