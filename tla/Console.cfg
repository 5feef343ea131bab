SPECIFICATION MCSpec
CONSTANTS
  RsTabs = {t1}
  RsMaxSessions = 3
  RsMaxFaults = 1
  TrWorkers = {w1, w2}
  TrTypes = {"http_request", "execute_workflow"}
  TrMaxReruns = 1
  QcOrgs = {"o1", "o2"}
  QcStages <- MCQcStages
  QcMaxVersion = 1
  QcMaxSwitches = 1
  QcMaxFaults = 1
  WdTypes = {"task", "for_each"}
  WdVersions <- MCWdVersions
  WdLimit = 2
  WdMaxSteps = 2
  WdMaxEdits = 3
  EsMaxEdits = 1
  EsMaxVersions = 2
  EsMaxReloads = 1
  SfTypes <- MCSfTypes
  SfMaxEdits = 2
  SfMaxChanges = 1
  SfMaxSaves = 1
INVARIANTS
  RsInv
  TrInv
  QcInv
  EditorInv
PROPERTIES
  
  ConsoleEnds
\* A component whose work is done has nothing left to do.
CHECK_DEADLOCK FALSE
