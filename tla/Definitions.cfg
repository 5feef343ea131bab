SPECIFICATION MCSpec
CONSTANTS
  WvPlans <- MCWvPlans
  WvUsers = {u1,u2}
  WvMaxSwitches = 1
  VdDefinitions <- MCVdDefinitions
  CnRoles <- MCCnRoles
  CnMaxWrites = 3
  HcCreates <- MCHcCreates
  HcUpdates <- MCHcUpdates
  HcMaxHeaders = 3
  DsCallers = {1,2}
  DsCallSets <- MCDsCallSets
  DsMaxRecords = 1
  DsMaxAdmin = 1
  DsMaxFaults = 1
  WtUsers = {u1, u2}
  WtSenders = {1, 2}
  WtPayloads <- MCWtPayloads
  WtDefaults <- MCWtDefaults
  WtLimits <- MCWtLimits
  WtMaxCalls = 3
  TpUsers = {"u1", "u2"}
  TpTypeOf <- MCTpTypeOf
  TpNameOf <- MCTpNameOf
  TpDefinitions <- MCTpDefinitions
  TpMappingLists <- MCTpMappingLists
  TpMaxVersions = 2
  TpMaxCalls = 2
  TpMaxChanges = 1
  RtMaxRows = 3
  RtLastSlot = 2
  RtBatches = {2}
  RtMaxRuns = 1
  RtMaxKills = 1
  RcPlans <- MCRcPlans
  RcModes = {"strict", "legacy"}
  RcItems <- MCRcItems
  RcMaxArray = 2
  RcMaxKills = 2
  RcMaxReruns = 1
  XpTypes <- MCXpTypes
  XpUsers = {"email_notification"}
  XpTyped <- MCXpTyped
  XpBodies <- MCXpBodies
  XpMaxInterpolations = 2
  XpMaxPathDepth = 4
  XpMaxArrayIndex = 1
  TfConfigs <- MCTfConfigs
  TfMaxPaths = 3
  TfMaxSources = 3
  TfMaxArrayItems = 3
  TfMaxDepth = 3
INVARIANTS
  WorkflowsInv
  
  DsInv
  WtInv
  
  
PROPERTIES
  RowsKeep
\* A component whose calls are made has nothing left to do.
CHECK_DEADLOCK FALSE
