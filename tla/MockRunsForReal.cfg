SPECIFICATION TrSpec
CONSTANTS
  TrWorkers = {w1}
  TrTypes = {"http_request", "execute_workflow"}
  TrMaxReruns = 0
INVARIANT
  TrMockHasNoEffects
CHECK_DEADLOCK FALSE
