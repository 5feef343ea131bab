SPECIFICATION RtSpec
CONSTANTS
  RtMaxRows = 3
  RtLastSlot = 2
  RtBatches = {1, 3}
  RtMaxRuns = 2
  RtMaxKills = 1
INVARIANT
  RtResumable
CHECK_DEADLOCK FALSE
