SPECIFICATION Spec
CONSTANTS
  MaxTimerDelay = 1
  Timeouts = {2}
  PinRetries = FALSE
  Windows = {TRUE}
  Chunks <- MCChunks
  KimiWindows = {}
  Ids = {"a"}
  Coming = {"a"}
  Patches <- MCPatches
  RetryAttempts = {"1"}
  Beginnings = {}
  MaxObservations = 2
  Runs <- MCRuns
PROPERTIES
  TimeoutEndsRun
