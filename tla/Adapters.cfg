SPECIFICATION Spec
CONSTANTS
  MaxTimerDelay = 1
  Timeouts = {2}
  PinRetries = FALSE
  Windows = {TRUE, FALSE}
  Chunks <- MCChunks
  KimiWindows = {TRUE, FALSE}
  Ids = {"a", "b", "c"}
  Coming = {"a", "b"}
  Patches <- MCPatches
  RetryAttempts = {"1", "2"}
  Beginnings <- MCBeginnings
  MaxObservations = 2
  Runs <- MCRuns
INVARIANTS
  RunIsHonest
  EventsFaithful
  GatesAgree
PROPERTIES
  CancelEndsRun
