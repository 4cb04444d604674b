\* The helper under the fairness of its threads and of the kernel: one frame
\* after the configuration, one descendant.
SPECIFICATION FairSpec
CONSTANTS
  MaxFrames = 2
  MaxKids = 1
  SentReasons <- MCFewReasons
INVARIANTS
  NoLifecycleViolation
  ExitIsEarned
  NoOrphan
  TerminalStatesDisposition
PROPERTIES
  LatchedStopNeverResumes
  WireContract
  HelperEnds
  OwnedTargetContract
