\* Two batches and two recoveries; beside them, one reader of the candidate, a
\* receipt on a clock of four milliseconds, and a release of three commits.
SPECIFICATION MCSpec
CONSTANTS
  Batches = {b1, b2}
  Recoveries = {r1, r2}
  Authorizations = {a1, a2}
  Cases = 2
  None = None
  MaxFaults = 2
  StartTimesDrift = TRUE
  Artifacts <- MCArtifacts
  Recorded <- MCRecorded
  Tasks = {"result", "preflight", "verify", "index"}
  Blocks = {0, 1}
  NewContents <- MCNewContents
  MaxSize = 2
  MaxWrites = 2
  TicksPerMs = 2
  LastTick = 7
  OldNames <- MCOldNames
  NewNames <- MCNewNames
  Missing = Missing
  Contents <- MCContents
  Fingerprints <- MCFingerprints
  MaxCommits = 3
  MaxEdits = 1
CONSTRAINT OneMisfortune
SYMMETRY Symmetry
INVARIANTS
  HolderKeepsLock
  LedgerHonest
  Recoverable
  ReadingIsReal
  ReleaseIsTested
PROPERTY
  AuthorizationOnce
