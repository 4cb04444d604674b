\* The Node wrapper with the helper of HelperWire: safety, refinement, and the
\* end of every await of closed; beside them, the decoder of the frames and the
\* two threads at the helper's end of the pipe.
SPECIFICATION MCSpec
CONSTANTS
  stdin = stdin  stdout = stdout
  StdStreams <- MCStreams
  AskReasons <- MCReasons
  MaxRogue = 0
  Radix = 8
  MaxStringBytes = 5
  MaxArgCount = 1
  MaxPayloadBytes = 26
  FirstCapacity = 14
  Traffic <- MCTraffic
  Spoils = {0, 1, 2, 7}
  Chunks = {1, 13, 64}
  MaxReads = 3
INVARIANTS
  FailureIsCleanedUp
  NothingBeforeConfig
  DecodingFaithful
  ReadsAreSafe
PROPERTIES
  ImplementsAgent
  ClosedSettles
