\* The Node wrapper against a helper that may write anything.
SPECIFICATION Spec
CONSTANTS
  stdin = stdin  stdout = stdout
  StdStreams <- MCOneStream
  AskReasons <- MCOneReason
  MaxRogue = 3
INVARIANTS
  CompletionIsProven
