\* Is a terminal frame always attempted after the drain?
SPECIFICATION Spec
CONSTANTS
  MaxFrames = 2
  MaxKids = 0
  SentReasons <- MCFewReasons
INVARIANTS
  TerminalAttempted
