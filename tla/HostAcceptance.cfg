SPECIFICATION Spec
CONSTANTS
  Apps = {1, 2}
  Mcps = {1, 2}
  AppOf <- MCAppOf
  First = 1
  Asks <- MCAsks
  MaxBuffered = 1
INVARIANTS
  ReceiptIsTrue
PROPERTIES
  ScriptIsHonest
  AcceptanceSettles
