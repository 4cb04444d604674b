\* A Kimi process that does not exit when its input ends.
SPECIFICATION UncooperativeSpec
CONSTANTS
  d1 = d1
  d2 = d2
  v1 = v1
  v2 = v2
  pool = pool
  Requests = {v1}
  Delegates <- MCDelegates
  Kimi = {v1}
  Keys = {pool}
  KeyOf <- MCKeyOf
  Limit <- MCLimit
PROPERTIES
  CancelReclaimsAgent
